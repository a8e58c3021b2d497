------------------------ MODULE DemandPlanning_proof ------------------------
(***************************************************************************)
(* Proofs about DemandPlanning for any number of clients and any timers:   *)
(* lasting demand and new drivers are polled, and the registrations of     *)
(* running clients do not run out.                                         *)
(***************************************************************************)
EXTENDS DemandPlanning, TLAPS

-----------------------------------------------------------------------------
(* Types.                                                                  *)

(* What the assumption says of the constants.                              *)
LEMMA Constants ==
    /\ Lease \in Nat /\ Renew \in Nat /\ PostTime \in Nat /\ ReadLease \in Nat
    /\ Startup \in Nat /\ Idle \in Nat /\ Stale \in Nat /\ Collect \in Nat
    /\ MaxFailures \in Nat /\ MaxEvents \in Nat /\ MostHeld \in Nat
    /\ RenewalGap \in Nat /\ RenewalGap = Renew + 1 + PostTime
    /\ MostHeld = Stale + Collect + 1
    /\ MostQuiet \in Nat /\ MostQuiet = Stale + Collect + Idle + 1
BY DemandPlanningAssumption DEF RenewalGap, MostHeld, MostQuiet

(* Timers stay within their ranges.                                        *)
LEMMA TimerTypes ==
    ASSUME NEW m \in Nat
    PROVE  /\ \A n \in 0..m : Left(n) \in 0..m
           /\ \A n \in 0..m : Upto(n + 1, m) \in 0..m
BY DEF Left, Upto

(* Updates of a worker preserve its type.                                  *)
LEMMA WorkerUpdates ==
    ASSUME NEW w \in WorkerState
    PROVE  /\ \A p \in {"asleep", "posting", "gone"} :
                [w EXCEPT !.phase = p] \in WorkerState
           /\ \A r \in BOOLEAN :
                [w EXCEPT !.ran = r] \in WorkerState
           /\ \A a \in BOOLEAN, f \in 0..MaxFailures :
                [w EXCEPT !.arrived = a, !.fails = f] \in WorkerState
           /\ \A r \in BOOLEAN, f \in 0..MaxFailures :
                [w EXCEPT !.ran = r, !.fails = f] \in WorkerState
           /\ \A r \in BOOLEAN, d \in 0..Renew, e \in 0..PostTime :
                [w EXCEPT !.ran = r, !.due = d, !.elapsed = e] \in WorkerState
           /\ \A p \in {"asleep", "posting", "gone"}, a \in BOOLEAN, e \in 0..PostTime, t \in Scope, d \in 0..Renew :
                [w EXCEPT !.phase = p, !.arrived = a, !.elapsed = e, !.sent = t, !.due = d] \in WorkerState
           /\ \A p \in {"asleep", "posting", "gone"}, r \in BOOLEAN, a \in BOOLEAN, e \in 0..PostTime, f \in 0..MaxFailures :
                [w EXCEPT !.phase = p, !.ran = r, !.arrived = a, !.elapsed = e, !.fails = f] \in WorkerState
<1>1. ASSUME NEW p \in {"asleep", "posting", "gone"}
      PROVE  [w EXCEPT !.phase = p] \in WorkerState
  BY DEF WorkerState
<1>2. ASSUME NEW r \in BOOLEAN
      PROVE  [w EXCEPT !.ran = r] \in WorkerState
  BY DEF WorkerState
<1>3. ASSUME NEW a \in BOOLEAN, NEW f \in 0..MaxFailures
      PROVE  [w EXCEPT !.arrived = a, !.fails = f] \in WorkerState
  BY DEF WorkerState
<1>4. ASSUME NEW r \in BOOLEAN, NEW f \in 0..MaxFailures
      PROVE  [w EXCEPT !.ran = r, !.fails = f] \in WorkerState
  BY DEF WorkerState
<1>5. ASSUME NEW r \in BOOLEAN, NEW d \in 0..Renew, NEW e \in 0..PostTime
      PROVE  [w EXCEPT !.ran = r, !.due = d, !.elapsed = e] \in WorkerState
  BY DEF WorkerState
<1>6. ASSUME NEW p \in {"asleep", "posting", "gone"}, NEW a \in BOOLEAN, NEW e \in 0..PostTime, NEW t \in Scope, NEW d \in 0..Renew
      PROVE  [w EXCEPT !.phase = p, !.arrived = a, !.elapsed = e, !.sent = t, !.due = d] \in WorkerState
  BY DEF WorkerState
<1>7. ASSUME NEW p \in {"asleep", "posting", "gone"}, NEW r \in BOOLEAN, NEW a \in BOOLEAN, NEW e \in 0..PostTime, NEW f \in 0..MaxFailures
      PROVE  [w EXCEPT !.phase = p, !.ran = r, !.arrived = a, !.elapsed = e, !.fails = f] \in WorkerState
  BY DEF WorkerState
<1> QED BY <1>1, <1>2, <1>3, <1>4, <1>5, <1>6, <1>7

(* The demand that goes on or is forgotten.                                *)
LEMMA HeldType ==
    ASSUME observedFor \in 0..MostHeld, leasedFor \in 0..MostHeld, HeldOn
    PROVE  observedFor' \in 0..MostHeld /\ leasedFor' \in 0..MostHeld
BY Constants DEF HeldOn

LEMMA QuietType ==
    ASSUME quiet \in 0..MostQuiet, QuietOn
    PROVE  quiet' \in 0..MostQuiet
BY Constants DEF QuietOn

(* A post begins: the worker stays well typed.                             *)
LEMMA PostType ==
    ASSUME TypeOK, NEW c \in Clients, NEW s \in Scope, Post(c, s)
    PROVE  worker' \in [Clients -> WorkerState] /\ known' \subseteq Clients
<1>1. worker \in [Clients -> WorkerState] /\ known \subseteq Clients
  BY DEF TypeOK
<1>2. worker[c] \in WorkerState
  BY <1>1
<1>3. [worker[c] EXCEPT !.phase = "posting", !.arrived = FALSE, !.elapsed = 0,
                        !.sent = s, !.due = Renew] \in WorkerState
  <2>1. Renew \in 0..Renew /\ 0 \in 0..PostTime
    BY Constants
  <2> QED BY <1>2, <2>1, WorkerUpdates, Zenon
<1>4. worker' \in [Clients -> WorkerState]
  BY <1>1, <1>3 DEF Post
<1>5. known' \subseteq Clients
  BY <1>1 DEF Post
<1> QED BY <1>4, <1>5

(* The initial state is well typed.                                        *)
LEMMA InitType == Init => TypeOK
<1> SUFFICES ASSUME Init PROVE TypeOK
  OBVIOUS
<1>1. NewWorker \in WorkerState
  BY Constants DEF NewWorker, WorkerState, Scope
<1>2. NoPlan \in Plan /\ IdlePlanner \in Planner
  BY Constants DEF NoPlan, Plan, IdlePlanner, Planner
<1>3. worker \in [Clients -> WorkerState]
  BY <1>1 DEF Init
<1>4. wanted \in [Clients -> Scope] /\ late \in [Clients -> SUBSET Scope]
  BY DEF Init
<1>5. lease \in [Clients -> 0..Lease]
  BY Constants DEF Init
<1>6. read \in 0..ReadLease
  BY Constants DEF Init
<1>7. monitored \in BOOLEAN
  BY DEF Init
<1>8. driverAge \in 0..Startup /\ events \in 0..MaxEvents
      /\ observedFor \in 0..MostHeld /\ leasedFor \in 0..MostHeld /\ quiet \in 0..MostQuiet
  BY Constants DEF Init
<1>9. known \subseteq Clients /\ plan \in Plan /\ planner \in Planner
  BY <1>2 DEF Init
<1> QED BY <1>3, <1>4, <1>5, <1>6, <1>7, <1>8, <1>9 DEF TypeOK

(* The choices of users, operators and readers preserve the types.         *)
LEMMA EventType ==
    ASSUME TypeOK,
           \/ \E c \in Clients : ChangeScope(c) \/ Crash(c) \/ Stop(c)
           \/ ObserveRead \/ ChangeMonitored \/ ReplaceDriver \/ RestartCore
    PROVE  TypeOK'
<1> USE Constants
<1>t. /\ wanted \in [Clients -> Scope] /\ worker \in [Clients -> WorkerState]
      /\ late \in [Clients -> SUBSET Scope]
      /\ lease \in [Clients -> 0..Lease] /\ read \in 0..ReadLease /\ monitored \in BOOLEAN
      /\ plan \in Plan /\ planner \in Planner /\ driverAge \in 0..Startup
      /\ observedFor \in 0..MostHeld /\ leasedFor \in 0..MostHeld
      /\ known \subseteq Clients /\ events \in 0..MaxEvents
      /\ quiet \in 0..MostQuiet
  BY DEF TypeOK
<1>e. Event => events' \in 0..MaxEvents
  BY <1>t DEF Event
<1>n. NewWorker \in WorkerState
  BY DEF NewWorker, WorkerState, Scope
<1>g. GoneWorker \in WorkerState
  BY <1>n, WorkerUpdates, Zenon DEF GoneWorker
<1>i. ASSUME NEW c \in Clients PROVE InFlight(c) \subseteq Scope
  <2>1. worker[c] \in WorkerState
    BY <1>t
  <2> QED BY <2>1 DEF InFlight, WorkerState
<1>1. ASSUME NEW c \in Clients, ChangeScope(c) PROVE TypeOK'
  <2>1. wanted' \in [Clients -> Scope]
    BY <1>1, <1>t DEF ChangeScope
  <2> QED BY <1>1, <2>1, <1>t, <1>e DEF ChangeScope, TypeOK, demandVars, planVars, spans, held
<1>x. "none" \in Scope
  BY DEF Scope
<1>2. ASSUME NEW c \in Clients, Crash(c) PROVE TypeOK'
  <2>1. worker' \in [Clients -> WorkerState]
    BY <1>2, <1>t, <1>g DEF Crash
  <2>2. late' \in [Clients -> SUBSET Scope]
    BY <1>2, <1>t, <1>i DEF Crash
  <2>3. wanted' \in [Clients -> Scope]
    BY <1>2, <1>t, <1>x DEF Crash
  <2> QED BY <1>2, <2>1, <2>2, <2>3, <1>t, <1>e DEF Crash, TypeOK, demandVars, planVars, spans, held
<1>3. ASSUME NEW c \in Clients, Stop(c) PROVE TypeOK'
  <2>1. worker' \in [Clients -> WorkerState]
    BY <1>3, <1>t, <1>g DEF Stop
  <2>2. late' \in [Clients -> SUBSET Scope]
    BY <1>3, <1>t DEF Stop, Scope
  <2>3. wanted' \in [Clients -> Scope]
    BY <1>3, <1>t, <1>x DEF Stop
  <2> QED BY <1>3, <2>1, <2>2, <2>3, <1>t, <1>e DEF Stop, TypeOK, demandVars, planVars, spans, held
<1>4. CASE ObserveRead
  BY <1>4, <1>t, <1>e, HeldType, QuietType DEF ObserveRead, TypeOK, clientVars, planVars
<1>5. CASE ChangeMonitored
  <2>1. monitored' \in BOOLEAN
    BY <1>5, <1>t DEF ChangeMonitored
  <2>2. events' \in 0..MaxEvents
    BY <1>5, <1>t, <1>e DEF ChangeMonitored
  <2> QED BY <1>5, <2>1, <2>2, <1>t, HeldType, QuietType DEF ChangeMonitored, TypeOK, clientVars, planVars
<1>6. CASE ReplaceDriver
  <2>1. plan' \in Plan
    BY <1>6, <1>t DEF ReplaceDriver, Plan
  <2> QED BY <1>6, <2>1, <1>t, <1>e, QuietType DEF ReplaceDriver, TypeOK, clientVars, demandVars, held
<1>7. CASE RestartCore
  <2>1. NoPlan \in Plan /\ IdlePlanner \in Planner
    BY DEF NoPlan, Plan, IdlePlanner, Planner
  <2>2. lease' \in [Clients -> 0..Lease]
    BY <1>7 DEF RestartCore
  <2>6. read' \in 0..ReadLease
    BY <1>7 DEF RestartCore
  <2>7. monitored' \in BOOLEAN
    BY <1>7 DEF RestartCore
  <2>3. plan' \in Plan /\ planner' \in Planner /\ driverAge' \in 0..Startup
    BY <1>7, <2>1 DEF RestartCore
  <2>4. /\ observedFor' \in 0..MostHeld /\ leasedFor' \in 0..MostHeld /\ quiet' \in 0..MostQuiet /\ known' \subseteq Clients
        /\ events' \in 0..MaxEvents
    BY <1>7, <1>e DEF RestartCore
  <2>5. wanted' = wanted /\ worker' = worker /\ late' = late
    BY <1>7 DEF RestartCore, clientVars
  <2> QED BY <2>2, <2>3, <2>4, <2>5, <2>6, <2>7, <1>t DEF TypeOK
<1> QED BY <1>1, <1>2, <1>3, <1>4, <1>5, <1>6, <1>7

(* The steps of the workers preserve the types.                            *)
LEMMA WorkerType ==
    ASSUME TypeOK, NEW c \in Clients,
           \/ Pass(c) \/ ProviderFails(c) \/ PostArrives(c) \/ PostEnds(c)
           \/ LateArrives(c) \/ LateLost(c)
    PROVE  TypeOK'
<1> USE Constants
<1>t. /\ wanted \in [Clients -> Scope] /\ worker \in [Clients -> WorkerState]
      /\ late \in [Clients -> SUBSET Scope]
      /\ lease \in [Clients -> 0..Lease] /\ read \in 0..ReadLease /\ monitored \in BOOLEAN
      /\ plan \in Plan /\ planner \in Planner /\ driverAge \in 0..Startup
      /\ observedFor \in 0..MostHeld /\ leasedFor \in 0..MostHeld
      /\ known \subseteq Clients /\ events \in 0..MaxEvents
      /\ quiet \in 0..MostQuiet
  BY DEF TypeOK
<1>w. worker[c] \in WorkerState /\ wanted[c] \in Scope
  BY <1>t
<1>f. worker[c].fails \in 0..MaxFailures
  BY <1>w DEF WorkerState
<1>1. CASE Pass(c)
  <2>1. CASE Post(c, wanted[c])
    <3>1. worker' \in [Clients -> WorkerState] /\ known' \subseteq Clients
      BY <2>1, <1>w, PostType
    <3> QED BY <1>1, <3>1, <1>t DEF Pass, TypeOK, demandVars, planVars, spans, held
  <2>2. CASE worker' = [worker EXCEPT ![c].ran = TRUE] /\ UNCHANGED known
    <3>1. [worker[c] EXCEPT !.ran = TRUE] \in WorkerState
      BY <1>w DEF WorkerState
    <3>2. worker' \in [Clients -> WorkerState]
      BY <2>2, <3>1, <1>t
    <3> QED BY <1>1, <2>2, <3>2, <1>t DEF Pass, TypeOK, demandVars, planVars, spans, held
  <2> QED BY <1>1, <2>1, <2>2 DEF Pass
<1>2. CASE ProviderFails(c)
  <2>1. [worker[c] EXCEPT !.ran = TRUE, !.fails = @ + 1] \in WorkerState
    <3>1. worker[c].fails < MaxFailures
      BY <1>2 DEF ProviderFails
    <3>2. worker[c].fails + 1 \in 0..MaxFailures
      BY <3>1, <1>f
    <3> QED BY <1>w, <3>2, WorkerUpdates, Zenon
  <2>2. worker' \in [Clients -> WorkerState]
    BY <1>2, <2>1, <1>t DEF ProviderFails
  <2> QED BY <1>2, <2>2, <1>t DEF ProviderFails, TypeOK, demandVars, planVars, spans, held
<1>3. CASE PostArrives(c)
  <2>1. [worker[c] EXCEPT !.arrived = TRUE, !.fails = 0] \in WorkerState
    <3>1. 0 \in 0..MaxFailures
      OBVIOUS
    <3> QED BY <1>w, <3>1, WorkerUpdates, Zenon
  <2>2. worker' \in [Clients -> WorkerState]
    BY <1>3, <2>1, <1>t DEF PostArrives
  <2>3. lease' \in [Clients -> 0..Lease]
    BY <1>3, <1>t DEF PostArrives, Apply
  <2>4. observedFor' \in 0..MostHeld /\ leasedFor' \in 0..MostHeld /\ quiet' \in 0..MostQuiet
    BY <1>3, <1>t, HeldType, QuietType DEF PostArrives, Apply
  <2> QED BY <1>3, <2>2, <2>3, <2>4, <1>t DEF PostArrives, Apply, TypeOK, planVars
<1>4. CASE PostEnds(c)
  <2>1. [worker[c] EXCEPT !.phase = "asleep", !.ran = TRUE, !.arrived = FALSE, !.elapsed = 0,
                          !.fails = IF worker[c].arrived THEN @ ELSE @ + 1] \in WorkerState
    <3>1. worker[c].arrived \/ worker[c].fails < MaxFailures
      BY <1>4 DEF PostEnds
    <3>2. (IF worker[c].arrived THEN worker[c].fails ELSE worker[c].fails + 1) \in 0..MaxFailures
      BY <3>1, <1>f
    <3>3. 0 \in 0..PostTime
      OBVIOUS
    <3> QED BY <1>w, <3>2, <3>3, WorkerUpdates, Zenon
  <2>2. worker' \in [Clients -> WorkerState]
    BY <1>4, <2>1, <1>t DEF PostEnds
  <2>3. InFlight(c) \subseteq Scope
    BY <1>w DEF InFlight, WorkerState
  <2>4. late' \in [Clients -> SUBSET Scope]
    BY <1>4, <2>3, <1>t DEF PostEnds
  <2> QED BY <1>4, <2>2, <2>4, <1>t DEF PostEnds, TypeOK, demandVars, planVars, spans, held
<1>5. CASE LateArrives(c)
  <2>1. PICK s \in late[c] : /\ late' = [late EXCEPT ![c] = @ \ {s}]
                             /\ Apply(c, s)
                             /\ known' = IF s = "tag" THEN known ELSE known \ {c}
                             /\ UNCHANGED <<wanted, worker, events>>
    BY <1>5 DEF LateArrives
  <2>2. late' \in [Clients -> SUBSET Scope]
    BY <2>1, <1>t
  <2>3. lease' \in [Clients -> 0..Lease] /\ observedFor' \in 0..MostHeld /\ leasedFor' \in 0..MostHeld /\ quiet' \in 0..MostQuiet
    BY <2>1, <1>t, HeldType, QuietType DEF Apply
  <2> QED BY <2>1, <2>2, <2>3, <1>t DEF Apply, TypeOK, planVars
<1>6. CASE LateLost(c)
  <2>1. late' \in [Clients -> SUBSET Scope]
    BY <1>6, <1>t DEF LateLost
  <2> QED BY <1>6, <2>1, <1>t DEF LateLost, TypeOK, demandVars, planVars, spans, held
<1> QED BY <1>1, <1>2, <1>3, <1>4, <1>5, <1>6

(* The steps of the main loop preserve the types.                          *)
LEMMA PlannerType ==
    ASSUME TypeOK, CollectObservations \/ CollectLeases \/ RefreshPlan
    PROVE  TypeOK'
<1> USE Constants
<1>t. /\ wanted \in [Clients -> Scope] /\ worker \in [Clients -> WorkerState]
      /\ late \in [Clients -> SUBSET Scope]
      /\ lease \in [Clients -> 0..Lease] /\ read \in 0..ReadLease /\ monitored \in BOOLEAN
      /\ plan \in Plan /\ planner \in Planner /\ driverAge \in 0..Startup
      /\ observedFor \in 0..MostHeld /\ leasedFor \in 0..MostHeld
      /\ known \subseteq Clients /\ events \in 0..MaxEvents
      /\ quiet \in 0..MostQuiet
  BY DEF TypeOK
<1>p. \A x, y, z \in BOOLEAN, n \in 0..Collect :
         [collecting |-> x, leases |-> y, seen |-> z, elapsed |-> n] \in Planner
  BY DEF Planner
<1>1. CASE CollectObservations
  <2>1. Observed \in BOOLEAN /\ 0 \in 0..Collect
    BY <1>t DEF Observed
  <2>2. planner' \in Planner
    BY <1>1, <2>1, <1>p, Zenon DEF CollectObservations
  <2> QED BY <1>1, <2>2, <1>t DEF CollectObservations, TypeOK, clientVars, demandVars, spans, held
<1>3. CASE CollectLeases
  <2>1. Leased \in BOOLEAN
    BY DEF Leased
  <2>2. planner' \in Planner
    BY <1>3, <1>t, <2>1 DEF CollectLeases, Planner
  <2> QED BY <1>3, <2>2, <1>t DEF CollectLeases, TypeOK, clientVars, demandVars, spans, held
<1>2. CASE RefreshPlan
  <2>1. IdlePlanner \in Planner
    BY DEF IdlePlanner, Planner
  <2>2. plan.started \in 0..Startup /\ plan.idle \in 0..Idle
    BY <1>t DEF Plan
  <2>3. \A b \in BOOLEAN, p \in 0..Startup, i \in 0..Idle :
           [made |-> TRUE, age |-> 0, current |-> TRUE, started |-> p, idle |-> i,
            wouldPoll |-> b] \in Plan
    BY DEF Plan
  <2>4. planner.seen \in BOOLEAN /\ plan.made \in BOOLEAN /\ plan.current \in BOOLEAN
    BY <1>t DEF Plan, Planner
  <2> DEFINE fresh == ~plan.made \/ ~plan.current
             p == IF fresh THEN 0 ELSE plan.started
             i == IF fresh \/ planner.seen THEN 0 ELSE plan.idle
             b == planner.seen \/ fresh \/ plan.started < Startup \/ plan.idle < Idle
  <2>5. p \in 0..Startup
    BY <2>2
  <2>6. i \in 0..Idle
    BY <2>2
  <2>7. b \in BOOLEAN
    BY <2>4
  <2>8. plan' = [made |-> TRUE, age |-> 0, current |-> TRUE, started |-> p, idle |-> i,
                 wouldPoll |-> b]
    BY <1>2, Zenon DEF RefreshPlan, Entry, EntryWith
  <2> HIDE DEF p, i, b
  <2>9. plan' \in Plan
    BY <2>3, <2>5, <2>6, <2>7, <2>8, Zenon
  <2> QED BY <1>2, <2>1, <2>9, <1>t, QuietType DEF RefreshPlan, TypeOK, clientVars, demandVars, held
<1> QED BY <1>1, <1>2, <1>3

(* The passing of time preserves the types.                                *)
LEMMA TickType ==
    ASSUME TypeOK, Tick
    PROVE  TypeOK'
<1> USE Constants
<1>t. /\ wanted \in [Clients -> Scope] /\ worker \in [Clients -> WorkerState]
      /\ late \in [Clients -> SUBSET Scope]
      /\ lease \in [Clients -> 0..Lease] /\ read \in 0..ReadLease /\ monitored \in BOOLEAN
      /\ plan \in Plan /\ planner \in Planner /\ driverAge \in 0..Startup
      /\ observedFor \in 0..MostHeld /\ leasedFor \in 0..MostHeld
      /\ known \subseteq Clients /\ events \in 0..MaxEvents
      /\ quiet \in 0..MostQuiet
  BY DEF TypeOK
<1>1. ASSUME NEW c \in Clients
      PROVE  [worker[c] EXCEPT !.ran = FALSE, !.due = Left(@),
                !.elapsed = IF worker[c].phase = "posting" THEN @ + 1 ELSE @] \in WorkerState
  <2>1. worker[c] \in WorkerState
    BY <1>t
  <2>2. worker[c].due \in 0..Renew /\ worker[c].elapsed \in 0..PostTime
    BY <2>1 DEF WorkerState
  <2>3. Left(worker[c].due) \in 0..Renew
    BY <2>2, TimerTypes
  <2>4. worker[c].phase = "posting" => worker[c].elapsed < PostTime
    BY DEF Tick
  <2>5. (IF worker[c].phase = "posting" THEN worker[c].elapsed + 1 ELSE worker[c].elapsed)
          \in 0..PostTime
    BY <2>2, <2>4
  <2> QED BY <2>1, <2>3, <2>5, WorkerUpdates, Zenon
<1>2. worker' \in [Clients -> WorkerState]
  BY <1>1, Zenon DEF Tick
<1>3. lease' \in [Clients -> 0..Lease]
  <2>1. \A c \in Clients : Left(lease[c]) \in 0..Lease
    BY <1>t, TimerTypes
  <2> QED BY <2>1, Zenon DEF Tick
<1>4. read' \in 0..ReadLease /\ driverAge' \in 0..Startup
  BY <1>t, TimerTypes DEF Tick
<1>5. plan' \in Plan
  <2>1. plan.age \in 0..(Stale + 1) /\ plan.started \in 0..Startup /\ plan.idle \in 0..Idle
    BY <1>t DEF Plan
  <2>2. /\ Upto(plan.age + 1, Stale + 1) \in 0..(Stale + 1)
        /\ Upto(plan.started + 1, Startup) \in 0..Startup
        /\ Upto(plan.idle + 1, Idle) \in 0..Idle
    BY <2>1, TimerTypes
  <2>3. ASSUME NEW n \in 0..(Stale + 1), NEW p \in 0..Startup, NEW i \in 0..Idle
        PROVE  [plan EXCEPT !.age = n, !.started = p, !.idle = i] \in Plan
    BY <1>t DEF Plan
  <2>4. plan' = [plan EXCEPT !.age = Upto(plan.age + 1, Stale + 1),
                             !.started = Upto(plan.started + 1, Startup),
                             !.idle = Upto(plan.idle + 1, Idle)]
    BY Zenon DEF Tick
  <2> QED BY <2>2, <2>3, <2>4, Zenon
<1>6. planner' \in Planner
  <2>1. planner.elapsed \in 0..Collect /\ planner.collecting \in BOOLEAN
    BY <1>t DEF Planner
  <2>2. planner.collecting => planner.elapsed < Collect
    BY DEF Tick
  <2>3. (IF planner.collecting THEN planner.elapsed + 1 ELSE planner.elapsed) \in 0..Collect
    BY <2>1, <2>2
  <2>4. ASSUME NEW n \in 0..Collect PROVE [planner EXCEPT !.elapsed = n] \in Planner
    BY <1>t DEF Planner
  <2>5. planner' = [planner EXCEPT !.elapsed = IF planner.collecting THEN planner.elapsed + 1
                                               ELSE planner.elapsed]
    BY Zenon DEF Tick
  <2> QED BY <2>3, <2>4, <2>5, Zenon
<1>7. observedFor' \in 0..MostHeld /\ leasedFor' \in 0..MostHeld
  <2>1. /\ Upto(observedFor + 1, MostHeld) \in 0..MostHeld
        /\ Upto(leasedFor + 1, MostHeld) \in 0..MostHeld
    BY <1>t, TimerTypes
  <2>2. /\ observedFor' = IF Observed' THEN Upto(observedFor + 1, MostHeld) ELSE 0
        /\ leasedFor' = IF Leased' THEN Upto(leasedFor + 1, MostHeld) ELSE 0
    BY DEF Tick
  <2> QED BY <2>1, <2>2
<1>8. quiet' \in 0..MostQuiet
  <2>1. Upto(quiet + 1, MostQuiet) \in 0..MostQuiet
    BY <1>t, TimerTypes
  <2>2. quiet' = IF Reason' THEN 0 ELSE Upto(quiet + 1, MostQuiet)
    BY DEF Tick
  <2> QED BY <2>1, <2>2
<1> QED BY <1>2, <1>3, <1>4, <1>5, <1>6, <1>7, <1>8, <1>t DEF Tick, TypeOK

(* Every reachable state is well typed.  Its ranges say that no timer      *)
(* overruns: no lease is longer than Lease, no post lasts longer than      *)
(* PostTime, no collection longer than Collect.                            *)
THEOREM TypeCorrect == Spec => []TypeOK
<1>1. TypeOK /\ [Next]_vars => TypeOK'
  <2> SUFFICES ASSUME TypeOK, [Next]_vars PROVE TypeOK'
    OBVIOUS
  <2>1. CASE UNCHANGED vars
    BY <2>1 DEF TypeOK, vars, clientVars, demandVars, planVars, spans, held
  <2>2. CASE Next
    BY <2>2, EventType, WorkerType, PlannerType, TickType DEF Next
  <2> QED BY <2>1, <2>2
<1> QED BY InitType, <1>1, PTL DEF Spec

-----------------------------------------------------------------------------
(* The plan.                                                               *)

(* The time for which the demand of a source has been missed is known to   *)
(* the collection that missed it, from the moment it has read that source, *)
(* and to the plan made from it.                                           *)
MissedDemandIsRecent ==
    /\ observedFor > 0 => Observed
    /\ leasedFor > 0 => Leased
    /\ planner.collecting /\ ~planner.seen => observedFor <= planner.elapsed
    /\ planner.collecting /\ planner.leases /\ ~planner.seen => leasedFor <= planner.elapsed
    /\ plan.made /\ plan.current /\ ~plan.wouldPoll /\ plan.age <= Stale
         => observedFor <= plan.age + Collect /\ leasedFor <= plan.age + Collect

(* An entry of this epoch is not older than its driver, and as long as it  *)
(* is not older than Startup it is polled.                                 *)
EntryIsYounger ==
    plan.made /\ plan.current => /\ plan.started <= driverAge
                                 /\ ~plan.wouldPoll => plan.started = Startup

PlanInv == TypeOK /\ MissedDemandIsRecent /\ EntryIsYounger

(* A step that does not prolong the demand of any source.                  *)
HeldNoLonger ==
    /\ observedFor' <= observedFor /\ (observedFor' > 0 => Observed')
    /\ leasedFor' <= leasedFor /\ (leasedFor' > 0 => Leased')

(* Steps that leave the plan alone and do not prolong the demand.          *)
LEMMA PlanUntouched ==
    ASSUME PlanInv, TypeOK', UNCHANGED planVars, HeldNoLonger
    PROVE  PlanInv'
<1>1. /\ observedFor \in Nat /\ observedFor' \in Nat
      /\ leasedFor \in Nat /\ leasedFor' \in Nat
  BY Constants DEF PlanInv, TypeOK
<1>2. plan' = plan /\ planner' = planner /\ driverAge' = driverAge
  BY DEF planVars
<1>3. planner.elapsed \in Nat
  BY Constants DEF PlanInv, TypeOK, Planner
<1>4. plan.age \in Nat
  BY Constants DEF PlanInv, TypeOK, Plan
<1>5. MissedDemandIsRecent'
  BY <1>1, <1>2, <1>3, <1>4, Constants DEF PlanInv, MissedDemandIsRecent, HeldNoLonger
<1> QED BY <1>2, <1>5 DEF PlanInv, EntryIsYounger

(* Demand that goes on or is forgotten is not prolonged.                   *)
LEMMA HeldOnHolds ==
    ASSUME PlanInv, HeldOn
    PROVE  HeldNoLonger
<1>1. observedFor \in Nat /\ leasedFor \in Nat
  BY Constants DEF PlanInv, TypeOK
<1> QED BY <1>1 DEF HeldOn, HeldNoLonger

(* Steps that leave demand and its history alone.                          *)
LEMMA DemandUntouched ==
    ASSUME PlanInv, UNCHANGED <<demandVars, held>>
    PROVE  HeldNoLonger
<1>1. observedFor \in Nat /\ leasedFor \in Nat
  BY Constants DEF PlanInv, TypeOK
<1>2. /\ observedFor > 0 => Observed
      /\ leasedFor > 0 => Leased
      /\ observedFor' = observedFor /\ leasedFor' = leasedFor
  BY DEF PlanInv, MissedDemandIsRecent, held
<1>3. Observed' = Observed /\ Leased' = Leased
  BY DEF demandVars, Observed, Leased
<1> QED BY <1>1, <1>2, <1>3 DEF HeldNoLonger

(* The inductive invariant holds at the start.                             *)
LEMMA PlanInvInit == Init => PlanInv
BY InitType, Constants DEF Init, PlanInv, MissedDemandIsRecent, EntryIsYounger, NoPlan, IdlePlanner

(* Steps other than those of the planner, of a replacement and of time.    *)
LEMMA PlanInvOthers ==
    ASSUME PlanInv, TypeOK',
           \/ \E c \in Clients : \/ ChangeScope(c) \/ Crash(c) \/ Stop(c)
                                 \/ Pass(c) \/ ProviderFails(c) \/ PostArrives(c) \/ PostEnds(c)
                                 \/ LateArrives(c) \/ LateLost(c)
           \/ ObserveRead \/ ChangeMonitored
    PROVE  PlanInv'
<1>1. ASSUME NEW c \in Clients, ChangeScope(c) \/ Crash(c) \/ Stop(c)
      PROVE  PlanInv'
  BY <1>1, DemandUntouched, PlanUntouched DEF ChangeScope, Crash, Stop, spans
<1>2. ASSUME NEW c \in Clients, Pass(c) \/ ProviderFails(c) \/ PostEnds(c) \/ LateLost(c)
      PROVE  PlanInv'
  BY <1>2, DemandUntouched, PlanUntouched DEF Pass, ProviderFails, PostEnds, LateLost, spans
<1>3. ASSUME NEW c \in Clients, PostArrives(c) \/ LateArrives(c)
      PROVE  PlanInv'
  BY <1>3, HeldOnHolds, PlanUntouched DEF PostArrives, LateArrives, Apply
<1>4. CASE ObserveRead \/ ChangeMonitored
  BY <1>4, HeldOnHolds, PlanUntouched DEF ObserveRead, ChangeMonitored
<1> QED BY <1>1, <1>2, <1>3, <1>4

(* A refresh: what was missed was missed during the collection.            *)
LEMMA PlanInvRefresh ==
    ASSUME PlanInv, TypeOK', RefreshPlan
    PROVE  PlanInv'
<1>1. /\ observedFor' = observedFor /\ leasedFor' = leasedFor
      /\ driverAge' = driverAge /\ planner' = IdlePlanner
      /\ UNCHANGED demandVars /\ planner.collecting /\ planner.leases
  BY DEF RefreshPlan, held
<1>2. /\ observedFor \in Nat /\ leasedFor \in Nat /\ driverAge \in Nat
      /\ planner.elapsed \in 0..Collect
  BY Constants DEF PlanInv, TypeOK, Planner
<1>3. plan.started \in 0..Startup
  BY DEF PlanInv, TypeOK, Plan
<1> DEFINE fresh == ~plan.made \/ ~plan.current
<1>4. /\ plan'.age = 0
      /\ plan'.started = IF fresh THEN 0 ELSE plan.started
      /\ ~plan'.wouldPoll => ~planner.seen /\ ~fresh /\ ~(plan.started < Startup)
  BY DEF RefreshPlan, Entry, EntryWith
<1>5. (observedFor > 0 => Observed') /\ (leasedFor > 0 => Leased')
  BY <1>1 DEF PlanInv, MissedDemandIsRecent, demandVars, Observed, Leased
<1>6. ~planner'.collecting
  BY <1>1 DEF IdlePlanner
<1>7. ~plan'.wouldPoll => observedFor <= plan'.age + Collect /\ leasedFor <= plan'.age + Collect
  BY <1>1, <1>2, <1>4, Constants DEF PlanInv, MissedDemandIsRecent
<1>8. MissedDemandIsRecent'
  BY <1>1, <1>5, <1>6, <1>7 DEF MissedDemandIsRecent
<1>9. EntryIsYounger'
  <2>1. plan'.started <= driverAge
    BY <1>2, <1>3, <1>4 DEF PlanInv, EntryIsYounger
  <2>2. ~plan'.wouldPoll => plan'.started = Startup
    BY <1>3, <1>4, Constants
  <2> QED BY <2>1, <2>2, <1>1 DEF EntryIsYounger
<1> QED BY <1>8, <1>9 DEF PlanInv

(* Time: demand, collection, plan and driver grow older together.          *)
LEMMA PlanInvTick ==
    ASSUME PlanInv, TypeOK', Tick
    PROVE  PlanInv'
<1>1. /\ observedFor \in Nat /\ leasedFor \in Nat
      /\ driverAge \in 0..Startup /\ planner.elapsed \in Nat
      /\ plan.age \in Nat /\ plan.started \in 0..Startup
  BY Constants DEF PlanInv, TypeOK, Planner, Plan
<1>2. /\ plan'.made = plan.made /\ plan'.current = plan.current
      /\ plan'.wouldPoll = plan.wouldPoll
      /\ plan'.age = Upto(plan.age + 1, Stale + 1)
      /\ plan'.started = Upto(plan.started + 1, Startup)
  BY DEF Tick, PlanInv, TypeOK, Plan
<1>3. /\ planner'.collecting = planner.collecting /\ planner'.seen = planner.seen
      /\ planner'.leases = planner.leases
      /\ planner.collecting => planner'.elapsed = planner.elapsed + 1
  BY DEF Tick, PlanInv, TypeOK, Planner
<1>4. /\ observedFor' <= observedFor + 1 /\ (observedFor' > 0 => Observed')
      /\ leasedFor' <= leasedFor + 1 /\ (leasedFor' > 0 => Leased')
  <2>1. /\ observedFor' = IF Observed' THEN Upto(observedFor + 1, MostHeld) ELSE 0
        /\ leasedFor' = IF Leased' THEN Upto(leasedFor + 1, MostHeld) ELSE 0
    BY DEF Tick
  <2> QED BY <2>1, <1>1, Constants DEF Upto
<1>5. observedFor' \in Nat /\ leasedFor' \in Nat
  BY Constants DEF TypeOK
<1>6. driverAge' = Upto(driverAge + 1, Startup)
  BY DEF Tick
<1>7. /\ planner'.collecting /\ ~planner'.seen => observedFor' <= planner'.elapsed
      /\ planner'.collecting /\ planner'.leases /\ ~planner'.seen => leasedFor' <= planner'.elapsed
  BY <1>1, <1>3, <1>4, <1>5 DEF PlanInv, MissedDemandIsRecent
<1>8. plan'.made /\ plan'.current /\ ~plan'.wouldPoll /\ plan'.age <= Stale
        => observedFor' <= plan'.age + Collect /\ leasedFor' <= plan'.age + Collect
  <2> SUFFICES ASSUME plan'.made, plan'.current, ~plan'.wouldPoll, plan'.age <= Stale
               PROVE  observedFor' <= plan'.age + Collect /\ leasedFor' <= plan'.age + Collect
    OBVIOUS
  <2>1. plan.age <= Stale /\ plan'.age = plan.age + 1
    BY <1>1, <1>2, Constants DEF Upto
  <2>2. observedFor <= plan.age + Collect /\ leasedFor <= plan.age + Collect
    BY <1>2, <2>1 DEF PlanInv, MissedDemandIsRecent
  <2> QED BY <1>1, <1>4, <1>5, <2>1, <2>2, Constants
<1>9. EntryIsYounger'
  <2> SUFFICES ASSUME plan'.made, plan'.current
               PROVE  /\ plan'.started <= driverAge'
                      /\ ~plan'.wouldPoll => plan'.started = Startup
    BY DEF EntryIsYounger
  <2>1. plan.started <= driverAge /\ (~plan.wouldPoll => plan.started = Startup)
    BY <1>2 DEF PlanInv, EntryIsYounger
  <2> QED BY <2>1, <1>1, <1>2, <1>6, Constants DEF Upto
<1> QED BY <1>4, <1>7, <1>8, <1>9 DEF PlanInv, MissedDemandIsRecent

(* The inductive step.                                                     *)
LEMMA PlanInvNext == PlanInv /\ [Next]_vars => PlanInv'
<1> SUFFICES ASSUME PlanInv, [Next]_vars PROVE PlanInv'
  OBVIOUS
<1>t. TypeOK'
  <2>1. CASE UNCHANGED vars
    BY <2>1 DEF PlanInv, TypeOK, vars, clientVars, demandVars, planVars, spans, held
  <2>2. CASE Next
    BY <2>2, EventType, WorkerType, PlannerType, TickType DEF Next, PlanInv
  <2> QED BY <2>1, <2>2
<1>n. observedFor \in Nat /\ leasedFor \in Nat /\ planner.elapsed \in Nat
  BY Constants DEF PlanInv, TypeOK, Planner
<1>1. CASE UNCHANGED vars
  BY <1>1, <1>t, DemandUntouched, PlanUntouched DEF vars, spans
<1>2. CASE CollectObservations
  <2>1. planner' = [collecting |-> TRUE, leases |-> FALSE, seen |-> Observed, elapsed |-> 0]
    BY <1>2 DEF CollectObservations
  <2>2. /\ observedFor' = observedFor /\ leasedFor' = leasedFor /\ plan' = plan
        /\ driverAge' = driverAge /\ Observed' = Observed /\ Leased' = Leased
    BY <1>2 DEF CollectObservations, demandVars, spans, held, Observed, Leased
  <2> QED BY <2>1, <2>2, <1>t, <1>n DEF PlanInv, MissedDemandIsRecent, EntryIsYounger
<1>3. CASE CollectLeases
  <2>1. /\ planner.collecting
        /\ planner'.seen = (planner.seen \/ Leased) /\ planner'.elapsed = planner.elapsed
    BY <1>3 DEF CollectLeases, PlanInv, TypeOK, Planner
  <2>2. /\ observedFor' = observedFor /\ leasedFor' = leasedFor /\ plan' = plan
        /\ driverAge' = driverAge /\ Observed' = Observed /\ Leased' = Leased
    BY <1>3 DEF CollectLeases, demandVars, spans, held, Observed, Leased
  <2>3. ~planner'.seen => observedFor <= planner.elapsed /\ leasedFor = 0
    <3>1. /\ ~planner.seen => observedFor <= planner.elapsed
          /\ ~Leased => ~(leasedFor > 0)
      BY <2>1 DEF PlanInv, MissedDemandIsRecent
    <3>2. ~(leasedFor > 0) => leasedFor = 0
      BY <1>n
    <3>3. ~planner'.seen => ~planner.seen /\ ~Leased
      BY <2>1
    <3> QED BY <3>1, <3>2, <3>3, Zenon
  <2> QED BY <2>1, <2>2, <2>3, <1>t, <1>n DEF PlanInv, MissedDemandIsRecent, EntryIsYounger
<1>4. CASE RefreshPlan
  BY <1>4, <1>t, PlanInvRefresh
<1>5. CASE ReplaceDriver
  <2>1. ~plan'.current
    BY <1>5 DEF ReplaceDriver, PlanInv, TypeOK, Plan
  <2>2. /\ observedFor' = observedFor /\ leasedFor' = leasedFor /\ planner' = planner
        /\ Observed' = Observed /\ Leased' = Leased
    BY <1>5 DEF ReplaceDriver, demandVars, held, Observed, Leased
  <2> QED BY <2>1, <2>2, <1>t DEF PlanInv, MissedDemandIsRecent, EntryIsYounger
<1>6. CASE RestartCore
  <2>1. observedFor' = 0 /\ leasedFor' = 0 /\ ~plan'.made /\ ~planner'.collecting
    BY <1>6 DEF RestartCore, NoPlan, IdlePlanner
  <2> QED BY <2>1, <1>t DEF PlanInv, MissedDemandIsRecent, EntryIsYounger
<1>7. CASE Tick
  BY <1>7, <1>t, PlanInvTick
<1>8. ASSUME Next, ~CollectObservations, ~CollectLeases, ~RefreshPlan, ~ReplaceDriver,
             ~RestartCore, ~Tick
      PROVE  PlanInv'
  BY <1>8, <1>t, PlanInvOthers DEF Next
<1> QED BY <1>1, <1>2, <1>3, <1>4, <1>5, <1>6, <1>7, <1>8

(* What a plan that suspends the tag says.                                 *)
LEMMA Suspended ==
    ASSUME TypeOK, ~ShouldPoll
    PROVE  plan.made /\ plan.current /\ ~plan.wouldPoll /\ plan.age <= Stale
<1>1. plan.age \in Nat
  BY Constants DEF TypeOK, Plan
<1> QED BY <1>1, Constants DEF ShouldPoll

(* Demand of one source that lasts longer than a plan is trusted plus the  *)
(* time a collection may take is polled (DemandIsPolled), for any clients  *)
(* and timers, although the sources are read one after the other and may   *)
(* change in between (main.cpp:14587-14589).                               *)
THEOREM PlanInvariant == Spec => []DemandIsPolled
<1>1. PlanInv => DemandIsPolled
  <2> SUFFICES ASSUME PlanInv, ~ShouldPoll
               PROVE  observedFor <= Stale + Collect /\ leasedFor <= Stale + Collect
    BY Constants DEF DemandIsPolled, PlanInv, TypeOK
  <2>1. observedFor \in Nat /\ leasedFor \in Nat /\ plan.age \in Nat
    BY Constants DEF PlanInv, TypeOK, Plan
  <2>2. plan.made /\ plan.current /\ ~plan.wouldPoll /\ plan.age <= Stale
    BY Suspended DEF PlanInv
  <2> QED BY <2>1, <2>2, Constants DEF PlanInv, MissedDemandIsRecent
<1> QED BY PlanInvInit, PlanInvNext, <1>1, PTL DEF Spec

(* A replacement driver is polled through its startup grace whatever the   *)
(* plan of its predecessor was (demand_scheduler_preview.h:48).            *)
THEOREM NewDriversArePolled == Spec => []NewDriverIsPolled
<1>1. PlanInv => NewDriverIsPolled
  <2> SUFFICES ASSUME PlanInv, ~ShouldPoll
               PROVE  ~(driverAge < Startup)
    BY DEF NewDriverIsPolled
  <2>1. driverAge \in 0..Startup /\ plan.started \in Nat
    BY Constants DEF PlanInv, TypeOK, Plan
  <2>2. plan.made /\ plan.current /\ ~plan.wouldPoll
    BY Suspended DEF PlanInv
  <2> QED BY <2>1, <2>2, Constants DEF PlanInv, EntryIsYounger
<1> QED BY PlanInvInit, PlanInvNext, <1>1, PTL DEF Spec

-----------------------------------------------------------------------------
(* Suspension.  A demand that a collection has seen ended no longer ago    *)
(* than that collection has taken; the entry's last demand, as far as it   *)
(* is known, is at most Collect younger than the end of the demand; and a  *)
(* plan that polls was made within the idle grace of that.                 *)
QuietIsKnown ==
    /\ Reason => quiet = 0
    /\ planner.collecting /\ planner.seen => quiet <= planner.elapsed
    /\ plan.idle < Idle => quiet <= plan.idle + Collect
    /\ plan.wouldPoll /\ plan.age <= Stale => quiet <= plan.age + Collect + Idle

(* The numbers that the steps compare.                                     *)
LEMMA QuietNumbers ==
    ASSUME TypeOK
    PROVE  /\ quiet \in 0..MostQuiet /\ planner.elapsed \in 0..Collect
           /\ plan.age \in Nat /\ plan.idle \in 0..Idle /\ plan.started \in 0..Startup
BY Constants DEF TypeOK, Plan, Planner

LEMMA QuietInit == Init => QuietIsKnown
<1> SUFFICES ASSUME Init PROVE QuietIsKnown
  OBVIOUS
<1>1. quiet = 0 /\ ~planner.collecting /\ plan.idle = 0 /\ plan.age = 0
  BY DEF Init, NoPlan, IdlePlanner
<1> QED BY <1>1, Constants DEF QuietIsKnown

(* No reason for it any more: the counting begins.                         *)
LEMMA QuietRestarts ==
    ASSUME TypeOK', quiet' = 0
    PROVE  QuietIsKnown'
BY Constants DEF QuietIsKnown, TypeOK, Plan, Planner

(* Steps that leave the plan alone and count on.                           *)
LEMMA QuietPlanUntouched ==
    ASSUME TypeOK', QuietIsKnown, UNCHANGED planVars,
           QuietOn \/ UNCHANGED <<demandVars, quiet>>
    PROVE  QuietIsKnown'
<1>1. plan' = plan /\ planner' = planner
  BY DEF planVars
<1>2. CASE quiet' = 0
  BY <1>2, QuietRestarts
<1>3. CASE quiet' # 0
  <2>1. quiet' = quiet
    BY <1>3 DEF QuietOn
  <2>2. ~Reason'
    <3>1. CASE QuietOn
      BY <1>3, <3>1 DEF QuietOn
    <3>2. CASE UNCHANGED <<demandVars, quiet>>
      <4>1. Observed' = Observed /\ Leased' = Leased
        BY <3>2 DEF demandVars, Observed, Leased
      <4> QED BY <1>1, <1>3, <2>1, <4>1 DEF QuietIsKnown, Reason
    <3> QED BY <3>1, <3>2
  <2> QED BY <1>1, <2>1, <2>2 DEF QuietIsKnown
<1> QED BY <1>2, <1>3

LEMMA QuietOthers ==
    ASSUME TypeOK', QuietIsKnown,
           \/ \E c \in Clients : \/ ChangeScope(c) \/ Crash(c) \/ Stop(c)
                                 \/ Pass(c) \/ ProviderFails(c) \/ PostArrives(c) \/ PostEnds(c)
                                 \/ LateArrives(c) \/ LateLost(c)
           \/ ObserveRead \/ ChangeMonitored
    PROVE  QuietIsKnown'
<1>1. ASSUME NEW c \in Clients,
             \/ ChangeScope(c) \/ Crash(c) \/ Stop(c)
             \/ Pass(c) \/ ProviderFails(c) \/ PostEnds(c) \/ LateLost(c)
      PROVE  QuietIsKnown'
  <2>1. UNCHANGED planVars /\ UNCHANGED <<demandVars, quiet>>
    BY <1>1 DEF ChangeScope, Crash, Stop, Pass, ProviderFails, PostEnds, LateLost, spans
  <2> QED BY <2>1, QuietPlanUntouched
<1>2. ASSUME NEW c \in Clients, PostArrives(c) \/ LateArrives(c)
      PROVE  QuietIsKnown'
  BY <1>2, QuietPlanUntouched DEF PostArrives, LateArrives, Apply
<1>3. CASE ObserveRead \/ ChangeMonitored
  BY <1>3, QuietPlanUntouched DEF ObserveRead, ChangeMonitored
<1> QED BY <1>1, <1>2, <1>3

(* A collection that finds the tag in demand begins while it is.           *)
LEMMA QuietCollect ==
    ASSUME TypeOK, TypeOK', QuietIsKnown, CollectObservations \/ CollectLeases
    PROVE  QuietIsKnown'
<1>1. /\ quiet' = quiet /\ plan' = plan /\ Observed' = Observed /\ Leased' = Leased
      /\ planner'.collecting
  <2>1. UNCHANGED <<demandVars, plan, spans>>
    BY DEF CollectObservations, CollectLeases
  <2>2. planner'.collecting
    <3>1. CASE CollectObservations
      BY <3>1 DEF CollectObservations
    <3>2. CASE CollectLeases
      BY <3>2 DEF CollectLeases, TypeOK, Planner
    <3> QED BY <3>1, <3>2
  <2> QED BY <2>1, <2>2 DEF demandVars, spans, Observed, Leased
<1>2. Observed \/ Leased => quiet = 0
  BY DEF QuietIsKnown, Reason
<1>3. planner'.seen => quiet <= planner'.elapsed
  <2>1. CASE CollectObservations
    BY <2>1, <1>2 DEF CollectObservations
  <2>2. CASE CollectLeases
    <3>1. /\ planner.collecting /\ planner'.elapsed = planner.elapsed
          /\ planner'.seen = (planner.seen \/ Leased)
      BY <2>2 DEF CollectLeases, TypeOK, Planner
    <3>2. planner.seen => quiet <= planner.elapsed
      BY <3>1 DEF QuietIsKnown
    <3>3. Leased => quiet <= planner.elapsed
      BY <1>2, QuietNumbers, Constants
    <3> QED BY <3>1, <3>2, <3>3
  <2> QED BY <2>1, <2>2
<1> QED BY <1>1, <1>3, QuietNumbers DEF QuietIsKnown, Reason

(* A refresh: the entry that is not fresh and past its startup grace polls *)
(* for a demand the collection has seen or for the idle grace.             *)
LEMMA QuietRefresh ==
    ASSUME TypeOK, TypeOK', QuietIsKnown, RefreshPlan
    PROVE  QuietIsKnown'
<1> DEFINE fresh == ~plan.made \/ ~plan.current
<1>1. planner.collecting /\ ~planner'.collecting
  BY DEF RefreshPlan, IdlePlanner
<1>2. /\ plan'.age = 0
      /\ plan'.started = IF fresh THEN 0 ELSE plan.started
      /\ plan'.idle = IF fresh \/ planner.seen THEN 0 ELSE plan.idle
      /\ plan'.wouldPoll => planner.seen \/ fresh \/ plan.started < Startup \/ plan.idle < Idle
  BY DEF RefreshPlan, Entry, EntryWith
<1>3. CASE quiet' = 0
  BY <1>3, QuietRestarts
<1>4. CASE quiet' # 0
  <2>1. quiet' = quiet /\ ~Reason'
    BY <1>4 DEF RefreshPlan, QuietOn
  <2>2. ~fresh /\ ~(plan.started < Startup)
    BY <1>4, <2>1 DEF QuietIsKnown, Reason
  <2>3. planner.seen => quiet <= Collect
    BY <1>1, QuietNumbers, Constants DEF QuietIsKnown
  <2>4. plan'.idle < Idle => quiet <= plan'.idle + Collect
    BY <1>2, <2>2, <2>3, QuietNumbers, Constants DEF QuietIsKnown
  <2>5. plan'.wouldPoll => quiet <= plan'.age + Collect + Idle
    <3>1. plan.idle < Idle => quiet <= Collect + Idle
      BY QuietNumbers, Constants DEF QuietIsKnown
    <3> QED BY <1>2, <2>2, <2>3, <3>1, QuietNumbers, Constants
  <2> QED BY <1>1, <2>1, <2>4, <2>5 DEF QuietIsKnown
<1> QED BY <1>3, <1>4

(* Time: the quiet, the collection, the entry and the plan age together.   *)
LEMMA QuietTick ==
    ASSUME TypeOK, TypeOK', QuietIsKnown, Tick
    PROVE  QuietIsKnown'
<1>1. CASE quiet' = 0
  BY <1>1, QuietRestarts
<1>2. CASE quiet' # 0
  <2>1. quiet' <= quiet + 1 /\ ~Reason'
    <3>1. quiet' = IF Reason' THEN 0 ELSE Upto(quiet + 1, MostQuiet)
      BY DEF Tick
    <3> QED BY <1>2, <3>1, QuietNumbers, Constants DEF Upto
  <2>2. /\ plan'.wouldPoll = plan.wouldPoll
        /\ plan'.age = Upto(plan.age + 1, Stale + 1)
        /\ plan'.idle = Upto(plan.idle + 1, Idle)
    BY DEF Tick, TypeOK, Plan
  <2>3. /\ planner'.collecting = planner.collecting /\ planner'.seen = planner.seen
        /\ planner.collecting => planner'.elapsed = planner.elapsed + 1
    BY DEF Tick, TypeOK, Planner
  <2>4. quiet \in Nat /\ quiet' \in Nat
    BY Constants DEF TypeOK
  <2>5. planner'.collecting /\ planner'.seen => quiet' <= planner'.elapsed
    BY <2>1, <2>3, <2>4, QuietNumbers DEF QuietIsKnown
  <2>6. plan'.idle < Idle => quiet' <= plan'.idle + Collect
    BY <2>1, <2>2, <2>4, QuietNumbers, Constants DEF QuietIsKnown, Upto
  <2>7. plan'.wouldPoll /\ plan'.age <= Stale => quiet' <= plan'.age + Collect + Idle
    BY <2>1, <2>2, <2>4, QuietNumbers, Constants DEF QuietIsKnown, Upto
  <2> QED BY <2>1, <2>5, <2>6, <2>7 DEF QuietIsKnown
<1> QED BY <1>1, <1>2

LEMMA QuietNext ==
    TypeOK /\ TypeOK' /\ QuietIsKnown /\ [Next]_vars => QuietIsKnown'
<1> SUFFICES ASSUME TypeOK, TypeOK', QuietIsKnown, [Next]_vars PROVE QuietIsKnown'
  OBVIOUS
<1>1. CASE UNCHANGED vars
  BY <1>1, QuietPlanUntouched DEF vars, spans
<1>2. CASE CollectObservations \/ CollectLeases
  BY <1>2, QuietCollect
<1>3. CASE RefreshPlan
  BY <1>3, QuietRefresh
<1>4. CASE ReplaceDriver
  <2>1. ~plan'.current
    BY <1>4 DEF ReplaceDriver, TypeOK, Plan
  <2>2. quiet' = 0
    BY <1>4, <2>1 DEF ReplaceDriver, QuietOn, Reason
  <2> QED BY <2>2, QuietRestarts
<1>5. CASE RestartCore
  <2>1. quiet' = 0
    BY <1>5 DEF RestartCore
  <2> QED BY <2>1, QuietRestarts
<1>6. CASE Tick
  BY <1>6, QuietTick
<1>7. ASSUME Next, ~CollectObservations, ~CollectLeases, ~RefreshPlan, ~ReplaceDriver,
             ~RestartCore, ~Tick
      PROVE  QuietIsKnown'
  BY <1>7, QuietOthers DEF Next
<1> QED BY <1>1, <1>2, <1>3, <1>4, <1>5, <1>6, <1>7

(* For any clients and timers: a tag without demand, past the startup of   *)
(* its driver, is suspended within Stale + Collect + Idle, as long as the  *)
(* main loop refreshes its plan; no observation, lease or collection of    *)
(* the past keeps it polled (demand_scheduler_preview.h:30-44).            *)
THEOREM UnwantedTagsAreSuspended == Spec => []UnwantedIsSuspended
<1>1. TypeOK /\ QuietIsKnown => UnwantedIsSuspended
  <2> SUFFICES ASSUME TypeOK, QuietIsKnown, quiet > Stale + Collect + Idle, plan.age <= Stale
               PROVE  ~ShouldPoll
    BY DEF UnwantedIsSuspended
  <2>1. plan.made /\ plan.current
    BY Constants DEF QuietIsKnown, Reason
  <2>2. ~plan.wouldPoll
    BY QuietNumbers, Constants DEF QuietIsKnown
  <2>3. ~(plan.age > Stale)
    BY QuietNumbers, Constants
  <2> QED BY <2>1, <2>2, <2>3 DEF ShouldPoll
<1> QED BY QuietInit, QuietNext, TypeCorrect, <1>1, PTL DEF Spec

-----------------------------------------------------------------------------
(* The registrations.                                                      *)

(* The time a client may still lose to failures.                           *)
Budget(c) == (MaxFailures - worker[c].fails) * RenewalGap

(* The time until an undisturbed worker posts again.                       *)
UntilPost(c) == IF worker[c].due = 0 THEN (IF worker[c].ran THEN 1 ELSE 0) ELSE worker[c].due

(* Before a renewal arrives, the lease covers the wait for its post, the   *)
(* failures still to come and the post itself.                             *)
Covered(c) ==
    /\ worker[c].sent = "tag"
    /\ worker[c].phase # "gone"
    /\ worker[c].phase = "asleep" => lease[c] > UntilPost(c) + Budget(c) + PostTime
    /\ worker[c].phase = "posting" /\ ~worker[c].arrived
         => lease[c] > (PostTime - worker[c].elapsed) + Budget(c)
    /\ worker[c].phase = "posting" /\ worker[c].arrived
         => lease[c] >= Lease - worker[c].elapsed /\ worker[c].fails = 0

(* The renewal is due Renew after the post was begun, not after its end.   *)
DueFromStart ==
    \A c \in Clients : worker[c].phase = "posting" =>
        worker[c].due = 0 \/ worker[c].due + worker[c].elapsed <= Renew

LeaseInv == TypeOK /\ DueFromStart /\ \A c \in known : Covered(c)

(* The numbers of a well-typed worker.                                     *)
LEMMA WorkerNumbers ==
    ASSUME TypeOK, NEW c \in Clients
    PROVE  /\ worker[c] \in WorkerState
           /\ worker[c].due \in 0..Renew /\ worker[c].elapsed \in 0..PostTime
           /\ worker[c].fails \in 0..MaxFailures /\ lease[c] \in 0..Lease
           /\ worker[c].ran \in BOOLEAN /\ worker[c].arrived \in BOOLEAN
           /\ Budget(c) \in Nat
<1>1. worker[c] \in WorkerState /\ lease[c] \in 0..Lease
  BY DEF TypeOK
<1>2. worker[c].fails \in 0..MaxFailures
  BY <1>1 DEF WorkerState
<1>3. MaxFailures - worker[c].fails \in Nat
  BY <1>2, Constants
<1>4. Budget(c) \in Nat
  <2> DEFINE k == MaxFailures - worker[c].fails
  <2>1. k \in Nat
    BY <1>3
  <2> HIDE DEF k
  <2>2. k * RenewalGap \in Nat
    BY <2>1, Constants
  <2> QED BY <2>2 DEF k, Budget
<1> QED BY <1>1, <1>4 DEF WorkerState

(* One failure costs at most one RenewalGap of the budget, and a lease     *)
(* just renewed covers the whole budget.                                   *)
LEMMA BudgetOfFailure ==
    ASSUME TypeOK, NEW c \in Clients
    PROVE  /\ worker'[c].fails = worker[c].fails + 1 => Budget(c)' = Budget(c) - RenewalGap
           /\ worker'[c].fails = worker[c].fails => Budget(c)' = Budget(c)
           /\ worker[c].fails = 0 => Budget(c) = MaxFailures * RenewalGap
           /\ Budget(c) <= MaxFailures * RenewalGap
           /\ Lease > MaxFailures * RenewalGap + RenewalGap + PostTime
<1>1. worker[c].fails \in 0..MaxFailures
  BY WorkerNumbers
<1>2. \A k, g \in Int : (k - 1) * g = k * g - g
  OBVIOUS
<1>3. \A k, g \in Int : (k + 1) * g = k * g + g
  OBVIOUS
<1>4. worker'[c].fails = worker[c].fails + 1 => Budget(c)' = Budget(c) - RenewalGap
  <2> SUFFICES ASSUME worker'[c].fails = worker[c].fails + 1
               PROVE  Budget(c)' = Budget(c) - RenewalGap
    OBVIOUS
  <2> DEFINE k == MaxFailures - worker[c].fails
  <2>1. k \in Int /\ MaxFailures - worker'[c].fails = k - 1
    BY <1>1, Constants
  <2>2. Budget(c) = k * RenewalGap
    BY DEF Budget
  <2>3. Budget(c)' = (k - 1) * RenewalGap
    BY <2>1 DEF Budget
  <2> HIDE DEF k
  <2> QED BY <2>1, <2>2, <2>3, <1>2, Constants
<1>5. Lease > MaxFailures * RenewalGap + RenewalGap + PostTime
  <2>1. Lease > (MaxFailures + 1) * RenewalGap + PostTime
    BY DemandPlanningAssumption
  <2>2. (MaxFailures + 1) * RenewalGap = MaxFailures * RenewalGap + RenewalGap
    BY <1>3, Constants
  <2> QED BY <2>1, <2>2
<1>6. Budget(c) <= MaxFailures * RenewalGap
  <2> DEFINE f == worker[c].fails
  <2>1. \A n, m, g \in Nat : m <= n => m * g <= n * g
    OBVIOUS
  <2>2. MaxFailures - worker[c].fails \in Nat /\ MaxFailures - worker[c].fails <= MaxFailures
    BY <1>1, Constants
  <2> QED BY <2>1, <2>2, Constants DEF Budget
<1>7. worker[c].fails = 0 => Budget(c) = MaxFailures * RenewalGap
  BY Constants DEF Budget
<1>8. worker'[c].fails = worker[c].fails => Budget(c)' = Budget(c)
  BY DEF Budget
<1> QED BY <1>4, <1>5, <1>6, <1>7, <1>8

(* A lease that has just been renewed covers a running worker, wherever it *)
(* is in its round; and a post that ends leaves enough for the next one.   *)
LEMMA LeaseCovers ==
    ASSUME TypeOK, NEW c \in Clients
    PROVE  /\ Lease > UntilPost(c) + Budget(c) + PostTime
           /\ Lease > (PostTime - worker[c].elapsed) + Budget(c)
           /\ \A u \in 0..RenewalGap : Lease > u + MaxFailures * RenewalGap + PostTime
<1>1. /\ worker[c].due \in 0..Renew /\ worker[c].elapsed \in 0..PostTime
      /\ Budget(c) \in Nat /\ worker[c].ran \in BOOLEAN
  BY WorkerNumbers
<1>2. UntilPost(c) \in Nat /\ UntilPost(c) <= RenewalGap
  BY <1>1, Constants DEF UntilPost
<1> DEFINE full == MaxFailures * RenewalGap
<1>3. full \in Nat
  BY Constants
<1>4. Budget(c) <= full /\ Lease > full + RenewalGap + PostTime
  BY BudgetOfFailure
<1> HIDE DEF full
<1>5. Lease > UntilPost(c) + Budget(c) + PostTime
  BY <1>1, <1>2, <1>3, <1>4, Constants
<1>6. Lease > (PostTime - worker[c].elapsed) + Budget(c)
  BY <1>1, <1>3, <1>4, Constants
<1>7. \A u \in 0..RenewalGap : Lease > u + full + PostTime
  BY <1>3, <1>4, Constants
<1> QED BY <1>5, <1>6, <1>7 DEF full

(* What is said of a client follows from its worker and its lease.         *)
LEMMA CoveredKept ==
    ASSUME NEW d \in Clients, Covered(d), worker'[d] = worker[d], lease'[d] = lease[d]
    PROVE  Covered(d)'
BY DEF Covered, UntilPost, Budget

(* Steps that change neither workers nor leases.                           *)
LEMMA LeaseInvUntouched ==
    ASSUME LeaseInv, TypeOK', worker' = worker, lease' = lease, known' \subseteq known
    PROVE  LeaseInv'
<1>1. DueFromStart'
  BY DEF LeaseInv, DueFromStart
<1>2. ASSUME NEW d \in known' PROVE Covered(d)'
  <2>1. d \in Clients /\ Covered(d)
    BY DEF LeaseInv, TypeOK
  <2> QED BY <2>1, CoveredKept
<1> QED BY <1>1, <1>2 DEF LeaseInv

(* Steps of one client: the others keep what they have.                    *)
LEMMA OneClientMoves ==
    ASSUME LeaseInv, TypeOK', NEW c \in Clients,
           \A d \in Clients \ {c} : worker'[d] = worker[d] /\ lease'[d] = lease[d],
           known' \subseteq known \cup {c},
           worker'[c].phase = "posting" =>
               worker'[c].due = 0 \/ worker'[c].due + worker'[c].elapsed <= Renew,
           c \in known' => Covered(c)'
    PROVE  LeaseInv'
<1>1. DueFromStart'
  BY DEF LeaseInv, DueFromStart
<1>2. ASSUME NEW d \in known' PROVE Covered(d)'
  <2>1. CASE d = c
    BY <2>1
  <2>2. CASE d # c
    <3>1. d \in Clients \ {c} /\ Covered(d)
      BY <2>2 DEF LeaseInv, TypeOK
    <3> QED BY <3>1, CoveredKept
  <2> QED BY <2>1, <2>2
<1> QED BY <1>1, <1>2 DEF LeaseInv

(* A pass: the post is in time for what the lease covers.                  *)
LEMMA LeaseInvPass ==
    ASSUME LeaseInv, TypeOK', NEW c \in Clients, Pass(c)
    PROVE  LeaseInv'
<1>w. worker[c] \in WorkerState /\ worker \in [Clients -> WorkerState]
  BY DEF LeaseInv, TypeOK
<1>n. /\ worker[c].due \in 0..Renew /\ lease[c] \in 0..Lease /\ Budget(c) \in Nat
      /\ worker[c].ran \in BOOLEAN
  BY WorkerNumbers DEF LeaseInv
<1>l. lease' = lease /\ worker[c].phase = "asleep" /\ ~worker[c].ran
  BY DEF Pass, demandVars
<1>c. c \in known => /\ worker[c].sent = "tag"
                     /\ lease[c] > UntilPost(c) + Budget(c) + PostTime
  BY <1>l DEF LeaseInv, Covered
<1>u. UntilPost(c) \in Nat
  BY <1>n DEF UntilPost
<1>1. CASE Post(c, wanted[c])
  <2>1. /\ worker'[c].phase = "posting" /\ ~worker'[c].arrived /\ worker'[c].elapsed = 0
        /\ worker'[c].sent = wanted[c] /\ worker'[c].due = Renew
        /\ worker'[c].fails = worker[c].fails
    BY <1>1, <1>w DEF Post, WorkerState
  <2>2. \A d \in Clients \ {c} : worker'[d] = worker[d] /\ lease'[d] = lease[d]
    BY <1>1, <1>w, <1>l DEF Post
  <2>3. known' \subseteq known /\ (c \in known' => wanted[c] = "tag")
    BY <1>1 DEF Post
  <2>4. c \in known' => Covered(c)'
    <3> SUFFICES ASSUME c \in known' PROVE Covered(c)'
      OBVIOUS
    <3>1. Budget(c)' = Budget(c)
      BY <2>1 DEF Budget
    <3>2. lease'[c] > (PostTime - worker'[c].elapsed) + Budget(c)'
      BY <1>c, <1>l, <1>n, <1>u, <2>1, <2>3, <3>1, Constants
    <3> QED BY <2>1, <2>3, <3>2 DEF Covered
  <2>5. worker'[c].due + worker'[c].elapsed <= Renew
    BY <2>1, Constants
  <2> QED BY <2>2, <2>3, <2>4, <2>5, OneClientMoves
<1>2. CASE /\ worker[c].sent = wanted[c]
           /\ ~(wanted[c] # "none" /\ worker[c].due = 0)
           /\ worker' = [worker EXCEPT ![c].ran = TRUE] /\ UNCHANGED known
  <2>1. /\ worker'[c].phase = "asleep" /\ worker'[c].sent = worker[c].sent
        /\ worker'[c].due = worker[c].due /\ worker'[c].fails = worker[c].fails
    BY <1>2, <1>w, <1>l DEF WorkerState
  <2>2. \A d \in Clients \ {c} : worker'[d] = worker[d] /\ lease'[d] = lease[d]
    BY <1>2, <1>w, <1>l
  <2>3. c \in known' => Covered(c)'
    <3> SUFFICES ASSUME c \in known' PROVE Covered(c)'
      OBVIOUS
    <3>1. worker[c].sent = "tag" /\ worker[c].due # 0
      BY <1>2, <1>c
    <3>2. UntilPost(c)' = UntilPost(c)
      BY <2>1, <3>1 DEF UntilPost
    <3>3. Budget(c)' = Budget(c)
      BY <2>1 DEF Budget
    <3> QED BY <1>2, <1>c, <1>l, <2>1, <3>1, <3>2, <3>3 DEF Covered
  <2> QED BY <1>2, <2>1, <2>2, <2>3, OneClientMoves
<1> QED BY <1>1, <1>2 DEF Pass

(* A failure of the provider costs one pass of the budget.                 *)
LEMMA LeaseInvProviderFails ==
    ASSUME LeaseInv, TypeOK', NEW c \in Clients, ProviderFails(c)
    PROVE  LeaseInv'
<1>w. worker[c] \in WorkerState /\ worker \in [Clients -> WorkerState]
  BY DEF LeaseInv, TypeOK
<1>n. /\ worker[c].due \in 0..Renew /\ lease[c] \in 0..Lease /\ Budget(c) \in Nat
      /\ worker[c].fails \in 0..MaxFailures
  BY WorkerNumbers DEF LeaseInv
<1>1. /\ lease' = lease /\ known' = known
      /\ worker[c].phase = "asleep" /\ ~worker[c].ran
      /\ worker' = [worker EXCEPT ![c].ran = TRUE, ![c].fails = @ + 1]
  BY DEF ProviderFails, demandVars
<1>2. /\ worker'[c].phase = "asleep" /\ worker'[c].sent = worker[c].sent
      /\ worker'[c].due = worker[c].due /\ worker'[c].fails = worker[c].fails + 1
      /\ worker'[c].ran
  BY <1>1, <1>w DEF WorkerState
<1>3. \A d \in Clients \ {c} : worker'[d] = worker[d] /\ lease'[d] = lease[d]
  BY <1>1, <1>w
<1>4. c \in known => Covered(c)'
  <2> SUFFICES ASSUME c \in known PROVE Covered(c)'
    OBVIOUS
  <2>1. worker[c].sent = "tag" /\ lease[c] > UntilPost(c) + Budget(c) + PostTime
    BY <1>1 DEF LeaseInv, Covered
  <2>2. UntilPost(c) = worker[c].due
    BY <1>1 DEF UntilPost
  <2>3. UntilPost(c)' <= worker[c].due + 1 /\ UntilPost(c)' \in Nat
    BY <1>2, <1>n, Constants DEF UntilPost
  <2>4. Budget(c)' = Budget(c) - RenewalGap
    BY <1>2, BudgetOfFailure DEF LeaseInv
  <2>5. lease'[c] > UntilPost(c)' + Budget(c)' + PostTime
    BY <1>1, <1>n, <2>1, <2>2, <2>3, <2>4, Constants
  <2> QED BY <1>2, <2>1, <2>5 DEF Covered
<1> QED BY <1>1, <1>2, <1>3, <1>4, OneClientMoves

(* A post that arrives renews the lease in full.                           *)
LEMMA LeaseInvPostArrives ==
    ASSUME LeaseInv, TypeOK', NEW c \in Clients, PostArrives(c)
    PROVE  LeaseInv'
<1>w. worker[c] \in WorkerState /\ worker \in [Clients -> WorkerState]
      /\ lease \in [Clients -> 0..Lease]
  BY DEF LeaseInv, TypeOK
<1>n. worker[c].due \in 0..Renew /\ worker[c].elapsed \in 0..PostTime
  BY WorkerNumbers DEF LeaseInv
<1>1. /\ worker[c].phase = "posting" /\ ~worker[c].arrived
      /\ worker' = [worker EXCEPT ![c].arrived = TRUE, ![c].fails = 0]
      /\ lease' = [lease EXCEPT ![c] = IF worker[c].sent = "tag" THEN Lease ELSE 0]
      /\ known' = IF worker[c].sent = "tag" THEN known \cup {c} ELSE known
  BY DEF PostArrives, Apply
<1>2. /\ worker'[c].phase = "posting" /\ worker'[c].sent = worker[c].sent
      /\ worker'[c].due = worker[c].due /\ worker'[c].fails = 0 /\ worker'[c].arrived
      /\ worker'[c].elapsed = worker[c].elapsed
  BY <1>1, <1>w DEF WorkerState
<1>3. \A d \in Clients \ {c} : worker'[d] = worker[d] /\ lease'[d] = lease[d]
  BY <1>1, <1>w
<1>4. c \in known' => worker[c].sent = "tag"
  BY <1>1 DEF LeaseInv, Covered
<1>5. c \in known' => Covered(c)'
  <2> SUFFICES ASSUME c \in known' PROVE Covered(c)'
    OBVIOUS
  <2>1. lease'[c] = Lease
    BY <1>1, <1>4, <1>w
  <2>2. lease'[c] >= Lease - worker'[c].elapsed
    BY <1>2, <1>n, <2>1, Constants
  <2> QED BY <1>2, <1>4, <2>2 DEF Covered
<1>6. worker'[c].due = 0 \/ worker'[c].due + worker'[c].elapsed <= Renew
  BY <1>1, <1>2 DEF LeaseInv, DueFromStart
<1>7. known' \subseteq known \cup {c}
  BY <1>1
<1> QED BY <1>3, <1>5, <1>6, <1>7, OneClientMoves

(* A post that ends leaves enough for the next one: when it arrived, the   *)
(* lease is young; when it did not, one failure of the budget is spent.    *)
LEMMA LeaseInvPostEnds ==
    ASSUME LeaseInv, TypeOK', NEW c \in Clients, PostEnds(c)
    PROVE  LeaseInv'
<1>w. worker[c] \in WorkerState /\ worker \in [Clients -> WorkerState]
  BY DEF LeaseInv, TypeOK
<1>n. /\ worker[c].due \in 0..Renew /\ lease[c] \in 0..Lease /\ Budget(c) \in Nat
      /\ worker[c].elapsed \in 0..PostTime /\ worker[c].fails \in 0..MaxFailures
  BY WorkerNumbers DEF LeaseInv
<1>1. /\ worker[c].phase = "posting" /\ lease' = lease /\ known' = known
      /\ worker' = [worker EXCEPT ![c].phase = "asleep", ![c].ran = TRUE,
                                  ![c].arrived = FALSE, ![c].elapsed = 0,
                                  ![c].fails = IF worker[c].arrived THEN @ ELSE @ + 1]
  BY DEF PostEnds, demandVars
<1>2. /\ worker'[c].phase = "asleep" /\ worker'[c].sent = worker[c].sent
      /\ worker'[c].due = worker[c].due /\ worker'[c].ran
      /\ worker'[c].fails = IF worker[c].arrived THEN worker[c].fails ELSE worker[c].fails + 1
  BY <1>1, <1>w DEF WorkerState
<1>3. \A d \in Clients \ {c} : worker'[d] = worker[d] /\ lease'[d] = lease[d]
  BY <1>1, <1>w
<1>4. /\ UntilPost(c)' \in Nat
      /\ UntilPost(c)' + worker[c].elapsed <= RenewalGap
  <2>1. worker[c].due = 0 \/ worker[c].due + worker[c].elapsed <= Renew
    BY <1>1 DEF LeaseInv, DueFromStart
  <2>2. UntilPost(c)' = IF worker[c].due = 0 THEN 1 ELSE worker[c].due
    BY <1>2 DEF UntilPost
  <2> QED BY <1>n, <2>1, <2>2, Constants
<1>5. c \in known => Covered(c)'
  <2> SUFFICES ASSUME c \in known PROVE Covered(c)'
    OBVIOUS
  <2>1. worker[c].sent = "tag"
    BY DEF LeaseInv, Covered
  <2>2. CASE worker[c].arrived
    <3>1. lease[c] >= Lease - worker[c].elapsed /\ worker[c].fails = 0
      BY <1>1, <2>2 DEF LeaseInv, Covered
    <3> DEFINE full == MaxFailures * RenewalGap
               u == UntilPost(c)' + worker[c].elapsed
    <3>2. Budget(c) = full /\ Budget(c)' = Budget(c)
      BY <1>2, <2>2, <3>1, BudgetOfFailure DEF LeaseInv
    <3>3. full \in Nat /\ u \in 0..RenewalGap
      BY <1>4, <1>n, Constants
    <3>4. Lease > u + full + PostTime
      BY <3>3, LeaseCovers DEF LeaseInv
    <3> HIDE DEF full
    <3>5. lease'[c] > UntilPost(c)' + Budget(c)' + PostTime
      BY <1>1, <1>4, <1>n, <3>1, <3>2, <3>3, <3>4, Constants
    <3> QED BY <1>2, <2>1, <3>5 DEF Covered
  <2>3. CASE ~worker[c].arrived
    <3>1. lease[c] > (PostTime - worker[c].elapsed) + Budget(c)
      BY <1>1, <2>3 DEF LeaseInv, Covered
    <3>2. Budget(c)' = Budget(c) - RenewalGap
      BY <1>2, <2>3, BudgetOfFailure DEF LeaseInv
    <3>3. lease'[c] > UntilPost(c)' + Budget(c)' + PostTime
      BY <1>1, <1>4, <1>n, <3>1, <3>2, Constants
    <3> QED BY <1>2, <2>1, <3>3 DEF Covered
  <2> QED BY <2>2, <2>3
<1> QED BY <1>1, <1>2, <1>3, <1>5, OneClientMoves

(* A late registration renews the lease; a late release ends it, and with  *)
(* it what is said of the client.                                          *)
LEMMA LeaseInvLateArrives ==
    ASSUME LeaseInv, TypeOK', NEW c \in Clients, LateArrives(c)
    PROVE  LeaseInv'
<1>w. lease \in [Clients -> 0..Lease]
  BY DEF LeaseInv, TypeOK
<1>n. worker[c].elapsed \in 0..PostTime
  BY WorkerNumbers DEF LeaseInv
<1>1. PICK s \in late[c] :
        /\ lease' = [lease EXCEPT ![c] = IF s = "tag" THEN Lease ELSE 0]
        /\ known' = IF s = "tag" THEN known ELSE known \ {c}
        /\ worker' = worker
  BY DEF LateArrives, Apply
<1>2. \A d \in Clients \ {c} : worker'[d] = worker[d] /\ lease'[d] = lease[d]
  BY <1>1, <1>w
<1>3. c \in known' => Covered(c)'
  <2> SUFFICES ASSUME c \in known' PROVE Covered(c)'
    OBVIOUS
  <2>1. lease'[c] = Lease /\ Covered(c)
    BY <1>1, <1>w DEF LeaseInv
  <2>2. UntilPost(c)' = UntilPost(c) /\ Budget(c)' = Budget(c)
    BY <1>1 DEF UntilPost, Budget
  <2>3. Lease > UntilPost(c) + Budget(c) + PostTime
    BY LeaseCovers DEF LeaseInv
  <2>4. Lease > (PostTime - worker[c].elapsed) + Budget(c)
    BY LeaseCovers DEF LeaseInv
  <2>5. Lease >= Lease - worker[c].elapsed
    BY <1>n, Constants
  <2> QED BY <1>1, <2>1, <2>2, <2>3, <2>4, <2>5 DEF Covered
<1>4. worker'[c].phase = "posting" =>
        worker'[c].due = 0 \/ worker'[c].due + worker'[c].elapsed <= Renew
  BY <1>1 DEF LeaseInv, DueFromStart
<1>5. known' \subseteq known \cup {c}
  BY <1>1
<1> QED BY <1>2, <1>3, <1>4, <1>5, OneClientMoves

(* Time takes from the lease no more than from the wait it covers.         *)
LEMMA LeaseInvTick ==
    ASSUME LeaseInv, TypeOK', Tick
    PROVE  LeaseInv'
<1>w. worker \in [Clients -> WorkerState] /\ known \subseteq Clients
  BY DEF LeaseInv, TypeOK
<1>1. ASSUME NEW c \in Clients
      PROVE  /\ worker'[c].phase = worker[c].phase /\ worker'[c].sent = worker[c].sent
             /\ worker'[c].arrived = worker[c].arrived /\ worker'[c].fails = worker[c].fails
             /\ ~worker'[c].ran /\ worker'[c].due = Left(worker[c].due)
             /\ worker[c].phase = "posting" => worker'[c].elapsed = worker[c].elapsed + 1
             /\ lease'[c] = Left(lease[c])
  <2>1. worker[c] \in WorkerState
    BY <1>w
  <2>2. worker'[c] = [worker[c] EXCEPT !.ran = FALSE, !.due = Left(@),
                        !.elapsed = IF worker[c].phase = "posting" THEN @ + 1 ELSE @]
    BY Zenon DEF Tick
  <2>3. lease'[c] = Left(lease[c])
    BY Zenon DEF Tick
  <2> QED BY <2>1, <2>2, <2>3 DEF WorkerState
<1>2. ASSUME NEW c \in Clients
      PROVE  /\ worker[c].due \in 0..Renew /\ lease[c] \in 0..Lease /\ Budget(c) \in Nat
             /\ worker[c].elapsed \in 0..PostTime
  BY WorkerNumbers DEF LeaseInv
<1>3. DueFromStart'
  <2> SUFFICES ASSUME NEW c \in Clients, worker'[c].phase = "posting"
               PROVE  worker'[c].due = 0 \/ worker'[c].due + worker'[c].elapsed <= Renew
    BY DEF DueFromStart
  <2>1. worker[c].due = 0 \/ worker[c].due + worker[c].elapsed <= Renew
    BY <1>1 DEF LeaseInv, DueFromStart
  <2> QED BY <1>1, <1>2, <2>1, Constants DEF Left
<1>4. ASSUME NEW c \in known PROVE Covered(c)'
  <2>1. c \in Clients /\ Covered(c)
    BY <1>w DEF LeaseInv
  <2>2. Budget(c)' = Budget(c)
    BY <1>1, <2>1 DEF Budget
  <2>3. worker[c].phase = "asleep" => lease'[c] > UntilPost(c)' + Budget(c)' + PostTime
    <3> SUFFICES ASSUME worker[c].phase = "asleep"
                 PROVE  lease'[c] > UntilPost(c)' + Budget(c)' + PostTime
      OBVIOUS
    <3>1. lease[c] > UntilPost(c) + Budget(c) + PostTime
      BY <2>1 DEF Covered
    <3>2. worker[c].ran
      BY <2>1 DEF Tick
    <3>3. UntilPost(c) = IF worker[c].due = 0 THEN 1 ELSE worker[c].due
      BY <3>2 DEF UntilPost
    <3>4. UntilPost(c)' = UntilPost(c) - 1 /\ UntilPost(c)' \in Nat
      BY <1>1, <1>2, <2>1, <3>3, Constants DEF UntilPost, Left
    <3>5. UntilPost(c) \in Nat /\ lease[c] \in Nat /\ Budget(c) \in Nat
      BY <1>2, <2>1, <3>3, Constants
    <3>6. lease'[c] = lease[c] - 1
      BY <1>1, <2>1, <3>1, <3>5, Constants DEF Left
    <3> QED BY <2>2, <3>1, <3>4, <3>5, <3>6, Constants
  <2>4. worker[c].phase = "posting" /\ ~worker[c].arrived
          => lease'[c] > (PostTime - worker'[c].elapsed) + Budget(c)'
    <3> SUFFICES ASSUME worker[c].phase = "posting", ~worker[c].arrived
                 PROVE  lease'[c] > (PostTime - worker'[c].elapsed) + Budget(c)'
      OBVIOUS
    <3>1. lease[c] > (PostTime - worker[c].elapsed) + Budget(c)
      BY <2>1 DEF Covered
    <3> QED BY <1>1, <1>2, <2>1, <2>2, <3>1, Constants DEF Left
  <2>5. worker[c].phase = "posting" /\ worker[c].arrived
          => lease'[c] >= Lease - worker'[c].elapsed /\ worker'[c].fails = 0
    <3> SUFFICES ASSUME worker[c].phase = "posting", worker[c].arrived
                 PROVE  lease'[c] >= Lease - worker'[c].elapsed /\ worker'[c].fails = 0
      OBVIOUS
    <3>1. lease[c] >= Lease - worker[c].elapsed /\ worker[c].fails = 0
      BY <2>1 DEF Covered
    <3>2. lease[c] > 0 \/ Lease - worker[c].elapsed - 1 <= 0
      BY <1>2, <2>1, <3>1, Constants
    <3> QED BY <1>1, <1>2, <2>1, <3>1, <3>2, Constants DEF Left
  <2> QED BY <1>1, <2>1, <2>3, <2>4, <2>5 DEF Covered
<1>5. known' = known
  BY DEF Tick
<1> QED BY <1>3, <1>4, <1>5 DEF LeaseInv

(* For any number of clients and any timers that leave room for            *)
(* MaxFailures failures in a row, a registration that its client keeps     *)
(* never runs out (RegistrationIsKept): the time left always covers the    *)
(* wait for the next post, the failures still to come and the post.        *)
THEOREM RegistrationInvariant == Spec => []RegistrationIsKept
<1>1. Init => LeaseInv
  BY InitType DEF Init, LeaseInv, DueFromStart, NewWorker
<1>2. LeaseInv /\ [Next]_vars => LeaseInv'
  <2> SUFFICES ASSUME LeaseInv, [Next]_vars PROVE LeaseInv'
    OBVIOUS
  <2>t. TypeOK'
    <3>1. CASE UNCHANGED vars
      BY <3>1 DEF LeaseInv, TypeOK, vars, clientVars, demandVars, planVars, spans, held
    <3>2. CASE Next
      BY <3>2, EventType, WorkerType, PlannerType, TickType DEF Next, LeaseInv
    <3> QED BY <3>1, <3>2
  <2>1. CASE UNCHANGED vars
    BY <2>1, <2>t, LeaseInvUntouched DEF vars, clientVars, demandVars
  <2>2. ASSUME NEW c \in Clients, ChangeScope(c) \/ LateLost(c)
        PROVE  LeaseInv'
    BY <2>2, <2>t, LeaseInvUntouched DEF ChangeScope, LateLost, demandVars
  <2>3. ASSUME NEW c \in Clients, Crash(c) \/ Stop(c)
        PROVE  LeaseInv'
    <3>1. /\ worker' = [worker EXCEPT ![c] = GoneWorker] /\ lease' = lease
          /\ known' = known \ {c}
      BY <2>3 DEF Crash, Stop, demandVars
    <3>2. worker'[c].phase = "gone"
      BY <3>1 DEF GoneWorker, NewWorker, LeaseInv, TypeOK
    <3>3. \A d \in Clients \ {c} : worker'[d] = worker[d] /\ lease'[d] = lease[d]
      BY <3>1 DEF LeaseInv, TypeOK
    <3> QED BY <2>t, <3>1, <3>2, <3>3, OneClientMoves
  <2>4. ASSUME NEW c \in Clients,
               Pass(c) \/ ProviderFails(c) \/ PostArrives(c) \/ PostEnds(c) \/ LateArrives(c)
        PROVE  LeaseInv'
    BY <2>4, <2>t, LeaseInvPass, LeaseInvProviderFails, LeaseInvPostArrives, LeaseInvPostEnds,
       LeaseInvLateArrives
  <2>5. CASE ObserveRead \/ ChangeMonitored \/ ReplaceDriver
    BY <2>5, <2>t, LeaseInvUntouched DEF ObserveRead, ChangeMonitored, ReplaceDriver, clientVars,
       demandVars
  <2>6. CASE CollectObservations \/ CollectLeases \/ RefreshPlan
    BY <2>6, <2>t, LeaseInvUntouched DEF CollectObservations, CollectLeases, RefreshPlan, clientVars, demandVars
  <2>7. CASE RestartCore
    <3>1. worker' = worker /\ known' = {}
      BY <2>7 DEF RestartCore, clientVars
    <3> QED BY <2>t, <3>1 DEF LeaseInv, DueFromStart
  <2>8. CASE Tick
    BY <2>8, <2>t, LeaseInvTick
  <2> QED BY <2>1, <2>2, <2>3, <2>4, <2>5, <2>6, <2>7, <2>8 DEF Next
<1>3. LeaseInv => RegistrationIsKept
  <2> SUFFICES ASSUME LeaseInv, NEW c \in known PROVE lease[c] > 0
    BY DEF RegistrationIsKept
  <2>1. c \in Clients /\ Covered(c)
    BY DEF LeaseInv, TypeOK
  <2>2. /\ worker[c].elapsed \in 0..PostTime /\ Budget(c) \in Nat /\ lease[c] \in 0..Lease
        /\ worker[c].due \in 0..Renew
    BY <2>1, WorkerNumbers DEF LeaseInv
  <2>3. UntilPost(c) \in Nat
    BY <2>2 DEF UntilPost
  <2>4. worker[c].phase \in {"asleep", "posting"}
    BY <2>1 DEF LeaseInv, TypeOK, WorkerState, Covered
  <2>5. Lease > (PostTime - worker[c].elapsed) + Budget(c) /\ Lease > UntilPost(c) + Budget(c) + PostTime
    BY <2>1, LeaseCovers DEF LeaseInv
  <2>6. CASE worker[c].phase = "asleep"
    BY <2>1, <2>2, <2>3, <2>6, Constants DEF Covered
  <2>7. CASE worker[c].phase = "posting" /\ ~worker[c].arrived
    BY <2>1, <2>2, <2>7, Constants DEF Covered
  <2>8. CASE worker[c].phase = "posting" /\ worker[c].arrived
    BY <2>1, <2>2, <2>3, <2>5, <2>8, Constants DEF Covered
  <2> QED BY <2>4, <2>6, <2>7, <2>8
<1> QED BY <1>1, <1>2, <1>3, PTL DEF Spec
=============================================================================
