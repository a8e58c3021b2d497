------------------------- MODULE RuntimeReload_proof -------------------------
(***************************************************************************)
(* Proofs about RuntimeReload for any connections, callers, contents and   *)
(* bounds.                                                                 *)
(***************************************************************************)
EXTENDS RuntimeReload, TLAPS

(* Only a caller asks for a full reload: a caller that finds one in the    *)
(* slot and follows it follows a caller's reload.                          *)
FullReloadHasCaller == SlotBusy /\ slot.target = NoConn => slot.by \in Callers

(* A caller that takes a number.                                           *)
LEMMA NumberedTyped ==
    ASSUME caller \in [Callers -> CallerState], NEW h \in Callers, NEW g \in Nat,
           NEW t \in Targets
    PROVE  /\ [caller EXCEPT ![h].phase = "numbered", ![h].gen = g] \in [Callers -> CallerState]
           /\ [caller EXCEPT ![h].phase = "numbered", ![h].gen = g, ![h].target = t]
                \in [Callers -> CallerState]
<1>1. caller[h] \in CallerState
  OBVIOUS
<1>2. [caller[h] EXCEPT !.phase = "numbered", !.gen = g] \in CallerState
  BY <1>1 DEF CallerState, CallerPhase
<1>3. [caller[h] EXCEPT !.phase = "numbered", !.gen = g, !.target = t] \in CallerState
  BY <1>1 DEF CallerState, CallerPhase
<1> QED
  BY <1>2, <1>3

LEMMA LoopingTyped == Looping \in MainState
<1>1. 0 \in Contents
  BY RuntimeReloadAssumption DEF Contents
<1> QED
  BY <1>1 DEF Looping, MainState, MainPhase, Targets

LEMMA InitTyped == Init => TypeOK /\ FullReloadHasCaller
<1> SUFFICES ASSUME Init PROVE TypeOK /\ FullReloadHasCaller
  OBVIOUS
<1>1. files \in [Conns -> Contents] /\ loaded \in [Conns -> Contents]
      /\ applied \in [Conns -> Contents]
  BY RuntimeReloadAssumption DEF Init, Contents
<1>2. initialized \in BOOLEAN /\ up \subseteq Conns /\ rebuild \in BOOLEAN
  BY DEF Init, CaptureError
<1>3. slot \in Slot
  BY DEF Init, EmptySlot, Slot, Targets
<1>4. main \in MainState
  BY RuntimeReloadAssumption DEF Init, Looping, MainState, MainPhase, Targets, Contents
<1>5. caller \in [Callers -> CallerState] /\ outcome \in [Callers -> Outcome]
  BY DEF Init, IdleCaller, CallerState, CallerPhase, Answer, Targets, Outcome
<1>6. /\ configGen \in Nat /\ requestGen \in Nat /\ activeGen \in Nat
      /\ lanes \in [Conns -> Nat] /\ recoveries \in Nat /\ restarts \in Nat
  BY DEF Init
<1>7. FullReloadHasCaller
  BY DEF Init, FullReloadHasCaller, SlotBusy, EmptySlot
<1> QED
  BY <1>1, <1>2, <1>3, <1>4, <1>5, <1>6, <1>7 DEF TypeOK

LEMMA NextTyped == TypeOK /\ FullReloadHasCaller /\ [Next]_vars => TypeOK' /\ FullReloadHasCaller'
<1> SUFFICES ASSUME TypeOK, FullReloadHasCaller, [Next]_vars
             PROVE  TypeOK' /\ FullReloadHasCaller'
  OBVIOUS
<1> USE DEF TypeOK
<1>1. ASSUME NEW c \in Conns, RequestRecovery(c) PROVE TypeOK' /\ FullReloadHasCaller'
  BY <1>1, RuntimeReloadAssumption
  DEF RequestRecovery, configVars, laneVars, Request, Slot, Targets, FullReloadHasCaller, SlotBusy
<1>2. ASSUME NEW c \in Conns, LaneExit(c) PROVE TypeOK' /\ FullReloadHasCaller'
  BY <1>2 DEF LaneExit, configVars, FullReloadHasCaller, SlotBusy
<1>3. ASSUME NEW c \in Conns, NEW v \in Contents, Save(c, v)
      PROVE TypeOK' /\ FullReloadHasCaller'
  BY <1>3 DEF Save, configVars, laneVars, FullReloadHasCaller, SlotBusy
<1>4. ASSUME NEW h \in Callers, PostReload(h) PROVE TypeOK' /\ FullReloadHasCaller'
  <2> DEFINE g == configGen + 1
  <2>0. g \in Nat /\ NoConn \in Targets
    BY DEF Targets
  <2>1. caller' = [caller EXCEPT ![h].phase = "numbered", ![h].gen = g]
    BY <1>4 DEF PostReload
  <2> HIDE DEF g
  <2>2. caller' \in [Callers -> CallerState]
    BY <2>0, <2>1, NumberedTyped
  <2> QED
    BY <1>4, <2>2 DEF PostReload, configVars, laneVars, FullReloadHasCaller, SlotBusy
<1>5. ASSUME NEW h \in Callers, NEW c \in Conns, PostReloadConnection(h, c)
      PROVE TypeOK' /\ FullReloadHasCaller'
  <2> DEFINE g == requestGen + 1
  <2>0. g \in Nat /\ c \in Targets
    BY DEF Targets
  <2>1. caller' = [caller EXCEPT ![h].phase = "numbered", ![h].gen = g, ![h].target = c]
    BY <1>5 DEF PostReloadConnection
  <2> HIDE DEF g
  <2>2. caller' \in [Callers -> CallerState]
    BY <2>0, <2>1, NumberedTyped
  <2> QED
    BY <1>5, <2>2 DEF PostReloadConnection, configVars, laneVars, FullReloadHasCaller, SlotBusy
<1>6. ASSUME NEW h \in Callers, Submit(h) PROVE TypeOK' /\ FullReloadHasCaller'
  <2>1. caller[h] \in CallerState
    OBVIOUS
  <2>2. slot' \in Slot /\ FullReloadHasCaller'
    <3>1. CASE SlotBusy
      BY <1>6, <3>1 DEF Submit, FullReloadHasCaller, SlotBusy
    <3>2. CASE ~SlotBusy
      <4>1. slot' = Request(caller[h].gen, caller[h].target, h)
        BY <1>6, <3>2 DEF Submit
      <4>2. caller[h].gen \in Nat /\ caller[h].target \in Targets
        BY <2>1 DEF CallerState
      <4> QED
        BY <4>1, <4>2 DEF Request, Slot, FullReloadHasCaller
    <3> QED
      BY <3>1, <3>2
  <2>3. caller' \in [Callers -> CallerState]
    BY <1>6 DEF Submit, CallerState, CallerPhase
  <2> QED
    BY <1>6, <2>2, <2>3 DEF Submit, configVars, laneVars
<1>7. ASSUME NEW h \in Callers, AnswerDone(h) \/ AnswerPending(h) \/ PollStatus(h) \/ GiveUp(h)
      PROVE TypeOK' /\ FullReloadHasCaller'
  <2>1. caller' \in [Callers -> CallerState]
    BY <1>7 DEF AnswerDone, AnswerPending, PollStatus, GiveUp, Told, CallerState,
                CallerPhase, Answer
  <2> QED
    BY <1>7, <2>1 DEF AnswerDone, AnswerPending, PollStatus, GiveUp, configVars, laneVars,
                      FullReloadHasCaller, SlotBusy
<1>8. ASSUME NEW h \in Callers, FollowExisting(h) PROVE TypeOK' /\ FullReloadHasCaller'
  <2>1. caller' \in [Callers -> CallerState]
    <3>1. caller[h] \in CallerState /\ slot.gen \in Nat
      BY DEF Slot
    <3>2. CASE caller[h].target = NoConn /\ slot.target = NoConn /\ SlotBusy
      <4>1. slot.by \in Callers
        BY <3>2 DEF FullReloadHasCaller
      <4>2. [caller[h] EXCEPT !.phase = "polling", !.gen = slot.gen, !.of = slot.by]
              \in CallerState
        BY <3>1, <4>1 DEF CallerState, CallerPhase
      <4> QED
        BY <1>8, <3>2, <4>2 DEF FollowExisting
    <3>3. CASE ~(caller[h].target = NoConn /\ slot.target = NoConn /\ SlotBusy)
      BY <1>8, <3>3 DEF FollowExisting, Told, CallerState, CallerPhase, Answer
    <3> QED
      BY <3>2, <3>3
  <2> QED
    BY <1>8, <2>1 DEF FollowExisting, configVars, laneVars, FullReloadHasCaller, SlotBusy
<1>9. ASSUME TakeReload PROVE TypeOK' /\ FullReloadHasCaller'
  <2>1. slot' \in Slot /\ main' \in MainState
    BY <1>9 DEF TakeReload, Slot, MainState, MainPhase
  <2>2. FullReloadHasCaller'
    BY <1>9 DEF TakeReload, FullReloadHasCaller, SlotBusy, Slot
  <2> QED
    BY <1>9, <2>1, <2>2 DEF TakeReload, configVars, laneVars
<1>10. ASSUME CaptureSaved \/ StopLanes \/ StartLanes \/ MarkApplied
       PROVE  TypeOK' /\ FullReloadHasCaller'
  <2>1. main' \in MainState
    BY <1>10 DEF CaptureSaved, StopLanes, StartLanes, MarkApplied, MainState, MainPhase
  <2>2. lanes' \in [Conns -> Nat] /\ activeGen' \in Nat
    BY <1>10 DEF CaptureSaved, StopLanes, StartLanes, MarkApplied, laneVars, LanesAt, StartGen
  <2>3. applied' \in [Conns -> Contents]
    <3>1. AppliedFiles(main.saved, main.target) \in [Conns -> Contents]
      BY DEF AppliedFiles, MainState
    <3> QED
      BY <1>10, <3>1 DEF CaptureSaved, StopLanes, StartLanes, MarkApplied, configVars
  <2>4. initialized' \in BOOLEAN
    BY <1>10 DEF CaptureSaved, StopLanes, StartLanes, MarkApplied, configVars, AppliedInit
  <2> QED
    BY <1>10, <2>1, <2>2, <2>3, <2>4
    DEF CaptureSaved, StopLanes, StartLanes, MarkApplied, configVars, laneVars,
        FullReloadHasCaller, SlotBusy
<1>11. ASSUME NEW ok \in BOOLEAN, LoadAll(ok) PROVE TypeOK' /\ FullReloadHasCaller'
  <2>1. main' \in MainState
    <3>1. [main EXCEPT !.phase = "loaded", !.ok = ok] \in MainState
      BY DEF MainState, MainPhase
    <3> QED
      BY <1>11, <3>1 DEF LoadAll
  <2>2. rebuild' \in BOOLEAN
    BY <1>11 DEF LoadAll
  <2> QED
    BY <1>11, <2>1, <2>2 DEF LoadAll, laneVars, FullReloadHasCaller, SlotBusy
<1>12. ASSUME NEW ok \in BOOLEAN, LoadTarget(ok) PROVE TypeOK' /\ FullReloadHasCaller'
  <2>0. main.target \in Conns
    BY <1>12 DEF LoadTarget, MainState, Targets
  <2> DEFINE b == TargetLoads(main.target)
  <2>1. b \in BOOLEAN
    BY DEF TargetLoads
  <2>2. main' = [main EXCEPT !.phase = "loaded", !.ok = b]
    BY <1>12 DEF LoadTarget
  <2> HIDE DEF b
  <2>3. main' \in MainState
    BY <2>1, <2>2 DEF MainState, MainPhase
  <2>4. loaded' \in [Conns -> Contents] /\ up' \subseteq Conns
    BY <1>12, <2>0 DEF LoadTarget
  <2>5. rebuild' \in BOOLEAN
    BY <1>12 DEF LoadTarget
  <2> QED
    BY <1>12, <2>3, <2>4, <2>5 DEF LoadTarget, laneVars, FullReloadHasCaller, SlotBusy
<1>13. ASSUME FinishReload PROVE TypeOK' /\ FullReloadHasCaller'
  <2>1. main' \in MainState
    BY <1>13, LoopingTyped DEF FinishReload
  <2>2. slot' \in Slot
    BY <1>13 DEF FinishReload, Slot, MainState
  <2>3. outcome' \in [Callers -> Outcome]
    <3>1. \A h \in Callers : (IF h = slot.by THEN (IF main.ok THEN "ok" ELSE "failed")
                             ELSE outcome[h]) \in Outcome
      BY DEF Outcome
    <3> QED
      BY <1>13, <3>1 DEF FinishReload
  <2>4. FullReloadHasCaller'
    BY <1>13 DEF FinishReload, FullReloadHasCaller, SlotBusy, Slot
  <2> QED
    BY <1>13, <2>1, <2>2, <2>3, <2>4 DEF FinishReload, configVars, laneVars
<1>14. ASSUME FollowGeneration PROVE TypeOK' /\ FullReloadHasCaller'
  <2>1. lanes' \in [Conns -> Nat]
    BY <1>14 DEF FollowGeneration, LanesAt
  <2> QED
    BY <1>14, <2>1 DEF FollowGeneration, configVars, FullReloadHasCaller, SlotBusy
<1>16. ASSUME RestartService PROVE TypeOK' /\ FullReloadHasCaller'
  <2>1. slot' \in Slot /\ FullReloadHasCaller'
    BY <1>16 DEF RestartService, EmptySlot, Slot, Targets, FullReloadHasCaller, SlotBusy
  <2>2. main' \in MainState
    BY <1>16, LoopingTyped DEF RestartService
  <2>3. outcome' \in [Callers -> Outcome]
    <3>1. \A h \in Callers : (IF h = slot.by /\ outcome[h] = "none"
                             THEN "restarted" ELSE outcome[h]) \in Outcome
      BY DEF Outcome
    <3> QED
      BY <1>16, <3>1 DEF RestartService
  <2>4. caller' \in [Callers -> CallerState]
    <3>1. ASSUME NEW h \in Callers
          PROVE  [caller[h] EXCEPT !.phase = "answered", !.answer = "lost"] \in CallerState
      <4>1. caller[h] \in CallerState
        OBVIOUS
      <4> QED
        BY <4>1 DEF CallerState, CallerPhase, Answer
    <3> QED
      BY <1>16, <3>1 DEF RestartService
  <2>5. /\ applied' \in [Conns -> Contents] /\ loaded' \in [Conns -> Contents]
        /\ files' \in [Conns -> Contents]
    <3>1. [c \in Conns |-> 0] \in [Conns -> Contents]
      BY RuntimeReloadAssumption DEF Contents
    <3>2. loaded' = files /\ files' = files
      BY <1>16 DEF RestartService
    <3>3. applied' = files \/ applied' = [c \in Conns |-> 0]
      BY <1>16 DEF RestartService
    <3> QED
      BY <3>1, <3>2, <3>3
  <2>6. initialized' \in BOOLEAN /\ up' \subseteq Conns /\ rebuild' \in BOOLEAN
    BY <1>16 DEF RestartService, CaptureError
  <2>7. /\ configGen' \in Nat /\ requestGen' \in Nat /\ activeGen' \in Nat
        /\ lanes' \in [Conns -> Nat] /\ recoveries' \in Nat /\ restarts' \in Nat
    <3>1. /\ configGen' = 1 /\ requestGen' = 1 /\ activeGen' = 1
          /\ recoveries' = recoveries /\ restarts' = restarts + 1
      BY <1>16 DEF RestartService
    <3>2. lanes' \in [Conns -> Nat]
      BY <1>16 DEF RestartService
    <3> QED
      BY <3>1, <3>2
  <2> QED
    BY <2>1, <2>2, <2>3, <2>4, <2>5, <2>6, <2>7
<1>15. CASE UNCHANGED vars
  BY <1>15 DEF vars, configVars, laneVars, FullReloadHasCaller, SlotBusy
<1> QED
  BY <1>1, <1>2, <1>3, <1>4, <1>5, <1>6, <1>7, <1>8, <1>9, <1>10, <1>11, <1>12, <1>13,
     <1>14, <1>15, <1>16 DEF Next, MainStep, CallerStep

(* The variables of RuntimeReload stay in their sets: the reload slot, the *)
(* main loop's locals, the callers.  A caller that follows a full reload   *)
(* follows another caller's, which is why FullReloadHasCaller is needed.   *)
THEOREM TypeCorrect == Spec => []TypeOK
<1>1. Spec => [](TypeOK /\ FullReloadHasCaller)
  BY InitTyped, NextTyped, PTL DEF Spec
<1> QED
  BY <1>1, PTL

-----------------------------------------------------------------------------
(* The slot.  The main loop works on a request that is in the slot; a      *)
(* reload that is wanted or under way is not done; a caller follows only   *)
(* its own reload until it was refused, and has no answer before the end.  *)
SlotInv ==
    /\ main.phase = "loop" => ~slot.inProgress
    /\ main.phase # "loop" => slot.requested
    /\ SlotBusy => ~slot.done
    /\ \A h \in Callers :
         /\ caller[h].phase \in {"idle", "numbered", "waiting", "refused"} => caller[h].of = h
         /\ caller[h].phase # "answered" => caller[h].answer = "none"

AnswerInv == TypeOK /\ FullReloadHasCaller /\ SlotInv /\ ReloadNotOverwritten /\ AnswerFollowsReload

(* Actions that leave the slot, the callers and the outcomes alone.        *)
LEMMA FrameAnswer ==
    ASSUME SlotInv, ReloadNotOverwritten, AnswerFollowsReload,
           UNCHANGED <<slot, caller, outcome>>,
           main' = main \/ (main.phase # "loop" /\ main'.phase # "loop")
    PROVE  SlotInv' /\ ReloadNotOverwritten' /\ AnswerFollowsReload'
  BY DEF SlotInv, ReloadNotOverwritten, AnswerFollowsReload, SlotBusy

LEMMA SubmitAnswer ==
    ASSUME AnswerInv, NEW h \in Callers, Submit(h)
    PROVE  SlotInv' /\ ReloadNotOverwritten' /\ AnswerFollowsReload'
<1>1. /\ caller \in [Callers -> CallerState] /\ main' = main /\ outcome' = outcome
      /\ caller[h].phase = "numbered"
  BY DEF AnswerInv, TypeOK, Submit
<1>2. \A k \in Callers : caller'[k].of = caller[k].of /\ caller'[k].answer = caller[k].answer
                         /\ (k # h => caller'[k].phase = caller[k].phase)
  BY <1>1 DEF Submit, CallerState
<1>3. caller[h].of = h /\ caller[h].answer = "none"
  BY <1>1 DEF AnswerInv, SlotInv
<1>4. AnswerFollowsReload'
  BY <1>1, <1>2 DEF AnswerInv, AnswerFollowsReload
<1>5. CASE SlotBusy
  <2>1. slot' = slot /\ caller'[h].phase = "refused"
    BY <1>1, <1>5 DEF Submit, CallerState
  <2> QED
    BY <1>1, <1>2, <1>3, <1>4, <2>1 DEF AnswerInv, SlotInv, ReloadNotOverwritten, SlotBusy
<1>6. CASE ~SlotBusy
  <2>1. /\ slot'.requested /\ ~slot'.inProgress /\ ~slot'.done /\ slot'.by = h
        /\ caller'[h].phase = "waiting"
    BY <1>1, <1>6 DEF Submit, Request, CallerState
  <2>2. main.phase = "loop"
    BY <1>6 DEF AnswerInv, SlotInv, SlotBusy
  <2>3. SlotInv'
    BY <1>1, <1>2, <1>3, <2>1, <2>2 DEF AnswerInv, SlotInv, SlotBusy
  <2>4. \A k \in Callers : caller[k].phase \in {"waiting", "polling"} => outcome[caller[k].of] # "none"
    BY <1>6 DEF AnswerInv, ReloadNotOverwritten
  <2>5. ReloadNotOverwritten'
    BY <1>1, <1>2, <1>3, <2>1, <2>4 DEF ReloadNotOverwritten, SlotBusy
  <2> QED
    BY <1>4, <2>3, <2>5
<1> QED
  BY <1>5, <1>6

(* A caller that changes only its own phase and answer.                    *)
LEMMA CallerAnswer ==
    ASSUME AnswerInv, NEW h \in Callers,
           AnswerDone(h) \/ AnswerPending(h) \/ PollStatus(h) \/ GiveUp(h)
    PROVE  SlotInv' /\ ReloadNotOverwritten' /\ AnswerFollowsReload'
<1>1. /\ caller \in [Callers -> CallerState] /\ main' = main /\ outcome' = outcome
      /\ slot' = slot /\ caller[h].phase \in {"waiting", "polling"}
  BY DEF AnswerInv, TypeOK, AnswerDone, AnswerPending, PollStatus, GiveUp
<1>2. \A k \in Callers : caller'[k].of = caller[k].of /\ (k # h => caller'[k] = caller[k])
  BY <1>1 DEF AnswerDone, AnswerPending, PollStatus, GiveUp, Told, CallerState
<1>3. \/ caller'[h].phase = "answered"
      \/ caller'[h].phase = "polling" /\ caller'[h].answer = caller[h].answer
  BY <1>1 DEF AnswerDone, AnswerPending, PollStatus, GiveUp, Told, CallerState
<1>4. caller'[h].answer \in {"ok", "failed"} /\ caller'[h].phase = "answered"
        => outcome[caller[h].of] # "none"
  <2>1. CASE AnswerDone(h) \/ PollStatus(h)
    <3>1. slot.done
      BY <2>1 DEF AnswerDone, PollStatus
    <3>2. ~SlotBusy
      BY <3>1 DEF AnswerInv, SlotInv
    <3> QED
      BY <1>1, <3>2 DEF AnswerInv, ReloadNotOverwritten
  <2>2. CASE GiveUp(h)
    BY <1>1, <2>2 DEF GiveUp, Told, CallerState
  <2>3. CASE AnswerPending(h)
    BY <1>1, <2>3 DEF AnswerPending, CallerState
  <2> QED
    BY <2>1, <2>2, <2>3
<1>5. caller[h].answer = "none"
  BY <1>1 DEF AnswerInv, SlotInv
<1>6. SlotInv'
  BY <1>1, <1>2, <1>3, <1>5 DEF AnswerInv, SlotInv, SlotBusy
<1>7. ReloadNotOverwritten'
  BY <1>1, <1>2, <1>3 DEF AnswerInv, ReloadNotOverwritten, SlotBusy
<1>8. AnswerFollowsReload'
  BY <1>1, <1>2, <1>3, <1>4, <1>5 DEF AnswerInv, AnswerFollowsReload
<1> QED
  BY <1>6, <1>7, <1>8

LEMMA FollowAnswer ==
    ASSUME AnswerInv, NEW h \in Callers, FollowExisting(h)
    PROVE  SlotInv' /\ ReloadNotOverwritten' /\ AnswerFollowsReload'
<1>1. /\ caller \in [Callers -> CallerState] /\ main' = main /\ outcome' = outcome
      /\ slot' = slot /\ caller[h].phase = "refused"
  BY DEF AnswerInv, TypeOK, FollowExisting
<1>2. \A k \in Callers : k # h => caller'[k] = caller[k]
  BY <1>1 DEF FollowExisting, Told
<1>3. \/ /\ SlotBusy /\ caller'[h].phase = "polling" /\ caller'[h].of = slot.by
         /\ caller'[h].answer = caller[h].answer
      \/ /\ caller'[h].phase = "answered" /\ caller'[h].answer = "refused"
         /\ caller'[h].of = caller[h].of
  BY <1>1 DEF FollowExisting, Told, CallerState
<1>4. caller[h].answer = "none"
  BY <1>1 DEF AnswerInv, SlotInv
<1>5. SlotInv'
  BY <1>1, <1>2, <1>3, <1>4 DEF AnswerInv, SlotInv, SlotBusy
<1>6. ReloadNotOverwritten'
  BY <1>1, <1>2, <1>3 DEF AnswerInv, ReloadNotOverwritten, SlotBusy
<1>7. AnswerFollowsReload'
  BY <1>1, <1>2, <1>3, <1>4 DEF AnswerInv, AnswerFollowsReload
<1> QED
  BY <1>5, <1>6, <1>7

LEMMA FinishAnswer ==
    ASSUME AnswerInv, FinishReload
    PROVE  SlotInv' /\ ReloadNotOverwritten' /\ AnswerFollowsReload'
<1>1. /\ slot \in Slot /\ outcome \in [Callers -> Outcome] /\ caller' = caller
      /\ main'.phase = "loop"
      /\ caller \in [Callers -> CallerState]
  BY DEF AnswerInv, TypeOK, FinishReload, Looping
<1>2. ~slot'.requested /\ ~slot'.inProgress
  BY <1>1 DEF FinishReload, Slot
<1>3. \A k \in Callers : IF k = slot.by THEN outcome'[k] # "none" ELSE outcome'[k] = outcome[k]
  BY <1>1 DEF FinishReload
<1>4. SlotInv'
  BY <1>1, <1>2 DEF AnswerInv, SlotInv, SlotBusy
<1>5. ReloadNotOverwritten'
  BY <1>1, <1>3 DEF AnswerInv, ReloadNotOverwritten, CallerState
<1>6. AnswerFollowsReload'
  BY <1>1, <1>3 DEF AnswerInv, AnswerFollowsReload, CallerState
<1> QED
  BY <1>4, <1>5, <1>6

LEMMA RestartAnswer ==
    ASSUME AnswerInv, RestartService
    PROVE  SlotInv' /\ ReloadNotOverwritten' /\ AnswerFollowsReload'
<1>1. /\ outcome \in [Callers -> Outcome] /\ caller \in [Callers -> CallerState]
      /\ main' = Looping /\ slot' = EmptySlot
  BY DEF AnswerInv, TypeOK, RestartService
<1>2. \A k \in Callers : /\ k = slot.by => outcome'[k] # "none"
                         /\ outcome[k] # "none" => outcome'[k] # "none"
  BY <1>1 DEF RestartService
<1>3. \A k \in Callers :
        \/ caller'[k] = caller[k] /\ caller[k].phase \notin {"numbered", "waiting"}
        \/ /\ caller[k].phase \in {"numbered", "waiting"}
           /\ caller'[k].phase = "answered" /\ caller'[k].answer = "lost"
           /\ caller'[k].of = caller[k].of
  <2> SUFFICES ASSUME NEW k \in Callers
               PROVE  \/ caller'[k] = caller[k] /\ caller[k].phase \notin {"numbered", "waiting"}
                      \/ /\ caller[k].phase \in {"numbered", "waiting"}
                         /\ caller'[k].phase = "answered" /\ caller'[k].answer = "lost"
                         /\ caller'[k].of = caller[k].of
    OBVIOUS
  <2>1. caller[k] \in CallerState
    BY <1>1
  <2>2. caller'[k] = IF caller[k].phase \in {"numbered", "waiting"}
                     THEN [caller[k] EXCEPT !.phase = "answered", !.answer = "lost"]
                     ELSE caller[k]
    BY DEF RestartService
  <2> QED
    BY <2>1, <2>2 DEF CallerState
<1>4. SlotInv'
  BY <1>1, <1>3 DEF AnswerInv, SlotInv, SlotBusy, EmptySlot, Looping
<1>5. ASSUME NEW k \in Callers, caller'[k].phase \in {"waiting", "polling"}
      PROVE  outcome'[caller'[k].of] # "none"
  <2>1. caller'[k] = caller[k] /\ caller[k].phase = "polling" /\ caller[k].of \in Callers
    BY <1>1, <1>3, <1>5 DEF CallerState
  <2> QED
    BY <1>2, <2>1 DEF AnswerInv, ReloadNotOverwritten
<1>6. ReloadNotOverwritten'
  BY <1>5 DEF ReloadNotOverwritten
<1>7. AnswerFollowsReload'
  BY <1>1, <1>2, <1>3 DEF AnswerInv, AnswerFollowsReload, CallerState
<1> QED
  BY <1>4, <1>6, <1>7

LEMMA AnswerInvInductive == (Init => AnswerInv) /\ (AnswerInv /\ [Next]_vars => AnswerInv')
<1>1. Init => AnswerInv
  <2> SUFFICES ASSUME Init PROVE AnswerInv
    OBVIOUS
  <2>1. TypeOK /\ FullReloadHasCaller
    BY InitTyped
  <2>2. /\ main.phase = "loop" /\ ~slot.inProgress /\ ~slot.requested
        /\ \A h \in Callers : caller[h].phase = "idle" /\ caller[h].of = h /\ caller[h].answer = "none"
    BY DEF Init, Looping, EmptySlot, IdleCaller
  <2> QED
    BY <2>1, <2>2 DEF AnswerInv, SlotInv, ReloadNotOverwritten, AnswerFollowsReload, SlotBusy
<1>2. AnswerInv /\ [Next]_vars => AnswerInv'
  <2> SUFFICES ASSUME AnswerInv, [Next]_vars
               PROVE  SlotInv' /\ ReloadNotOverwritten' /\ AnswerFollowsReload'
    BY NextTyped DEF AnswerInv
  <2>0. /\ slot \in Slot /\ main \in MainState /\ caller \in [Callers -> CallerState]
        /\ SlotInv /\ ReloadNotOverwritten /\ AnswerFollowsReload
    BY DEF AnswerInv, TypeOK
  <2>1. ASSUME NEW c \in Conns, RequestRecovery(c)
        PROVE  SlotInv' /\ ReloadNotOverwritten' /\ AnswerFollowsReload'
    <3>1. /\ ~SlotBusy /\ main' = main /\ caller' = caller /\ outcome' = outcome
          /\ main.phase = "loop" /\ slot'.requested /\ ~slot'.inProgress /\ ~slot'.done
      BY <2>1 DEF RequestRecovery, Request
    <3> QED
      BY <2>0, <3>1 DEF SlotInv, ReloadNotOverwritten, AnswerFollowsReload, SlotBusy
  <2>2. ASSUME NEW h \in Callers, PostReload(h) \/ \E c \in Conns : PostReloadConnection(h, c)
        PROVE  SlotInv' /\ ReloadNotOverwritten' /\ AnswerFollowsReload'
    <3>1. /\ slot' = slot /\ main' = main /\ outcome' = outcome /\ caller[h].phase = "idle"
      BY <2>2 DEF PostReload, PostReloadConnection
    <3>2. \A k \in Callers : /\ caller'[k].of = caller[k].of /\ caller'[k].answer = caller[k].answer
                             /\ k # h => caller'[k] = caller[k]
      BY <2>0, <2>2 DEF PostReload, PostReloadConnection, CallerState
    <3>3. caller'[h].phase = "numbered"
      BY <2>0, <2>2 DEF PostReload, PostReloadConnection, CallerState
    <3>4. SlotInv'
      BY <2>0, <3>1, <3>2, <3>3 DEF SlotInv, SlotBusy
    <3> QED
      BY <2>0, <3>1, <3>2, <3>3, <3>4 DEF ReloadNotOverwritten, AnswerFollowsReload, SlotBusy
  <2>3. ASSUME TakeReload PROVE SlotInv' /\ ReloadNotOverwritten' /\ AnswerFollowsReload'
    <3>1. /\ caller' = caller /\ outcome' = outcome /\ main'.phase # "loop"
          /\ slot.requested /\ slot'.requested /\ slot'.by = slot.by /\ slot'.done = slot.done
      BY <2>0, <2>3 DEF TakeReload, Slot, MainState
    <3> QED
      BY <2>0, <3>1 DEF SlotInv, ReloadNotOverwritten, AnswerFollowsReload, SlotBusy
  <2>4. ASSUME CaptureSaved \/ StopLanes \/ StartLanes \/ MarkApplied
               \/ \E ok \in BOOLEAN : LoadAll(ok) \/ LoadTarget(ok)
        PROVE  SlotInv' /\ ReloadNotOverwritten' /\ AnswerFollowsReload'
    <3>1. UNCHANGED <<slot, caller, outcome>> /\ main.phase # "loop" /\ main'.phase # "loop"
      BY <2>0, <2>4
      DEF CaptureSaved, StopLanes, StartLanes, MarkApplied, LoadAll, LoadTarget, MainState
    <3> QED
      BY <2>0, <3>1, FrameAnswer
  <2>5. ASSUME FollowGeneration \/ (\E c \in Conns : LaneExit(c) \/ \E v \in Contents : Save(c, v))
               \/ UNCHANGED vars
        PROVE  SlotInv' /\ ReloadNotOverwritten' /\ AnswerFollowsReload'
    <3>1. UNCHANGED <<slot, caller, outcome, main>>
      BY <2>5 DEF FollowGeneration, LaneExit, Save, vars
    <3> QED
      BY <2>0, <3>1, FrameAnswer
  <2> QED
    BY <2>1, <2>2, <2>3, <2>4, <2>5, SubmitAnswer, CallerAnswer, FollowAnswer, FinishAnswer,
       RestartAnswer DEF Next, MainStep, CallerStep
<1> QED
  BY <1>1, <1>2

(* An accepted request is never replaced before the main loop has carried  *)
(* it out, and a caller that is told "done" was told so after its reload:  *)
(* the slot protocol of POST /reload, POST /reload/connection, the Modbus  *)
(* recovery and the main loop, with restarts of the service.               *)
THEOREM AnswerInvariant == Spec => [](ReloadNotOverwritten /\ AnswerFollowsReload)
<1>1. AnswerInv => ReloadNotOverwritten /\ AnswerFollowsReload
  BY DEF AnswerInv
<1> QED
  BY <1>1, AnswerInvInductive, PTL DEF Spec

(* The second half on its own: no caller is told that its reload was done,   *)
(* or had failed, before the main loop has ended it (main.cpp:24678).        *)
THEOREM AnswersFollowReloads == Spec => []AnswerFollowsReload
BY AnswerInvariant, PTL

-----------------------------------------------------------------------------
(* What is applied was saved before what is loaded, and that before what   *)
(* is saved now; so were the files captured for the reload under way.      *)
Reloading == main.phase \in {"captured", "stopped", "loaded", "started"}

OrderInv ==
    /\ \A c \in Conns : loaded[c] <= files[c]
    /\ initialized => \A c \in Conns : applied[c] <= loaded[c]
    /\ Reloading => \A c \in Conns : main.saved[c] <= files[c]
    /\ main.phase \in {"loaded", "started"} /\ main.ok =>
         \A c \in Affected(main.target) : main.saved[c] <= loaded[c]

PendingInv == TypeOK /\ FullReloadHasCaller /\ OrderInv

LEMMA ContentIsInt == ASSUME NEW v \in Contents PROVE v \in Int
  BY DEF Contents

LEMMA LoadOrder ==
    ASSUME PendingInv, NEW ok \in BOOLEAN, LoadAll(ok) \/ LoadTarget(ok)
    PROVE  OrderInv'
<1>1. /\ files \in [Conns -> Contents] /\ loaded \in [Conns -> Contents]
      /\ applied \in [Conns -> Contents] /\ main \in MainState
      /\ files' = files /\ applied' = applied /\ initialized' = initialized
      /\ main.phase = "stopped" /\ main'.saved = main.saved
      /\ main'.target = main.target /\ main'.phase = "loaded"
  BY DEF PendingInv, TypeOK, LoadAll, LoadTarget, MainState
<1>2. \A c \in Conns : loaded'[c] \in {loaded[c], files[c]}
  BY <1>1 DEF LoadAll, LoadTarget
<1>3. main'.ok => \A c \in Affected(main.target) : loaded'[c] = files[c]
  BY <1>1 DEF LoadAll, LoadTarget, Affected, MainState, Targets
<1>4. \A c \in Conns : main.saved[c] <= files[c] /\ loaded[c] <= files[c]
  BY <1>1 DEF PendingInv, OrderInv, Reloading
<1>5. \A c \in Conns : files[c] \in Int /\ loaded[c] \in Int /\ applied[c] \in Int
  BY <1>1, ContentIsInt
<1>6. initialized => \A c \in Conns : applied[c] <= loaded[c]
  BY DEF PendingInv, OrderInv
<1>7. \A c \in Affected(main.target) : c \in Conns
  BY <1>1 DEF Affected, MainState, Targets
<1>8. \A c \in Conns : loaded'[c] <= files'[c] /\ loaded[c] <= loaded'[c]
  BY <1>1, <1>2, <1>4, <1>5
<1>9. initialized' => \A c \in Conns : applied'[c] <= loaded'[c]
  BY <1>1, <1>2, <1>5, <1>6, <1>8
<1> QED
  BY <1>1, <1>3, <1>4, <1>7, <1>8, <1>9 DEF OrderInv, Reloading

LEMMA AppliedOrder ==
    ASSUME PendingInv, MarkApplied
    PROVE  OrderInv'
<1>1. /\ applied \in [Conns -> Contents] /\ main \in MainState
      /\ files' = files /\ loaded' = loaded
      /\ main.phase = "started" /\ main'.phase = "applied"
      /\ \A c \in Conns : loaded[c] <= files[c]
      /\ initialized => \A c \in Conns : applied[c] <= loaded[c]
      /\ main.ok => \A c \in Affected(main.target) : main.saved[c] <= loaded[c]
  BY DEF PendingInv, OrderInv, TypeOK, MarkApplied, MainState
<1>2. initialized' => \A c \in Conns : applied'[c] <= loaded[c]
  <2>1. CASE main.ok /\ ~CaptureError(main.saved)
    <3>1. \A c \in Conns : applied'[c] = IF c \in Affected(main.target) THEN main.saved[c]
                                         ELSE applied[c]
      BY <2>1 DEF MarkApplied, AppliedFiles
    <3>2. initialized' => initialized \/ Affected(main.target) = Conns
      BY <2>1 DEF MarkApplied, AppliedInit, Affected
    <3> QED
      BY <1>1, <2>1, <3>1, <3>2
  <2>2. CASE ~main.ok \/ CaptureError(main.saved)
    <3>1. applied' = applied
      BY <2>2 DEF MarkApplied, AppliedFiles
    <3>2. initialized' => initialized
      BY <2>2 DEF MarkApplied, AppliedInit
    <3> QED
      BY <1>1, <3>1, <3>2
  <2> QED
    BY <2>1, <2>2
<1> QED
  BY <1>1, <1>2 DEF OrderInv, Reloading

(* As long as every save brings a content of its own, a status without     *)
(* pending changes means that every connection was built from the files    *)
(* that are saved: a save during a reload stays pending when it ends       *)
(* (RuntimeConfigState::capture before the load, applied after it).        *)
THEOREM PendingInvariant == ~Reverts => (Spec => []NothingPendingIsLoaded)
<1> SUFFICES ASSUME ~Reverts PROVE Spec => []NothingPendingIsLoaded
  OBVIOUS
<1>1. Init => PendingInv
  <2> SUFFICES ASSUME Init PROVE OrderInv
    BY InitTyped DEF PendingInv
  <2>1. \A c \in Conns : files[c] = 0
    BY DEF Init
  <2> QED
    BY <2>1 DEF Init, OrderInv, Reloading, Looping
<1>2. PendingInv /\ [Next]_vars => PendingInv'
  <2> SUFFICES ASSUME PendingInv, [Next]_vars PROVE OrderInv'
    BY NextTyped DEF PendingInv
  <2>0. /\ files \in [Conns -> Contents] /\ loaded \in [Conns -> Contents]
        /\ applied \in [Conns -> Contents] /\ main \in MainState /\ OrderInv
    BY DEF PendingInv, TypeOK
  <2>1. ASSUME NEW c \in Conns, NEW v \in Contents, Save(c, v) PROVE OrderInv'
    <3>1. /\ UNCHANGED <<loaded, applied, initialized, main>>
          /\ \A k \in Conns : files'[k] = IF k = c THEN v ELSE files[k]
          /\ v > files[c]
      BY <2>0, <2>1 DEF Save, configVars
    <3>2. \A k \in Conns : /\ files[k] \in Int /\ loaded[k] \in Int /\ main.saved[k] \in Int
      BY <2>0, ContentIsInt DEF MainState
    <3>3. \A k \in Conns : files[k] <= files'[k] /\ files'[k] \in Int
      BY <3>1, <3>2, ContentIsInt
    <3>4. \A k \in Conns : loaded[k] <= files'[k]
      BY <2>0, <3>2, <3>3 DEF OrderInv
    <3>5. Reloading => \A k \in Conns : main.saved[k] <= files'[k]
      BY <2>0, <3>2, <3>3 DEF OrderInv
    <3> QED
      BY <2>0, <3>1, <3>4, <3>5 DEF OrderInv, Reloading
  <2>2. ASSUME CaptureSaved PROVE OrderInv'
    <3>1. /\ UNCHANGED <<files, loaded, applied, initialized>>
          /\ main'.phase = "captured" /\ main'.saved = files
      BY <2>0, <2>2 DEF CaptureSaved, configVars, MainState
    <3>2. \A k \in Conns : files[k] \in Int
      BY <2>0, ContentIsInt
    <3> QED
      BY <2>0, <3>1, <3>2 DEF OrderInv, Reloading
  <2>3. ASSUME StopLanes \/ StartLanes PROVE OrderInv'
    <3>1. /\ UNCHANGED <<files, loaded, applied, initialized>>
          /\ main'.saved = main.saved /\ main'.target = main.target /\ main'.ok = main.ok
          /\ \/ main.phase = "captured" /\ main'.phase = "stopped"
             \/ main.phase = "loaded" /\ main'.phase = "started"
      BY <2>0, <2>3 DEF StopLanes, StartLanes, configVars, MainState
    <3> QED
      BY <2>0, <3>1 DEF OrderInv, Reloading
  <2>4. ASSUME TakeReload \/ FinishReload PROVE OrderInv'
    <3>1. /\ UNCHANGED <<files, loaded, applied, initialized>>
          /\ main'.phase \in {"taken", "loop"}
      <4>1. CASE TakeReload
        BY <2>0, <4>1 DEF TakeReload, configVars, MainState
      <4>2. CASE FinishReload
        BY <4>2 DEF FinishReload, configVars, Looping
      <4> QED
        BY <2>4, <4>1, <4>2
    <3> QED
      BY <2>0, <3>1 DEF OrderInv, Reloading
  <2>5. ASSUME RestartService PROVE OrderInv'
    <3>1. /\ files' = files /\ loaded' = files /\ main'.phase = "loop"
          /\ initialized' => applied' = files
      BY <2>5 DEF RestartService, Looping, CaptureError
    <3>2. \A k \in Conns : files[k] \in Int
      BY <2>0, ContentIsInt
    <3> QED
      BY <3>1, <3>2 DEF OrderInv, Reloading
  <2>6. ASSUME UNCHANGED <<files, loaded, applied, initialized, main>> PROVE OrderInv'
    BY <2>0, <2>6 DEF OrderInv, Reloading
  <2>7. ASSUME NEW c \in Conns, RequestRecovery(c) \/ LaneExit(c) PROVE OrderInv'
    BY <2>6, <2>7 DEF RequestRecovery, LaneExit, configVars
  <2>8. ASSUME NEW h \in Callers,
               PostReload(h) \/ (\E c \in Conns : PostReloadConnection(h, c)) \/ CallerStep(h) \/ GiveUp(h)
        PROVE  OrderInv'
    BY <2>6, <2>8 DEF PostReload, PostReloadConnection, CallerStep, Submit, AnswerDone,
                      AnswerPending, FollowExisting, PollStatus, GiveUp, configVars
  <2>9. ASSUME FollowGeneration \/ UNCHANGED vars PROVE OrderInv'
    BY <2>6, <2>9 DEF FollowGeneration, vars, configVars
  <2> QED
    BY <2>1, <2>2, <2>3, <2>4, <2>5, <2>7, <2>8, <2>9, LoadOrder, AppliedOrder
    DEF Next, MainStep
<1>3. PendingInv => NothingPendingIsLoaded
  <2> SUFFICES ASSUME PendingInv, ~ConfigPending PROVE loaded = files
    BY DEF NothingPendingIsLoaded
  <2>1. /\ files \in [Conns -> Contents] /\ loaded \in [Conns -> Contents]
        /\ initialized /\ files = applied
    BY DEF PendingInv, TypeOK, ConfigPending
  <2>2. \A c \in Conns : loaded[c] = files[c]
    <3> SUFFICES ASSUME NEW c \in Conns PROVE loaded[c] = files[c]
      OBVIOUS
    <3>1. files[c] <= loaded[c] /\ loaded[c] <= files[c]
      BY <2>1 DEF PendingInv, OrderInv
    <3>2. files[c] \in Int /\ loaded[c] \in Int
      BY <2>1, ContentIsInt
    <3> QED
      BY <3>1, <3>2
  <2> QED
    BY <2>1, <2>2
<1> QED
  BY <1>1, <1>2, <1>3, PTL DEF Spec
-----------------------------------------------------------------------------
(* The lanes.  They are of the generation the main loop took up last, which *)
(* is not ahead of the counter, and a connection whose driver is being      *)
(* replaced has none.                                                       *)
LaneInv ==
    /\ activeGen <= configGen
    /\ \A c \in Conns : lanes[c] \in {0, activeGen}
    /\ \A c \in Replacing : lanes[c] = 0
    /\ DriversArePolled

PollInv == TypeOK /\ FullReloadHasCaller /\ LaneInv

(* What a reload may replace is a set of connections.                       *)
LEMMA AffectedConns ==
    ASSUME main \in MainState
    PROVE  Affected(main.target) \subseteq Conns /\ Replacing \subseteq Conns
  BY DEF Affected, MainState, Targets, Replacing

(* Steps that leave the lanes alone and do not begin or end a replacement.  *)
LEMMA FrameLanes ==
    ASSUME LaneInv, UNCHANGED <<up, configGen, activeGen, lanes>>,
           \/ main' = main
           \/ main.phase \notin {"stopped", "loaded"} /\ main'.phase \notin {"stopped", "loaded"}
    PROVE  LaneInv'
<1>1. Replacing' = Replacing
  BY DEF Replacing, Affected
<1> QED
  BY <1>1 DEF LaneInv, DriversArePolled

LEMMA NumberLanes ==
    ASSUME TypeOK, LaneInv, NEW h \in Callers, PostReload(h)
    PROVE  LaneInv'
<1>1. /\ UNCHANGED <<activeGen, lanes, main>> /\ configGen' = configGen + 1
      /\ configGen \in Nat /\ activeGen \in Nat /\ activeGen <= configGen
  BY DEF TypeOK, LaneInv, PostReload, laneVars
<1>2. Replacing' = Replacing
  BY <1>1 DEF Replacing, Affected
<1>3. configGen' # activeGen' /\ activeGen' <= configGen'
  BY <1>1
<1> QED
  BY <1>1, <1>2, <1>3 DEF LaneInv, DriversArePolled

LEMMA StopLanesPolled ==
    ASSUME TypeOK, LaneInv, StopLanes
    PROVE  LaneInv'
<1>1. /\ main \in MainState /\ UNCHANGED <<up, configGen, activeGen>>
      /\ main.phase = "captured" /\ main'.phase = "stopped" /\ main'.target = main.target
      /\ \A c \in Conns : lanes'[c] = IF c \in Affected(main.target) THEN 0 ELSE lanes[c]
  BY DEF TypeOK, StopLanes, configVars, MainState
<1>2. Replacing = {} /\ Replacing' = Affected(main.target)
  BY <1>1 DEF Replacing, Affected
<1>3. Replacing' \subseteq Conns
  BY <1>1, <1>2, AffectedConns
<1> QED
  BY <1>1, <1>2, <1>3 DEF LaneInv, DriversArePolled

(* A load changes nothing but the drivers that are being replaced.          *)
LEMMA LoadReplaces ==
    ASSUME TypeOK, NEW ok \in BOOLEAN, LoadAll(ok) \/ LoadTarget(ok)
    PROVE  /\ UNCHANGED <<configGen, activeGen, lanes>> /\ Replacing' = Replacing
           /\ \A c \in Conns \ Replacing : loaded'[c] = loaded[c] /\ (c \in up' <=> c \in up)
<1>1. /\ main \in MainState /\ UNCHANGED <<configGen, activeGen, lanes>>
      /\ main.phase = "stopped" /\ main'.phase = "loaded" /\ main'.target = main.target
  BY DEF TypeOK, LoadAll, LoadTarget, laneVars, MainState
<1>2. Replacing = Affected(main.target) /\ Replacing' = Affected(main.target)
  BY <1>1 DEF Replacing, Affected
<1>3. CASE LoadAll(ok)
  BY <1>1, <1>2, <1>3 DEF LoadAll, Affected
<1>4. CASE LoadTarget(ok)
  <2>1. Replacing = {main.target} /\ loaded \in [Conns -> Contents]
    BY <1>2, <1>4 DEF LoadTarget, Affected, TypeOK
  <2>2. \A c \in Conns \ Replacing : loaded'[c] = loaded[c] /\ (c \in up' <=> c \in up)
    BY <1>4, <2>1 DEF LoadTarget
  <2> QED
    BY <1>1, <1>2, <2>2
<1> QED
  BY <1>3, <1>4

LEMMA LoadLanes ==
    ASSUME TypeOK, LaneInv, NEW ok \in BOOLEAN, LoadAll(ok) \/ LoadTarget(ok)
    PROVE  LaneInv'
  BY LoadReplaces DEF LaneInv, DriversArePolled

LEMMA StartLanesPolled ==
    ASSUME TypeOK, LaneInv, StartLanes
    PROVE  LaneInv'
<1>1. /\ main \in MainState /\ UNCHANGED <<up, configGen>>
      /\ main.phase = "loaded" /\ main'.phase = "started"
      /\ activeGen' = StartGen(main.target)
      /\ \A c \in Conns : lanes'[c] = IF c \in Affected(main.target)
                                      THEN (IF c \in up THEN StartGen(main.target) ELSE 0)
                                      ELSE lanes[c]
      /\ configGen \in Nat /\ activeGen \in Nat /\ activeGen <= configGen
  BY DEF TypeOK, LaneInv, StartLanes, configVars, MainState, LanesAt
<1>2. Replacing = Affected(main.target) /\ Replacing' = {}
  BY <1>1 DEF Replacing, Affected
<1>3. CASE main.target = NoConn
  <2>1. activeGen' = configGen /\ \A c \in Conns : lanes'[c] = IF c \in up THEN configGen ELSE 0
    BY <1>1, <1>3 DEF StartGen, Affected
  <2> QED
    BY <1>1, <1>2, <2>1 DEF LaneInv, DriversArePolled
<1>4. CASE main.target # NoConn
  <2>1. activeGen' = activeGen
    BY <1>1, <1>4 DEF StartGen
  <2> QED
    BY <1>1, <1>2, <2>1 DEF LaneInv, DriversArePolled, StartGen
<1> QED
  BY <1>3, <1>4

LEMMA FollowLanes ==
    ASSUME TypeOK, LaneInv, FollowGeneration
    PROVE  LaneInv'
<1>1. /\ UNCHANGED <<up, configGen, main>> /\ main.phase = "loop" /\ activeGen' = configGen
      /\ \A c \in Conns : lanes'[c] = IF c \in up THEN configGen ELSE 0
      /\ configGen \in Nat
  BY DEF TypeOK, FollowGeneration, configVars, LanesAt
<1>2. Replacing' = {}
  BY <1>1 DEF Replacing
<1> QED
  BY <1>1, <1>2 DEF LaneInv, DriversArePolled

LEMMA ExitLanes ==
    ASSUME TypeOK, LaneInv, NEW k \in Conns, LaneExit(k)
    PROVE  LaneInv'
<1>1. /\ UNCHANGED <<up, configGen, activeGen, main>> /\ lanes \in [Conns -> Nat]
      /\ lanes[k] \notin {0, configGen} /\ lanes' = [lanes EXCEPT ![k] = 0]
  BY DEF TypeOK, LaneExit, configVars
<1>2. Replacing' = Replacing
  BY <1>1 DEF Replacing, Affected
<1>3. configGen # activeGen
  BY <1>1 DEF LaneInv
<1> QED
  BY <1>1, <1>2, <1>3 DEF LaneInv, DriversArePolled

LEMMA RestartLanes ==
    ASSUME RestartService
    PROVE  LaneInv'
<1>1. /\ configGen' = 1 /\ activeGen' = 1 /\ main'.phase = "loop"
      /\ up' = {c \in Conns : Builds(files[c])}
      /\ \A c \in Conns : lanes'[c] = IF Builds(files[c]) THEN 1 ELSE 0
  BY DEF RestartService, Looping
<1>2. Replacing' = {}
  BY <1>1 DEF Replacing
<1> QED
  BY <1>1, <1>2 DEF LaneInv, DriversArePolled

LEMMA PollInvInductive == (Init => PollInv) /\ (PollInv /\ [Next]_vars => PollInv')
<1>1. Init => PollInv
  <2> SUFFICES ASSUME Init PROVE LaneInv
    BY InitTyped DEF PollInv
  <2>1. /\ configGen = 1 /\ activeGen = 1 /\ main.phase = "loop"
        /\ \A c \in Conns : lanes[c] = IF c \in up THEN 1 ELSE 0
    BY DEF Init, Looping
  <2>2. Replacing = {}
    BY <2>1 DEF Replacing
  <2> QED
    BY <2>1, <2>2 DEF LaneInv, DriversArePolled
<1>2. PollInv /\ [Next]_vars => PollInv'
  <2> SUFFICES ASSUME PollInv, [Next]_vars PROVE LaneInv'
    BY NextTyped DEF PollInv
  <2>0. TypeOK /\ LaneInv /\ main \in MainState
    BY DEF PollInv, TypeOK
  <2>1. ASSUME NEW c \in Conns, RequestRecovery(c) \/ \E v \in Contents : Save(c, v)
        PROVE  LaneInv'
    BY <2>0, <2>1, FrameLanes DEF RequestRecovery, Save, configVars, laneVars
  <2>2. ASSUME NEW h \in Callers,
               (\E c \in Conns : PostReloadConnection(h, c)) \/ CallerStep(h) \/ GiveUp(h)
        PROVE  LaneInv'
    BY <2>0, <2>2, FrameLanes
    DEF PostReloadConnection, CallerStep, Submit, AnswerDone, AnswerPending, FollowExisting,
        PollStatus, GiveUp, configVars, laneVars
  <2>3. ASSUME TakeReload \/ CaptureSaved \/ MarkApplied \/ FinishReload PROVE LaneInv'
    <3>1. UNCHANGED <<up, configGen, activeGen, lanes>>
      BY <2>3 DEF TakeReload, CaptureSaved, MarkApplied, FinishReload, configVars, laneVars
    <3>2. main.phase \notin {"stopped", "loaded"} /\ main'.phase \notin {"stopped", "loaded"}
      <4>1. CASE TakeReload \/ CaptureSaved \/ MarkApplied
        BY <2>0, <4>1 DEF TakeReload, CaptureSaved, MarkApplied, MainState
      <4>2. CASE FinishReload
        BY <4>2 DEF FinishReload, Looping
      <4> QED
        BY <2>3, <4>1, <4>2
    <3> QED
      BY <2>0, <3>1, <3>2, FrameLanes
  <2>4. CASE UNCHANGED vars
    BY <2>0, <2>4, FrameLanes DEF vars, configVars, laneVars
  <2> QED
    BY <2>0, <2>1, <2>2, <2>3, <2>4, NumberLanes, StopLanesPolled, LoadLanes, StartLanesPolled,
       FollowLanes, ExitLanes, RestartLanes DEF Next, MainStep
<1> QED
  BY <1>1, <1>2

(* For any connections, callers and restarts: once the main loop has taken  *)
(* up the current generation, exactly the drivers that exist and are not    *)
(* being replaced are polled, by lanes of that generation.                  *)
THEOREM LaneInvariant == Spec => []DriversArePolled
<1>1. PollInv => DriversArePolled
  BY DEF PollInv, LaneInv
<1> QED
  BY <1>1, PollInvInductive, PTL DEF Spec

(* Without a restart of the process no driver changes while a lane of its   *)
(* connection runs: what the loads change was stopped before, and nothing   *)
(* starts it again before the reload does.                                  *)
THEOREM DriversReplacedWhenStopped == Spec => ReplacedWhenStopped
<1> DEFINE Kept == restarts' = restarts =>
                     \A c \in Conns : lanes[c] # 0 =>
                         loaded'[c] = loaded[c] /\ (c \in up' <=> c \in up)
<1>1. PollInv /\ [Next]_vars => [Kept]_vars
  <2> SUFFICES ASSUME PollInv, Next PROVE Kept
    OBVIOUS
  <2>0. TypeOK /\ LaneInv /\ restarts \in Nat
    BY DEF PollInv, TypeOK
  <2>1. ASSUME NEW ok \in BOOLEAN, LoadAll(ok) \/ LoadTarget(ok) PROVE Kept
    BY <2>0, <2>1, LoadReplaces DEF LaneInv
  <2>2. ASSUME RestartService PROVE Kept
    <3>1. restarts' = restarts + 1
      BY <2>2 DEF RestartService
    <3> QED
      BY <2>0, <3>1
  <2>3. ASSUME UNCHANGED <<loaded, up>> PROVE Kept
    BY <2>3
  <2>4. ASSUME NEW c \in Conns,
               RequestRecovery(c) \/ LaneExit(c) \/ \E v \in Contents : Save(c, v)
        PROVE  Kept
    BY <2>3, <2>4 DEF RequestRecovery, LaneExit, Save, configVars
  <2>5. ASSUME NEW h \in Callers,
               PostReload(h) \/ (\E c \in Conns : PostReloadConnection(h, c)) \/ CallerStep(h)
               \/ GiveUp(h)
        PROVE  Kept
    BY <2>3, <2>5
    DEF PostReload, PostReloadConnection, CallerStep, Submit, AnswerDone, AnswerPending,
        FollowExisting, PollStatus, GiveUp, configVars
  <2>6. ASSUME \/ TakeReload \/ CaptureSaved \/ StopLanes \/ StartLanes \/ MarkApplied
               \/ FinishReload \/ FollowGeneration
        PROVE  Kept
    BY <2>3, <2>6
    DEF TakeReload, CaptureSaved, StopLanes, StartLanes, MarkApplied, FinishReload,
        FollowGeneration, configVars
  <2> HIDE DEF Kept
  <2> QED
    BY <2>1, <2>2, <2>4, <2>5, <2>6 DEF Next, MainStep
<1> QED
  BY <1>1, PollInvInductive, PTL DEF Spec, ReplacedWhenStopped

-----------------------------------------------------------------------------
(* The service.  The reload under way is the one in the slot, and how a    *)
(* caller's reload ended is recorded when it leaves the slot, not before.  *)
OwnInv ==
    /\ main.phase # "loop" => main.target = slot.target
    /\ \A h \in Callers :
         /\ caller[h].phase \in {"idle", "numbered"} => outcome[h] = "none" /\ slot.by # h
         /\ slot.by = h /\ SlotBusy => outcome[h] = "none"
         /\ slot.by = h /\ ~SlotBusy => outcome[h] # "none"

ServiceInv == AnswerInv /\ OwnInv

LEMMA OwnInit == Init => OwnInv
<1> SUFFICES ASSUME Init PROVE OwnInv
  OBVIOUS
<1>1. main.phase = "loop" /\ slot.by = Nobody
  BY DEF Init, Looping, EmptySlot
<1> QED
  BY <1>1, RuntimeReloadAssumption DEF Init, OwnInv

(* Steps of callers that put nothing into the slot.                        *)
LEMMA FrameOwn ==
    ASSUME OwnInv, UNCHANGED <<slot, outcome, main>>,
           \A h \in Callers : caller'[h].phase \in {"idle", "numbered"}
                                => caller[h].phase \in {"idle", "numbered"}
    PROVE  OwnInv'
  BY DEF OwnInv, SlotBusy

(* A caller leaves the slot alone: it takes a number, is told or gives up, *)
(* or is refused.                                                          *)
CallerOnly(h) ==
    \/ PostReload(h) \/ (\E c \in Conns : PostReloadConnection(h, c))
    \/ AnswerDone(h) \/ AnswerPending(h) \/ FollowExisting(h) \/ PollStatus(h) \/ GiveUp(h)
    \/ Submit(h) /\ SlotBusy

LEMMA CallerOnlyKeeps ==
    ASSUME TypeOK, NEW h \in Callers, CallerOnly(h)
    PROVE  /\ UNCHANGED <<files, loaded, slot, outcome, main>>
           /\ \A k \in Callers : caller'[k].phase \in {"idle", "numbered"}
                                  => caller[k].phase \in {"idle", "numbered"}
<1>1. UNCHANGED <<files, loaded, slot, outcome, main>>
  BY DEF CallerOnly, PostReload, PostReloadConnection, AnswerDone, AnswerPending,
         FollowExisting, PollStatus, GiveUp, Submit, configVars
<1>2. caller \in [Callers -> CallerState]
  BY DEF TypeOK
<1>3. \A k \in Callers \ {h} : caller'[k] = caller[k]
  BY <1>2 DEF CallerOnly, PostReload, PostReloadConnection, AnswerDone, AnswerPending,
              FollowExisting, PollStatus, GiveUp, Submit, Told
<1>4. CASE PostReload(h) \/ \E c \in Conns : PostReloadConnection(h, c)
  <2>1. caller[h].phase = "idle"
    BY <1>4 DEF PostReload, PostReloadConnection
  <2> QED
    BY <1>1, <1>3, <2>1
<1>5. CASE AnswerDone(h) \/ AnswerPending(h) \/ PollStatus(h) \/ GiveUp(h)
           \/ (Submit(h) /\ SlotBusy)
  <2>1. caller'[h].phase \in {"answered", "polling", "refused"}
    BY <1>2, <1>5 DEF AnswerDone, AnswerPending, PollStatus, GiveUp, Submit, Told, CallerState
  <2> QED
    BY <1>1, <1>3, <2>1
<1>6. CASE FollowExisting(h)
  <2>1. caller'[h].phase \in {"answered", "polling"}
    BY <1>2, <1>6 DEF FollowExisting, Told, CallerState
  <2> QED
    BY <1>1, <1>3, <2>1
<1> QED
  <2>1. \A k \in Callers : caller'[k].phase \in {"idle", "numbered"}
                           => caller[k].phase \in {"idle", "numbered"}
    BY <1>4, <1>5, <1>6 DEF CallerOnly
  <2> QED
    BY <1>1, <2>1

(* A request enters the free slot.                                         *)
LEMMA AcceptOwn ==
    ASSUME ServiceInv, ~SlotBusy, NEW g, NEW t, NEW who,
           slot' = Request(g, t, who), UNCHANGED <<main, outcome>>,
           \A h \in Callers : h = who => outcome[h] = "none",
           \A h \in Callers : caller'[h].phase \in {"idle", "numbered"} =>
                                h # who /\ caller'[h] = caller[h]
    PROVE  OwnInv'
<1>1. slot'.by = who /\ slot'.requested
  BY DEF Request
<1>2. main.phase = "loop"
  BY DEF ServiceInv, AnswerInv, SlotInv, SlotBusy
<1>3. SlotBusy'
  BY <1>1 DEF SlotBusy
<1> QED
  BY <1>1, <1>2, <1>3 DEF ServiceInv, OwnInv

LEMMA SubmitAccepts ==
    ASSUME ServiceInv, NEW h \in Callers, Submit(h), ~SlotBusy
    PROVE  /\ slot' = Request(caller[h].gen, caller[h].target, h)
           /\ UNCHANGED <<main, outcome, files, loaded>> /\ outcome[h] = "none"
           /\ caller'[h].phase = "waiting" /\ \A k \in Callers \ {h} : caller'[k] = caller[k]
<1>1. caller \in [Callers -> CallerState]
  BY DEF ServiceInv, AnswerInv, TypeOK
<1>2. caller' = [caller EXCEPT ![h].phase = "waiting"]
  BY DEF Submit
<1>3. caller'[h].phase = "waiting" /\ \A k \in Callers \ {h} : caller'[k] = caller[k]
  BY <1>1, <1>2 DEF CallerState
<1>4. caller[h].phase = "numbered"
  BY DEF Submit
<1>5. slot' = Request(caller[h].gen, caller[h].target, h) /\ UNCHANGED <<main, outcome, files, loaded>>
  BY DEF Submit, configVars
<1>6. outcome[h] = "none"
  BY <1>4 DEF ServiceInv, OwnInv
<1> QED
  BY <1>3, <1>5, <1>6

LEMMA OwnNext == ServiceInv /\ [Next]_vars => OwnInv'
<1> SUFFICES ASSUME ServiceInv, [Next]_vars PROVE OwnInv'
  OBVIOUS
<1>0. /\ TypeOK /\ OwnInv /\ main \in MainState /\ slot \in Slot
      /\ caller \in [Callers -> CallerState] /\ outcome \in [Callers -> Outcome]
  BY DEF ServiceInv, AnswerInv, TypeOK
<1>1. ASSUME NEW c \in Conns, RequestRecovery(c) PROVE OwnInv'
  <2>1. /\ slot' = Request(requestGen + 1, c, Recovery) /\ UNCHANGED <<main, outcome, caller>>
        /\ ~SlotBusy
    BY <1>1 DEF RequestRecovery
  <2> QED
    BY <2>1, AcceptOwn, RuntimeReloadAssumption
<1>2. ASSUME NEW h \in Callers, Submit(h), ~SlotBusy PROVE OwnInv'
  BY <1>2, SubmitAccepts, AcceptOwn
<1>3. ASSUME NEW h \in Callers, CallerOnly(h) PROVE OwnInv'
  BY <1>0, <1>3, CallerOnlyKeeps, FrameOwn
<1>4. ASSUME \/ FollowGeneration \/ UNCHANGED vars
             \/ \E c \in Conns : LaneExit(c) \/ \E v \in Contents : Save(c, v)
      PROVE  OwnInv'
  <2>1. UNCHANGED <<slot, outcome, main, caller>>
    BY <1>4 DEF FollowGeneration, LaneExit, Save, vars
  <2> QED
    BY <1>0, <2>1, FrameOwn
<1>5. ASSUME TakeReload PROVE OwnInv'
  <2>1. /\ main'.target = slot.target /\ slot'.target = slot.target /\ slot'.by = slot.by
        /\ SlotBusy /\ slot'.requested /\ UNCHANGED <<caller, outcome>>
    BY <1>0, <1>5 DEF TakeReload, MainState, Slot, SlotBusy
  <2> QED
    BY <1>0, <2>1 DEF OwnInv, SlotBusy
<1>6. ASSUME CaptureSaved \/ StopLanes \/ StartLanes \/ MarkApplied
             \/ \E ok \in BOOLEAN : LoadAll(ok) \/ LoadTarget(ok)
      PROVE  OwnInv'
  <2>1. /\ UNCHANGED <<slot, caller, outcome>> /\ main'.target = main.target
        /\ main.phase # "loop"
    BY <1>0, <1>6
    DEF CaptureSaved, StopLanes, StartLanes, MarkApplied, LoadAll, LoadTarget, MainState
  <2> QED
    BY <1>0, <2>1 DEF OwnInv, SlotBusy
<1>7. ASSUME FinishReload PROVE OwnInv'
  <2>1. /\ main'.phase = "loop" /\ slot'.by = slot.by /\ caller' = caller
        /\ ~slot'.requested /\ ~slot'.inProgress
    BY <1>0, <1>7 DEF FinishReload, Looping, Slot
  <2>2. \A h \in Callers : IF h = slot.by THEN outcome'[h] # "none" ELSE outcome'[h] = outcome[h]
    BY <1>7 DEF FinishReload
  <2> QED
    BY <1>0, <2>1, <2>2 DEF OwnInv, SlotBusy
<1>8. ASSUME RestartService PROVE OwnInv'
  <2>1. main'.phase = "loop" /\ slot'.by = Nobody
    BY <1>8 DEF RestartService, Looping, EmptySlot
  <2>2. \A h \in Callers : h # slot.by => outcome'[h] = outcome[h]
    BY <1>8 DEF RestartService
  <2>3. \A h \in Callers : caller'[h].phase \in {"idle", "numbered"} => caller[h].phase = "idle"
    <3> SUFFICES ASSUME NEW h \in Callers, caller'[h].phase \in {"idle", "numbered"}
                 PROVE  caller[h].phase = "idle"
      OBVIOUS
    <3>1. caller'[h] = IF caller[h].phase \in {"numbered", "waiting"}
                       THEN [caller[h] EXCEPT !.phase = "answered", !.answer = "lost"]
                       ELSE caller[h]
      BY <1>8 DEF RestartService
    <3>2. caller[h] \in CallerState
      BY <1>0
    <3> QED
      BY <3>1, <3>2 DEF CallerState
  <2> QED
    BY <1>0, <2>1, <2>2, <2>3, RuntimeReloadAssumption DEF OwnInv
<1> QED
  BY <1>1, <1>2, <1>3, <1>4, <1>5, <1>6, <1>7, <1>8 DEF Next, MainStep, CallerStep, CallerOnly

(* What the abstract service does not see.                                 *)
LEMMA ServiceStutters ==
    ASSUME UNCHANGED <<files, loaded, outcome>>, SlotBusy' = SlotBusy,
           slot'.by = slot.by, slot'.target = slot.target, Rebuilt' = Rebuilt
    PROVE  UNCHANGED Service!vars
<1>1. Job' = Job
  BY DEF Job, Affected
<1> QED
  BY <1>1 DEF Service!vars

LEMMA AcceptIsAccept ==
    ASSUME ServiceInv, ~SlotBusy, NEW g, NEW t \in Targets, NEW who \in Callers \cup {Recovery},
           slot' = Request(g, t, who), UNCHANGED <<main, outcome, files, loaded>>,
           who \in Callers => outcome[who] = "none"
    PROVE  Service!Next
<1>1. main.phase = "loop" /\ main' = main
  BY DEF ServiceInv, AnswerInv, SlotInv, SlotBusy
<1>2. Rebuilt' = {}
  BY <1>1 DEF Rebuilt
<1>3. slot'.by = who /\ slot'.requested /\ slot'.target = t
  BY DEF Request
<1>4. Job = {} /\ Job' = {[by |-> who, conns |-> Affected(t), fresh |-> {}]}
  BY <1>2, <1>3 DEF Job, SlotBusy, Affected
<1>5. Service!Accept(who, Affected(t))
  BY <1>4 DEF Service!Accept
<1>6. Affected(t) = Conns \/ \E c \in Conns : Affected(t) = {c}
  BY DEF Affected, Targets
<1> QED
  BY <1>5, <1>6 DEF Service!Next

(* A load rebuilds its connections from the files as they are now.         *)
LEMMA LoadIsRebuild ==
    ASSUME ServiceInv, NEW ok \in BOOLEAN, LoadAll(ok) \/ LoadTarget(ok)
    PROVE  Service!Next \/ UNCHANGED Service!vars
<1>1. /\ main \in MainState /\ slot \in Slot /\ loaded \in [Conns -> Contents]
      /\ files \in [Conns -> Contents]
  BY DEF ServiceInv, AnswerInv, TypeOK
<1>2. /\ UNCHANGED <<files, outcome, slot>> /\ main.phase = "stopped"
      /\ main'.phase = "loaded" /\ main'.target = main.target
  BY <1>1 DEF LoadAll, LoadTarget, MainState
<1>3. main.target = slot.target /\ SlotBusy /\ SlotBusy'
  BY <1>2 DEF ServiceInv, AnswerInv, SlotInv, OwnInv, SlotBusy
<1> DEFINE cs == Affected(main.target)
<1>4. cs \subseteq Conns
  BY <1>1, AffectedConns
<1>5. Rebuilt = {} /\ Rebuilt' = IF main'.ok THEN cs ELSE {}
  BY <1>2 DEF Rebuilt, Affected
<1>6. /\ Job = {[by |-> slot.by, conns |-> cs, fresh |-> {}]}
      /\ Job' = {[by |-> slot.by, conns |-> cs, fresh |-> Rebuilt']}
  BY <1>2, <1>3, <1>5 DEF Job, Affected
<1>7. CASE loaded' = [c \in Conns |-> IF c \in cs THEN files[c] ELSE loaded[c]]
  <2>1. PICK new : new = Rebuilt'
    OBVIOUS
  <2>2. new \in SUBSET cs
    BY <1>5, <2>1
  <2>3. PICK j \in Job : j = [by |-> slot.by, conns |-> cs, fresh |-> {}]
    BY <1>6
  <2> HIDE DEF cs
  <2>4. j.conns = cs /\ [j EXCEPT !.fresh = @ \cup new] = [by |-> slot.by, conns |-> cs, fresh |-> new]
    BY <2>3
  <2>5. Job' = {[j EXCEPT !.fresh = @ \cup new]}
    BY <1>6, <2>1, <2>4
  <2>6. Service!Rebuild(cs, new)
    BY <1>2, <1>7, <2>2, <2>4, <2>5 DEF Service!Rebuild
  <2> QED
    BY <1>4, <2>2, <2>6 DEF Service!Next
<1>8. CASE loaded' = loaded /\ ~main'.ok
  <2>1. UNCHANGED Service!vars
    BY <1>2, <1>3, <1>5, <1>8, ServiceStutters
  <2> QED
    BY <2>1
<1>9. CASE LoadAll(ok)
  <2>1. loaded' = files /\ cs = Conns
    BY <1>9 DEF LoadAll, Affected
  <2>2. loaded' = [c \in Conns |-> files[c]]
    BY <1>1, <2>1
  <2> QED
    BY <1>7, <2>1, <2>2
<1>10. CASE LoadTarget(ok) /\ TargetLoads(main.target)
  <2>1. loaded' = [loaded EXCEPT ![main.target] = files[main.target]] /\ cs = {main.target}
    BY <1>10 DEF LoadTarget, Affected
  <2> QED
    BY <1>1, <1>7, <2>1
<1>11. CASE LoadTarget(ok) /\ ~TargetLoads(main.target)
  <2>1. loaded' = loaded /\ ~main'.ok
    BY <1>1, <1>11 DEF LoadTarget, MainState
  <2> QED
    BY <1>8, <2>1
<1> QED
  BY <1>9, <1>10, <1>11

LEMMA FinishIsEnd ==
    ASSUME ServiceInv, FinishReload
    PROVE  Service!Next
<1>1. /\ main \in MainState /\ slot \in Slot /\ main.phase = "applied"
      /\ UNCHANGED <<files, loaded>>
  BY DEF ServiceInv, AnswerInv, TypeOK, FinishReload, configVars
<1>2. main.target = slot.target /\ SlotBusy
  BY <1>1 DEF ServiceInv, AnswerInv, SlotInv, OwnInv, SlotBusy
<1>3. ~SlotBusy'
  BY <1>1 DEF FinishReload, Slot, SlotBusy
<1>4. Job' = {}
  BY <1>3 DEF Job
<1>5. PICK j \in Job : j = [by |-> slot.by, conns |-> Affected(slot.target), fresh |-> Rebuilt]
  BY <1>2 DEF Job
<1>6. main.ok => j.fresh = j.conns
  BY <1>1, <1>2, <1>5 DEF Rebuilt
<1>7. outcome' = [h \in Callers |-> IF h # j.by THEN outcome[h]
                                    ELSE IF main.ok THEN "ok" ELSE "failed"]
  BY <1>5 DEF FinishReload
<1>8. PICK ok \in BOOLEAN : ok = main.ok
  BY <1>1 DEF MainState
<1>9. Service!End(ok)
  BY <1>1, <1>4, <1>6, <1>7, <1>8 DEF Service!End
<1> QED
  BY <1>9 DEF Service!Next

LEMMA RestartIsRestart ==
    ASSUME ServiceInv, RestartService
    PROVE  Service!Next
<1>1. slot' = EmptySlot /\ loaded' = files /\ files' = files
  BY DEF RestartService
<1>2. Job' = {}
  BY <1>1 DEF Job, SlotBusy, EmptySlot
<1>3. ASSUME NEW h \in Callers
      PROVE  IF \E j \in Job : j.by = h THEN h = slot.by /\ outcome[h] = "none"
                                       ELSE ~(h = slot.by /\ outcome[h] = "none")
  <2>1. CASE SlotBusy
    <3>1. PICK k : k = [by |-> slot.by, conns |-> Affected(slot.target), fresh |-> Rebuilt]
      OBVIOUS
    <3>2. Job = {k} /\ k.by = slot.by
      BY <2>1, <3>1 DEF Job
    <3>3. h = slot.by => outcome[h] = "none"
      BY <2>1 DEF ServiceInv, OwnInv
    <3> QED
      BY <3>2, <3>3
  <2>2. CASE ~SlotBusy
    <3>1. Job = {} /\ (h = slot.by => outcome[h] # "none")
      BY <2>2 DEF ServiceInv, OwnInv, Job
    <3> QED
      BY <3>1
  <2> QED
    BY <2>1, <2>2
<1>4. outcome' = [h \in Callers |-> IF \E j \in Job : j.by = h THEN "restarted" ELSE outcome[h]]
  BY <1>3 DEF RestartService
<1> QED
  BY <1>1, <1>2, <1>4 DEF Service!Next, Service!Restart

LEMMA ServiceNext ==
    ServiceInv /\ [Next]_vars => [Service!Next]_(Service!vars)
<1> SUFFICES ASSUME ServiceInv, [Next]_vars PROVE Service!Next \/ UNCHANGED Service!vars
  OBVIOUS
<1>0. TypeOK /\ main \in MainState /\ slot \in Slot /\ caller \in [Callers -> CallerState]
  BY DEF ServiceInv, AnswerInv, TypeOK
<1>1. ASSUME NEW c \in Conns, RequestRecovery(c) PROVE Service!Next
  <2>1. /\ slot' = Request(requestGen + 1, c, Recovery) /\ ~SlotBusy
        /\ UNCHANGED <<main, outcome, files, loaded>>
    BY <1>1 DEF RequestRecovery, configVars
  <2>2. c \in Targets /\ Recovery \in Callers \cup {Recovery} /\ Recovery \notin Callers
    BY RuntimeReloadAssumption DEF Targets
  <2> QED
    BY <2>1, <2>2, AcceptIsAccept
<1>2. ASSUME NEW h \in Callers, Submit(h), ~SlotBusy PROVE Service!Next
  <2>1. caller[h].target \in Targets
    BY <1>0 DEF CallerState
  <2> QED
    BY <1>2, <2>1, SubmitAccepts, AcceptIsAccept
<1>3. ASSUME UNCHANGED <<files, loaded, slot, outcome, main>> PROVE UNCHANGED Service!vars
  <2>1. Rebuilt' = Rebuilt /\ SlotBusy' = SlotBusy
    BY <1>3 DEF Rebuilt, Affected, SlotBusy
  <2> QED
    BY <1>3, <2>1, ServiceStutters
<1>4. ASSUME NEW h \in Callers, CallerOnly(h) PROVE UNCHANGED Service!vars
  BY <1>0, <1>3, <1>4, CallerOnlyKeeps
<1>5. ASSUME FollowGeneration \/ (\E c \in Conns : LaneExit(c)) \/ UNCHANGED vars
      PROVE  UNCHANGED Service!vars
  BY <1>3, <1>5 DEF FollowGeneration, LaneExit, vars, configVars
<1>6. ASSUME NEW c \in Conns, NEW v \in Contents, Save(c, v) PROVE Service!Next
  <2>1. Job' = Job
    BY <1>6 DEF Save, Job, SlotBusy, Affected, Rebuilt
  <2>2. Service!Save(c, v)
    BY <1>6, <2>1 DEF Save, Service!Save, configVars
  <2> QED
    BY <2>2 DEF Service!Next
<1>7. ASSUME TakeReload \/ CaptureSaved \/ StopLanes PROVE UNCHANGED Service!vars
  <2>1. /\ UNCHANGED <<files, loaded, outcome>> /\ slot'.by = slot.by
        /\ slot'.target = slot.target /\ SlotBusy' = SlotBusy
    BY <1>0, <1>7 DEF TakeReload, CaptureSaved, StopLanes, configVars, Slot, SlotBusy
  <2>2. /\ main.phase \notin {"loaded", "started", "applied"}
        /\ main'.phase \notin {"loaded", "started", "applied"}
    BY <1>0, <1>7 DEF TakeReload, CaptureSaved, StopLanes, MainState
  <2>3. Rebuilt' = Rebuilt
    BY <2>2 DEF Rebuilt
  <2> QED
    BY <2>1, <2>3, ServiceStutters
<1>8. ASSUME StartLanes \/ MarkApplied PROVE UNCHANGED Service!vars
  <2>1. UNCHANGED <<files, loaded, outcome, slot>>
    BY <1>8 DEF StartLanes, MarkApplied, configVars
  <2>2. /\ main.phase \in {"loaded", "started", "applied"} /\ main'.ok = main.ok
        /\ main'.phase \in {"loaded", "started", "applied"} /\ main'.target = main.target
    BY <1>0, <1>8 DEF StartLanes, MarkApplied, MainState
  <2>3. Rebuilt' = Rebuilt /\ SlotBusy' = SlotBusy
    BY <2>1, <2>2 DEF Rebuilt, Affected, SlotBusy
  <2> QED
    BY <2>1, <2>3, ServiceStutters
<1> QED
  BY <1>1, <1>2, <1>4, <1>5, <1>6, <1>7, <1>8, LoadIsRebuild, FinishIsEnd, RestartIsRestart
  DEF Next, MainStep, CallerStep, CallerOnly

(* For any connections, callers, contents and restarts: the slot, the main *)
(* loop and the handlers together are the abstract service.                *)
THEOREM ReloadImplementsService == Spec => ImplementsReloadService
<1>1. Init => Service!Init
  <2> SUFFICES ASSUME Init PROVE Service!Init
    OBVIOUS
  <2>1. files \in [Conns -> Contents]
    BY RuntimeReloadAssumption DEF Init, Contents
  <2>2. Job = {}
    BY DEF Init, Job, SlotBusy, EmptySlot
  <2> QED
    BY <2>1, <2>2 DEF Init, Service!Init
<1>2. Init => ServiceInv
  BY AnswerInvInductive, OwnInit DEF ServiceInv
<1>3. ServiceInv /\ [Next]_vars => ServiceInv'
  BY AnswerInvInductive, OwnNext DEF ServiceInv
<1> QED
  BY <1>1, <1>2, <1>3, ServiceNext, PTL DEF Spec, ImplementsReloadService, Service!Spec
=============================================================================
