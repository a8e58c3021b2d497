--------------------------- MODULE Automation_proof ---------------------------
(* Proofs about the queue of asynchronous writes, for every number of tags   *)
(* and values, and about the automation scheduler, for every logic.json.      *)
EXTENDS Automation, TLAPS

(***************************************************************************)
(* The queue: every entry has exactly one owner                            *)
(***************************************************************************)

(* An entry being written is not queued too: FinishJob may erase it without  *)
(* leaving its key behind.                                                   *)
OneOwner == \A t \in Tags :
    ~(logicAsyncWrites[t].queued /\ logicAsyncWrites[t].in_progress)

(* An entry that waits or is being written holds a value; an erased one none. *)
ValueWhileOwned == \A t \in Tags :
    logicAsyncWrites[t].value # NoValue <=>
        logicAsyncWrites[t].queued \/ logicAsyncWrites[t].in_progress

QueueInv == QueueTypeOK /\ EntryIsServed /\ OneOwner /\ ValueWhileOwned

LEMMA QueueInitInv == QueueInit => QueueInv
BY QueueConstants DEF QueueInit, QueueInv, QueueTypeOK, EntryIsServed, OneOwner,
                      ValueWhileOwned, NoEntry, NoJob, Entry

LEMMA EntryFields ==
    \A e, x, q, p : e = [value |-> x, queued |-> q, in_progress |-> p] =>
        e.value = x /\ e.queued = q /\ e.in_progress = p
OBVIOUS

LEMMA EnqueueInv ==
    ASSUME QueueInv, NEW t \in Tags, NEW v \in Values, Enqueue(t, v)
    PROVE  QueueInv'
<1> DEFINE w == logicAsyncWrites
           r == logicAsyncWriteReady
           idle == ~w[t].queued /\ ~w[t].in_progress
<1> USE DEF QueueInv
<1>1. w \in [Tags -> Entry] /\ w[t] \in Entry
  BY DEF QueueTypeOK
<1>2. w' = [w EXCEPT ![t] = [value |-> v, queued |-> w[t].queued \/ idle,
                             in_progress |-> w[t].in_progress]]
  BY DEF Enqueue
<1>3. /\ w'[t] = [value |-> v, queued |-> w[t].queued \/ idle,
                  in_progress |-> w[t].in_progress]
      /\ \A u \in Tags \ {t} : w'[u] = w[u]
  BY <1>1, <1>2
<1>3b. w'[t] \in Entry
  BY <1>1, <1>3 DEF Entry
<1>3a. /\ w'[t].queued = (w[t].queued \/ idle)
       /\ w'[t].in_progress = w[t].in_progress
       /\ w'[t].value = v
  <2>1. w'[t].queued = (w[t].queued \/ idle)
    BY <1>3, EntryFields
  <2>2. w'[t].in_progress = w[t].in_progress
    BY <1>3, EntryFields
  <2>3. w'[t].value = v
    BY <1>3, EntryFields
  <2> QED BY <2>1, <2>2, <2>3, Zenon
<1>4. QueueTypeOK'
  BY <1>1, <1>2, <1>3, <1>3b DEF QueueTypeOK, Enqueue
<1>5. OneOwner' /\ ValueWhileOwned'
  <2> SUFFICES ASSUME NEW u \in Tags
               PROVE  /\ ~(w'[u].queued /\ w'[u].in_progress)
                      /\ w'[u].value # NoValue <=> w'[u].queued \/ w'[u].in_progress
    BY DEF OneOwner, ValueWhileOwned
  <2>1. ~(w[u].queued /\ w[u].in_progress)
    BY DEF OneOwner
  <2>2. CASE u = t
    BY <1>3a, <2>1, <2>2, QueueConstants
  <2>3. CASE u # t
    BY <1>3, <2>1, <2>3 DEF ValueWhileOwned
  <2> QED BY <2>2, <2>3
<1>6. CASE idle
  <2>1. r' = Append(r, t) /\ r \in Seq(Tags) /\ job' = job
    BY <1>6 DEF Enqueue, QueueTypeOK
  <2>2. /\ Len(r') = Len(r) + 1 /\ Len(r) \in Nat /\ r'[Len(r) + 1] = t
        /\ \A i \in 1..Len(r) : r'[i] = r[i]
    BY <2>1
  <2>3. \A i \in 1..Len(r) : r[i] # t
    BY <1>6 DEF EntryIsServed
  <2>4. \A u \in Tags : w'[u].queued <=> \E i \in 1..Len(r') : r'[i] = u
    <3> SUFFICES ASSUME NEW u \in Tags
                 PROVE  w'[u].queued <=> \E i \in 1..Len(r') : r'[i] = u
      OBVIOUS
    <3>1. CASE u = t
      <4>1. w'[t].queued
        BY <1>3a, <1>6, Zenon
      <4> QED BY <2>2, <3>1, <4>1
    <3>2. CASE u # t
      BY <1>3, <2>2, <3>2 DEF EntryIsServed
    <3> QED BY <3>1, <3>2
  <2>5. \A i, j \in 1..Len(r') : r'[i] = r'[j] => i = j
    BY <2>2, <2>3 DEF EntryIsServed
  <2>6. \A u \in Tags : /\ w'[u].in_progress <=> job'.key = u
                        /\ w'[u] # NoEntry => w'[u].queued \/ w'[u].in_progress
    <3> SUFFICES ASSUME NEW u \in Tags
                 PROVE  /\ w'[u].in_progress <=> job'.key = u
                        /\ w'[u] # NoEntry => w'[u].queued \/ w'[u].in_progress
      OBVIOUS
    <3>1. w[u].in_progress <=> job.key = u
      BY DEF EntryIsServed
    <3>2. CASE u = t
      BY <1>3a, <1>6, <2>1, <3>1, <3>2
    <3>3. CASE u # t
      BY <1>3, <2>1, <3>1, <3>3 DEF EntryIsServed
    <3> QED BY <3>2, <3>3
  <2> QED BY <1>4, <1>5, <2>4, <2>5, <2>6 DEF EntryIsServed
<1>7. CASE ~idle
  <2>1. r' = r /\ job' = job
    BY <1>7 DEF Enqueue
  <2>2. w'[t].queued = w[t].queued /\ w'[t].in_progress = w[t].in_progress
    <3>1. w[t].queued \in BOOLEAN /\ w[t].in_progress \in BOOLEAN
      BY <1>1 DEF Entry
    <3>2. (w[t].queued \/ idle) = w[t].queued
      BY <1>7, <3>1
    <3> QED BY <1>3a, <3>2
  <2>3. EntryIsServed'
    BY <1>3, <1>7, <2>1, <2>2 DEF EntryIsServed
  <2> QED BY <1>4, <1>5, <2>3
<1> QED BY <1>6, <1>7

LEMMA TakeJobInv == QueueInv /\ TakeJob => QueueInv'
<1> SUFFICES ASSUME QueueInv, TakeJob PROVE QueueInv'
  OBVIOUS
<1> DEFINE w == logicAsyncWrites
           r == logicAsyncWriteReady
           t == Head(r)
<1> USE DEF QueueInv
<1>1. /\ r \in Seq(Tags) /\ r # <<>> /\ w \in [Tags -> Entry]
      /\ job = NoJob /\ r' = Tail(r)
      /\ plc' = plc /\ writeFailures' = writeFailures
  BY DEF QueueTypeOK, TakeJob
<1>2. /\ Len(r) \in Nat \ {0} /\ t = r[1] /\ t \in Tags
      /\ r' \in Seq(Tags) /\ Len(r') = Len(r) - 1
      /\ \A i \in 1..Len(r') : r'[i] = r[i + 1]
  BY <1>1
<1>3. w[t].queued /\ ~w[t].in_progress
  BY <1>2 DEF EntryIsServed, OneOwner
<1>4. w' = [w EXCEPT ![t] = [w[t] EXCEPT !.queued = FALSE, !.in_progress = TRUE]]
  BY DEF TakeJob
<1>5. /\ w'[t] \in Entry /\ w'[t].value = w[t].value
      /\ w'[t].queued = FALSE /\ w'[t].in_progress = TRUE
      /\ \A u \in Tags \ {t} : w'[u] = w[u]
      /\ w' \in [Tags -> Entry]
  BY <1>1, <1>2, <1>4 DEF Entry
<1>6. job' = [pc |-> "write", key |-> t, value |-> w[t].value]
  BY DEF TakeJob
<1>7. w[t].value \in Values
  BY <1>1, <1>2, <1>3 DEF ValueWhileOwned, Entry
<1>8. QueueTypeOK'
  BY <1>1, <1>2, <1>5, <1>6, <1>7 DEF QueueTypeOK, Job
<1>9. OneOwner' /\ ValueWhileOwned'
  BY <1>2, <1>3, <1>5 DEF OneOwner, ValueWhileOwned
<1>10. \A u \in Tags : w'[u].queued <=> \E i \in 1..Len(r') : r'[i] = u
  <2> SUFFICES ASSUME NEW u \in Tags
               PROVE  w'[u].queued <=> \E i \in 1..Len(r') : r'[i] = u
    OBVIOUS
  <2>1. CASE u = t
    <3>1. \A i \in 1..Len(r') : r'[i] # t
      BY <1>2 DEF EntryIsServed
    <3> QED BY <1>5, <2>1, <3>1
  <2>2. CASE u # t
    <3>1. w'[u].queued <=> \E i \in 1..Len(r) : r[i] = u
      BY <1>5, <2>2 DEF EntryIsServed
    <3>2. ASSUME NEW i \in 1..Len(r), r[i] = u
          PROVE  i - 1 \in 1..Len(r') /\ r'[i - 1] = u
      BY <1>2, <2>2, <3>2
    <3>3. ASSUME NEW i \in 1..Len(r'), r'[i] = u
          PROVE  i + 1 \in 1..Len(r) /\ r[i + 1] = u
      BY <1>2, <3>3
    <3> QED BY <3>1, <3>2, <3>3
  <2> QED BY <2>1, <2>2
<1>11. \A i, j \in 1..Len(r') : r'[i] = r'[j] => i = j
  BY <1>2 DEF EntryIsServed
<1>12. \A u \in Tags : /\ w'[u].in_progress <=> job'.key = u
                       /\ w'[u] # NoEntry => w'[u].queued \/ w'[u].in_progress
  <2> SUFFICES ASSUME NEW u \in Tags
               PROVE  /\ w'[u].in_progress <=> job'.key = u
                      /\ w'[u] # NoEntry => w'[u].queued \/ w'[u].in_progress
    OBVIOUS
  <2>1. job'.key = t
    BY <1>6
  <2>2. w[u].in_progress <=> job.key = u
    BY DEF EntryIsServed
  <2>3. ~w[u].in_progress
    BY <1>1, <2>2, QueueConstants DEF NoJob
  <2>4. CASE u = t
    BY <1>5, <2>1, <2>4
  <2>5. CASE u # t
    BY <1>5, <2>1, <2>3, <2>5 DEF EntryIsServed
  <2> QED BY <2>4, <2>5
<1> QED BY <1>8, <1>9, <1>10, <1>11, <1>12 DEF EntryIsServed

LEMMA WriteInv ==
    ASSUME QueueInv, NEW ok \in BOOLEAN,
           \/ WriteTag(ok)
           \/ \E t \in Tags, v \in Values : DirectWrite(t, v, ok)
    PROVE  QueueInv'
<1> USE DEF QueueInv
<1>1. /\ logicAsyncWrites' = logicAsyncWrites
      /\ logicAsyncWriteReady' = logicAsyncWriteReady
      /\ job'.key = job.key
      /\ job' \in Job \cup {NoJob}
  <2>1. CASE WriteTag(ok)
    <3>1. job \in Job
      BY <2>1 DEF WriteTag, QueueTypeOK, NoJob
    <3> QED BY <2>1, <3>1 DEF WriteTag, Job
  <2>2. CASE \E t \in Tags, v \in Values : DirectWrite(t, v, ok)
    BY <2>2 DEF DirectWrite, QueueTypeOK
  <2> QED BY <2>1, <2>2
<1>2. PICK t \in Tags, v \in Values : Perform(t, v, ok)
  <2>1. CASE WriteTag(ok)
    <3>1. job \in Job
      BY <2>1 DEF WriteTag, QueueTypeOK, NoJob
    <3> QED BY <2>1, <3>1 DEF WriteTag, Job
  <2>2. CASE \E t \in Tags, v \in Values : DirectWrite(t, v, ok)
    BY <2>2 DEF DirectWrite
  <2> QED BY <2>1, <2>2
<1>3. plc' \in [Tags -> Values \cup {NoValue}] /\ writeFailures' \in 0..MaxWriteFailures
  BY <1>2, QueueConstants DEF Perform, QueueTypeOK
<1>4. QueueTypeOK'
  BY <1>1, <1>3 DEF QueueTypeOK
<1> QED BY <1>1, <1>4 DEF EntryIsServed, OneOwner, ValueWhileOwned

LEMMA FinishJobInv == QueueInv /\ FinishJob => QueueInv'
<1> SUFFICES ASSUME QueueInv, FinishJob PROVE QueueInv'
  OBVIOUS
<1> DEFINE w == logicAsyncWrites
           r == logicAsyncWriteReady
           t == job.key
<1> USE DEF QueueInv
<1>1. /\ job \in Job /\ t \in Tags /\ job.value \in Values
      /\ r \in Seq(Tags) /\ w \in [Tags -> Entry] /\ job' = NoJob
      /\ plc' = plc /\ writeFailures' = writeFailures
  BY DEF FinishJob, QueueTypeOK, NoJob, Job
<1>2. w[t].in_progress /\ ~w[t].queued
  BY <1>1 DEF EntryIsServed, OneOwner
<1>3. \A u \in Tags \ {t} : ~w[u].in_progress
  BY DEF EntryIsServed
<1>4. \A i \in 1..Len(r) : r[i] # t
  BY <1>1, <1>2 DEF EntryIsServed
<1>5. \A u \in Tags : job'.key # u
  BY <1>1, QueueConstants DEF NoJob
<1>6. CASE w[t].value # job.value
  <2>1. /\ w' = [w EXCEPT ![t] = [w[t] EXCEPT !.in_progress = FALSE, !.queued = TRUE]]
        /\ r' = Append(r, t)
    BY <1>2, <1>6 DEF FinishJob
  <2>2. /\ w'[t] \in Entry /\ w'[t].value = w[t].value
        /\ w'[t].queued = TRUE /\ w'[t].in_progress = FALSE
        /\ \A u \in Tags \ {t} : w'[u] = w[u]
        /\ w' \in [Tags -> Entry]
    BY <1>1, <2>1 DEF Entry
  <2>3. /\ r' \in Seq(Tags) /\ Len(r') = Len(r) + 1 /\ Len(r) \in Nat
        /\ r'[Len(r) + 1] = t /\ \A i \in 1..Len(r) : r'[i] = r[i]
    BY <1>1, <2>1
  <2>4. QueueTypeOK'
    BY <1>1, <2>2, <2>3 DEF QueueTypeOK
  <2>5. OneOwner' /\ ValueWhileOwned'
    BY <1>1, <1>2, <2>2 DEF OneOwner, ValueWhileOwned
  <2>6. \A u \in Tags : w'[u].queued <=> \E i \in 1..Len(r') : r'[i] = u
    <3> SUFFICES ASSUME NEW u \in Tags
                 PROVE  w'[u].queued <=> \E i \in 1..Len(r') : r'[i] = u
      OBVIOUS
    <3>1. CASE u = t
      BY <2>2, <2>3, <3>1
    <3>2. CASE u # t
      BY <2>2, <2>3, <3>2 DEF EntryIsServed
    <3> QED BY <3>1, <3>2
  <2>7. \A i, j \in 1..Len(r') : r'[i] = r'[j] => i = j
    BY <1>4, <2>3 DEF EntryIsServed
  <2>8. \A u \in Tags : /\ w'[u].in_progress <=> job'.key = u
                        /\ w'[u] # NoEntry => w'[u].queued \/ w'[u].in_progress
    <3> SUFFICES ASSUME NEW u \in Tags
                 PROVE  /\ w'[u].in_progress <=> job'.key = u
                        /\ w'[u] # NoEntry => w'[u].queued \/ w'[u].in_progress
      OBVIOUS
    <3>1. CASE u = t
      BY <1>5, <2>2, <3>1
    <3>2. CASE u # t
      BY <1>3, <1>5, <2>2, <3>2 DEF EntryIsServed
    <3> QED BY <3>1, <3>2
  <2> QED BY <2>4, <2>5, <2>6, <2>7, <2>8 DEF EntryIsServed
<1>7. CASE w[t].value = job.value
  <2>1. w' = [w EXCEPT ![t] = NoEntry] /\ r' = r
    BY <1>7 DEF FinishJob
  <2>2. /\ NoEntry \in Entry /\ NoEntry.value = NoValue
        /\ NoEntry.queued = FALSE /\ NoEntry.in_progress = FALSE
    BY DEF NoEntry, Entry
  <2>3. w'[t] = NoEntry /\ (\A u \in Tags \ {t} : w'[u] = w[u]) /\ w' \in [Tags -> Entry]
    BY <1>1, <2>1, <2>2
  <2>4. QueueTypeOK'
    BY <1>1, <2>1, <2>3 DEF QueueTypeOK
  <2>5. OneOwner' /\ ValueWhileOwned'
    BY <1>1, <2>2, <2>3 DEF OneOwner, ValueWhileOwned
  <2>6. \A u \in Tags : w'[u].queued <=> \E i \in 1..Len(r') : r'[i] = u
    <3> SUFFICES ASSUME NEW u \in Tags
                 PROVE  w'[u].queued <=> \E i \in 1..Len(r) : r[i] = u
      BY <2>1
    <3>1. CASE u = t
      BY <1>4, <2>2, <2>3, <3>1
    <3>2. CASE u # t
      BY <2>3, <3>2 DEF EntryIsServed
    <3> QED BY <3>1, <3>2
  <2>7. \A u \in Tags : /\ w'[u].in_progress <=> job'.key = u
                        /\ w'[u] # NoEntry => w'[u].queued \/ w'[u].in_progress
    <3> SUFFICES ASSUME NEW u \in Tags
                 PROVE  /\ w'[u].in_progress <=> job'.key = u
                        /\ w'[u] # NoEntry => w'[u].queued \/ w'[u].in_progress
      OBVIOUS
    <3>1. CASE u = t
      BY <1>5, <2>2, <2>3, <3>1
    <3>2. CASE u # t
      BY <1>3, <1>5, <2>3, <3>2 DEF EntryIsServed
    <3> QED BY <3>1, <3>2
  <2> QED BY <2>1, <2>4, <2>5, <2>6, <2>7 DEF EntryIsServed
<1> QED BY <1>6, <1>7

LEMMA QueueInductive == QueueInv /\ [QueueNext]_queueVars => QueueInv'
<1> SUFFICES ASSUME QueueInv, [QueueNext]_queueVars PROVE QueueInv'
  OBVIOUS
<1>1. CASE \E t \in Tags, v \in Values : Enqueue(t, v)
  BY <1>1, EnqueueInv
<1>2. CASE \E t \in Tags, v \in Values, ok \in BOOLEAN : DirectWrite(t, v, ok)
  BY <1>2, WriteInv
<1>3. CASE TakeJob
  BY <1>3, TakeJobInv
<1>4. CASE \E ok \in BOOLEAN : WriteTag(ok)
  BY <1>4, WriteInv
<1>5. CASE FinishJob
  BY <1>5, FinishJobInv
<1>6. CASE UNCHANGED queueVars
  BY <1>6 DEF queueVars, QueueInv, QueueTypeOK, EntryIsServed, OneOwner, ValueWhileOwned
<1> QED
  BY <1>1, <1>2, <1>3, <1>4, <1>5, <1>6 DEF QueueNext, Worker

LEMMA QueueInvariant == QueueSpec => []QueueInv
BY QueueInitInv, QueueInductive, PTL DEF QueueSpec

(* An entry of the queue is waited for by one occurrence of its key or is    *)
(* being written (EntryIsServed), whatever scripts ask for.                  *)
THEOREM EveryEntryIsServed == QueueSpec => []EntryIsServed
<1>1. QueueInv => EntryIsServed
  BY DEF QueueInv
<1> QED
  BY <1>1, QueueInvariant, PTL

(***************************************************************************)
(* The queue implements LatestWrite                                        *)
(***************************************************************************)

LEMMA QueueInitAbstract == QueueInit => Latest!WriteInit
BY DEF QueueInit, Latest!WriteInit, Latest!Idle, NoEntry, NoJob

LEMMA QueueStepAbstract ==
    QueueInv /\ [QueueNext]_queueVars =>
        [Latest!WriteNext]_<<[t \in Tags |-> logicAsyncWrites[t].value],
                            [tag |-> job.key, value |-> job.value]>>
<1> DEFINE wanted == [t \in Tags |-> logicAsyncWrites[t].value]
           writing == [tag |-> job.key, value |-> job.value]
<1> SUFFICES ASSUME QueueInv, [QueueNext]_queueVars
             PROVE  Latest!WriteNext \/ (wanted' = wanted /\ writing' = writing)
  BY DEF Latest!WriteNext
<1> USE DEF QueueInv
<1>0. logicAsyncWrites \in [Tags -> Entry] /\ job \in Job \cup {NoJob}
      /\ logicAsyncWriteReady \in Seq(Tags)
  BY DEF QueueTypeOK
<1>1. ASSUME NEW t \in Tags, NEW v \in Values, Enqueue(t, v)
      PROVE  Latest!Request(t, v)
  <2>1. wanted' = [wanted EXCEPT ![t] = v]
    BY <1>0, <1>1 DEF Enqueue, Entry
  <2> QED BY <1>1, <2>1 DEF Enqueue, Latest!Request
<1>2. ASSUME NEW t \in Tags, NEW v \in Values, NEW ok \in BOOLEAN, DirectWrite(t, v, ok)
      PROVE  wanted' = wanted /\ writing' = writing
  BY <1>2 DEF DirectWrite
<1>3. CASE TakeJob
  <2> DEFINE t == Head(logicAsyncWriteReady)
  <2>1. t \in Tags /\ t = logicAsyncWriteReady[1] /\ 1 \in 1..Len(logicAsyncWriteReady)
    BY <1>0, <1>3 DEF TakeJob
  <2>2. wanted[t] # NoValue
    BY <2>1 DEF ValueWhileOwned, EntryIsServed
  <2>3. wanted' = wanted
    BY <1>0, <1>3, <2>1 DEF TakeJob, Entry
  <2>4. writing = Latest!Idle /\ writing' = [tag |-> t, value |-> wanted[t]]
    BY <1>3, <2>1 DEF TakeJob, NoJob, Latest!Idle
  <2>5. Latest!Begin(t)
    BY <2>2, <2>3, <2>4 DEF Latest!Begin, Latest!Idle
  <2> QED BY <2>1, <2>5 DEF Latest!WriteNext
<1>4. ASSUME NEW ok \in BOOLEAN, WriteTag(ok)
      PROVE  wanted' = wanted /\ writing' = writing
  <2>1. job \in Job
    BY <1>0, <1>4 DEF WriteTag, NoJob
  <2> QED BY <1>4, <2>1 DEF WriteTag, Job
<1>5. CASE FinishJob
  <2> DEFINE t == job.key
  <2>1. job \in Job /\ t \in Tags /\ job.value \in Values
    BY <1>0, <1>5 DEF FinishJob, NoJob, Job
  <2>2. writing # Latest!Idle /\ writing' = Latest!Idle
    BY <1>5, <2>1, QueueConstants DEF FinishJob, NoJob, Latest!Idle
  <2>3. wanted' = [wanted EXCEPT ![t] = IF wanted[t] = job.value THEN NoValue ELSE wanted[t]]
    <3>1. CASE logicAsyncWrites[t].value = job.value
      BY <1>0, <1>5, <2>1, <3>1 DEF FinishJob, NoEntry
    <3>2. CASE logicAsyncWrites[t].value # job.value
      BY <1>0, <1>5, <2>1, <3>2 DEF FinishJob, Entry
    <3> QED BY <3>1, <3>2
  <2>4. Latest!End
    BY <2>1, <2>2, <2>3 DEF Latest!End, Latest!Idle
  <2> QED BY <2>4 DEF Latest!WriteNext
<1>6. CASE UNCHANGED queueVars
  BY <1>6 DEF queueVars
<1> QED
  BY <1>1, <1>2, <1>3, <1>4, <1>5, <1>6 DEF QueueNext, Worker, Latest!WriteNext

(* The newest value scripts ask for is dropped only by the end of a write of *)
(* that value (LatestWriteWins), for any number of tags and values.          *)
THEOREM QueueImplementsLatestWrite == QueueSpec => LatestWriteWins
<1>1. QueueInit => Latest!WriteInit
  BY QueueInitAbstract
<1> QED
  BY <1>1, QueueInvariant, QueueStepAbstract, PTL
     DEF QueueSpec, LatestWriteWins, Latest!SafeWrites

(***************************************************************************)
(* The scheduler is a client of the queue                                  *)
(***************************************************************************)

RunPhases == {"acquire", "verify", "evaluate", "finish"}

(* The variables an item keeps are its own.                                  *)
Owned(i) == i.kept # NoKept => i.kept = [id |-> i.id, body |-> i.body]

SchedTyped ==
    /\ sched \in [pc : {"idle", "next"} \cup RunPhases, revision : Nat,
                  due : SUBSET Nat, run : LoadedItem \cup {NoRun}, ok : BOOLEAN]
    /\ sched.pc # "idle" => sched.due # {}
    /\ sched.pc \in RunPhases => sched.run \in LoadedItem /\ Owned(sched.run)

Previous == UNION {[S -> [body : Bodies, kept : Kept]] : S \in SUBSET Items}
OwnedPrevious(p) == \A n \in DOMAIN p :
    p[n].kept # NoKept => p[n].kept = [id |-> n, body |-> p[n].body]

LoadTyped ==
    /\ load \in [Loaders -> [pc : {"idle", "stat", "parse", "install"},
                             mtime : 0..MaxSaves, previous : Previous,
                             config : Configs \cup {NoLoad.config}]]
    /\ \A l \in Loaders : /\ OwnedPrevious(load[l].previous)
                          /\ load[l].pc = "install" => load[l].config \in Configs

(* A run whose revision is still the loaded one runs the item at its place,  *)
(* and its demand is announced.                                              *)
RunCurrent ==
    /\ sched.pc # "idle" => sched.revision <= logic.revision
    /\ sched.pc \in RunPhases /\ ~Replaced =>
          /\ Current \in 1..Len(logic.items)
          /\ logic.items[Current].id = sched.run.id
          /\ logic.items[Current].body = sched.run.body
    /\ sched.pc \in RunPhases => executing = {AsConfigured(sched.run)}

AutomationInv == /\ QueueInv /\ TypeOK /\ SchedTyped /\ LoadTyped
                 /\ KeptBelongsToItem /\ RunCurrent

LEMMA ConfigTyped == \A c \in Configs : c.ok \in BOOLEAN /\ c.items \in Seq(ConfigItem)
BY AutomationConstants

LEMMA NothingPrevious == NoPrevious \in Previous /\ OwnedPrevious(NoPrevious)
<1>1. NoPrevious \in [{} -> [body : Bodies, kept : Kept]] /\ DOMAIN NoPrevious = {}
  BY DEF NoPrevious
<1>2. {} \in SUBSET Items
  OBVIOUS
<1> QED BY <1>1, <1>2 DEF Previous, OwnedPrevious

LEMMA MergeTyped ==
    ASSUME NEW c \in Configs, NEW p \in Previous, OwnedPrevious(p)
    PROVE  /\ Merge(c, p) \in Seq(LoadedItem)
           /\ Len(Merge(c, p)) = Len(c.items)
           /\ \A i \in 1..Len(c.items) : Owned(Merge(c, p)[i])
<1>1. c.items \in Seq(ConfigItem) /\ Len(c.items) \in Nat
  BY ConfigTyped
<1>2. PICK S \in SUBSET Items : p \in [S -> [body : Bodies, kept : Kept]]
  BY DEF Previous
<1>3. ASSUME NEW i \in 1..Len(c.items)
      PROVE  Merge(c, p)[i] \in LoadedItem /\ Owned(Merge(c, p)[i])
  <2> DEFINE item == c.items[i]
             same == item.id \in DOMAIN p /\ p[item.id].body = item.body
             k == IF same THEN p[item.id].kept ELSE NoKept
  <2>1. item \in ConfigItem
    BY <1>1
  <2>2. Merge(c, p)[i] = WithKept(item, k)
    BY DEF Merge
  <2>3. k \in Kept /\ (k # NoKept => k = [id |-> item.id, body |-> item.body])
    <3>1. CASE same
      BY <1>2, <3>1 DEF OwnedPrevious
    <3>2. CASE ~same
      BY <3>2 DEF Kept
    <3> QED BY <3>1, <3>2
  <2> HIDE DEF k
  <2> QED BY <2>1, <2>2, <2>3 DEF WithKept, ConfigItem, LoadedItem, Owned
<1>4. Merge(c, p) \in [1..Len(c.items) -> LoadedItem]
  BY <1>3 DEF Merge
<1> QED BY <1>1, <1>3, <1>4

LEMMA AutomationInitInv == Init => AutomationInv
<1> SUFFICES ASSUME Init PROVE AutomationInv
  OBVIOUS
<1>1. QueueInv
  BY QueueInitInv DEF Init
<1>2. PICK c \in Configs, d \in Configs, time \in {-1, 0} :
        /\ file = [config |-> c, mtime |-> 0]
        /\ logic = [revision |-> 0, mtime |-> time, loaded |-> TRUE,
                    items |-> Merge(d, NoPrevious)]
  BY DEF Init
<1>3. /\ Merge(d, NoPrevious) \in Seq(LoadedItem)
      /\ \A i \in 1..Len(Merge(d, NoPrevious)) : Owned(Merge(d, NoPrevious)[i])
  BY NothingPrevious, MergeTyped
<1>4. KeptBelongsToItem
  BY <1>2, <1>3 DEF KeptBelongsToItem, Owned
<1>5. SchedTyped /\ RunCurrent
  BY DEF Init, NoCycle, SchedTyped, RunCurrent, RunPhases
<1>6. LoadTyped
  <2>1. 0 \in 0..MaxSaves
    BY AutomationConstants
  <2> QED BY <2>1, NothingPrevious DEF Init, NoLoad, LoadTyped
<1>7. TypeOK
  <2>1. 0 \in 0..MaxSaves /\ {-1, 0} \subseteq -1..MaxSaves
    BY AutomationConstants
  <2> QED BY <1>1, <1>2, <1>3, <2>1 DEF Init, TypeOK, QueueInv, NoLoad, NoCycle
<1> QED BY <1>1, <1>4, <1>5, <1>6, <1>7 DEF AutomationInv

LEMMA StepUsesQueue == TypeOK /\ SchedTyped /\ [Next]_vars => [QueueNext]_queueVars
<1> SUFFICES ASSUME TypeOK, SchedTyped, [Next]_vars
             PROVE  QueueNext \/ UNCHANGED queueVars
  OBVIOUS
<1>1. CASE Evaluate
  <2> DEFINE t == OutTag[sched.run.body]
             v == OutValue[sched.run.body]
  <2>1. t \in Tags /\ v \in Values
    BY <1>1, AutomationConstants DEF Evaluate, SchedTyped, LoadedItem
  <2>2. Enqueue(t, v) \/ \E ok \in BOOLEAN : DirectWrite(t, v, ok)
    BY <1>1 DEF Evaluate
  <2> QED BY <2>1, <2>2 DEF QueueNext
<1>2. CASE QueueWorker
  BY <1>2 DEF QueueWorker, QueueNext
<1>3. CASE EditFile \/ SaveFile \/ StartReload \/ Loading
  BY <1>3 DEF EditFile, SaveFile, StartReload, Loading, LoadStat, LoadParse, LoadInstall
<1>4. CASE \E due \in SUBSET (1..Len(logic.items)) : CycleStart(due)
  BY <1>4 DEF CycleStart
<1>5. CASE Capture \/ (\E fresh \in BOOLEAN : Acquire(fresh)) \/ Verify \/ Finish
  BY <1>5 DEF Capture, Acquire, Verify, Finish
<1>6. CASE UNCHANGED vars
  BY <1>6 DEF vars
<1> QED BY <1>1, <1>2, <1>3, <1>4, <1>5, <1>6 DEF Next, Running

LEMMA LoadsInv ==
    AutomationInv /\ (EditFile \/ SaveFile \/ StartReload \/ LoadStat) => AutomationInv'
<1> SUFFICES ASSUME AutomationInv, EditFile \/ SaveFile \/ StartReload \/ LoadStat
             PROVE  AutomationInv'
  OBVIOUS
<1> USE DEF AutomationInv
<1>1. UNCHANGED <<logic, sched, executing, queueVars>>
  BY DEF EditFile, SaveFile, StartReload, LoadStat
<1>2. QueueInv' /\ QueueTypeOK' /\ SchedTyped' /\ KeptBelongsToItem' /\ RunCurrent'
  BY <1>1 DEF queueVars, QueueInv, QueueTypeOK, EntryIsServed, OneOwner, ValueWhileOwned,
              SchedTyped, KeptBelongsToItem, RunCurrent, Replaced, Current
<1>3. file' \in [config : Configs, mtime : 0..MaxSaves] /\ file.mtime \in 0..MaxSaves
  BY AutomationConstants DEF TypeOK, EditFile, SaveFile, StartReload, LoadStat
<1>4. LoadTyped'
  BY <1>3 DEF LoadTyped, EditFile, SaveFile, StartReload, LoadStat, Loaders
<1>5. TypeOK'
  BY <1>1, <1>2, <1>3, <1>4 DEF TypeOK, LoadTyped
<1> QED BY <1>2, <1>4, <1>5

LEMMA LoadParseInv == ASSUME AutomationInv, NEW l \in Loaders, LoadParse(l) PROVE AutomationInv'
<1> USE DEF AutomationInv
<1>1. UNCHANGED <<file, logic, sched, executing, queueVars>>
  BY DEF LoadParse
<1>2. QueueInv' /\ QueueTypeOK' /\ SchedTyped' /\ KeptBelongsToItem' /\ RunCurrent'
  BY <1>1 DEF queueVars, QueueInv, QueueTypeOK, EntryIsServed, OneOwner, ValueWhileOwned,
              SchedTyped, KeptBelongsToItem, RunCurrent, Replaced, Current
<1> DEFINE its == logic.items
           ids == {its[i].id : i \in 1..Len(its)}
           At(n) == CHOOSE j \in 1..Len(its) : its[j].id = n
           p == [n \in ids |-> [body |-> its[At(n)].body, kept |-> its[At(n)].kept]]
<1>3. its \in Seq(LoadedItem)
  BY DEF TypeOK
<1>4. \A n \in ids : At(n) \in 1..Len(its) /\ its[At(n)].id = n
  OBVIOUS
<1>5. \A n \in ids : /\ n \in Items
                     /\ p[n] \in [body : Bodies, kept : Kept]
                     /\ p[n].kept # NoKept => p[n].kept = [id |-> n, body |-> p[n].body]
  <2> SUFFICES ASSUME NEW n \in ids
               PROVE  /\ n \in Items
                      /\ p[n] \in [body : Bodies, kept : Kept]
                      /\ p[n].kept # NoKept => p[n].kept = [id |-> n, body |-> p[n].body]
    OBVIOUS
  <2> DEFINE i == At(n)
  <2>1. i \in 1..Len(its) /\ its[i].id = n /\ its[i] \in LoadedItem
    BY <1>3, <1>4
  <2>2. p[n] = [body |-> its[i].body, kept |-> its[i].kept]
    OBVIOUS
  <2> HIDE DEF i, p
  <2> QED BY <2>1, <2>2 DEF LoadedItem, KeptBelongsToItem
<1>6. p \in Previous /\ OwnedPrevious(p)
  <2>1. ids \in SUBSET Items /\ DOMAIN p = ids
    BY <1>5
  <2>2. p \in [ids -> [body : Bodies, kept : Kept]]
    BY <1>5
  <2> HIDE DEF p, ids
  <2> QED BY <1>5, <2>1, <2>2 DEF Previous, OwnedPrevious
<1>7. load' = [load EXCEPT ![l] = [load[l] EXCEPT !.pc = "install", !.config = file.config,
                                                 !.previous = p]]
  BY DEF LoadParse, LoadTyped
<1>8. file.config \in Configs
  BY DEF TypeOK
<1>9. LoadTyped'
  <2> HIDE DEF p
  <2> QED BY <1>6, <1>7, <1>8 DEF LoadTyped
<1>10. TypeOK'
  BY <1>1, <1>2, <1>9 DEF TypeOK, LoadTyped
<1> QED BY <1>2, <1>9, <1>10

LEMMA LoadInstallInv ==
    ASSUME AutomationInv, NEW l \in Loaders, LoadInstall(l) PROVE AutomationInv'
<1> USE DEF AutomationInv
<1> DEFINE c == load[l].config
           p == load[l].previous
<1>1. UNCHANGED <<file, sched, executing, queueVars>>
  BY DEF LoadInstall
<1>2. QueueInv' /\ QueueTypeOK' /\ SchedTyped'
  BY <1>1 DEF queueVars, QueueInv, QueueTypeOK, EntryIsServed, OneOwner, ValueWhileOwned, SchedTyped
<1>3. c \in Configs /\ p \in Previous /\ OwnedPrevious(p) /\ load[l].mtime \in 0..MaxSaves
  BY DEF LoadInstall, LoadTyped
<1>4. /\ Merge(c, p) \in Seq(LoadedItem)
      /\ \A i \in 1..Len(Merge(c, p)) : Owned(Merge(c, p)[i])
  BY <1>3, MergeTyped
<1>5. logic' = [revision |-> NextRevision, mtime |-> load[l].mtime, loaded |-> c.ok,
                items |-> Merge(c, p)]
  BY DEF LoadInstall
<1>6. logic.revision \in Nat /\ NextRevision \in Nat
  BY DEF TypeOK, NextRevision
<1>7. KeptBelongsToItem'
  BY <1>4, <1>5 DEF KeptBelongsToItem, Owned
<1>8. RunCurrent'
  BY <1>1, <1>5, <1>6 DEF RunCurrent, NextRevision, Replaced, SchedTyped, RunPhases
<1>9. LoadTyped'
  <2>1. 0 \in 0..MaxSaves
    BY AutomationConstants
  <2> QED BY <2>1, NothingPrevious DEF LoadInstall, LoadTyped, NoLoad
<1>10. TypeOK'
  <2>1. load[l].mtime \in -1..MaxSaves /\ c.ok \in BOOLEAN
    BY <1>3, ConfigTyped
  <2> QED BY <1>1, <1>2, <1>4, <1>5, <1>6, <1>9, <2>1 DEF TypeOK, LoadTyped
<1> QED BY <1>2, <1>7, <1>8, <1>9, <1>10

(* What a step of the cycle that leaves the loads and the queue alone keeps. *)
LEMMA SchedulerFrame ==
    ASSUME AutomationInv, UNCHANGED <<file, load, queueVars>>
    PROVE  /\ QueueInv' /\ QueueTypeOK' /\ LoadTyped'
           /\ file' \in [config : Configs, mtime : 0..MaxSaves]
           /\ \A l \in Loaders : load'[l].pc \in {"idle", "stat", "parse", "install"}
BY DEF AutomationInv, queueVars, QueueInv, QueueTypeOK, EntryIsServed, OneOwner,
       ValueWhileOwned, LoadTyped, TypeOK

LEMMA CycleStartInv ==
    ASSUME AutomationInv, NEW due \in SUBSET (1..Len(logic.items)), CycleStart(due)
    PROVE  AutomationInv'
<1> USE DEF AutomationInv
<1>1. UNCHANGED <<file, logic, load, executing, queueVars>>
  BY DEF CycleStart
<1>2. sched' = [pc |-> "next", revision |-> logic.revision, due |-> due, run |-> NoRun,
                ok |-> TRUE]
  BY DEF CycleStart, NoCycle
<1>3. logic.revision \in Nat /\ due \in SUBSET Nat /\ due # {}
  BY DEF TypeOK, CycleStart
<1>4. SchedTyped'
  BY <1>2, <1>3 DEF SchedTyped, RunPhases
<1>5. RunCurrent'
  BY <1>1, <1>2, <1>3 DEF RunCurrent, RunPhases
<1>6. TypeOK'
  BY <1>1, <1>2, <1>3, SchedulerFrame DEF TypeOK
<1>7. KeptBelongsToItem'
  BY <1>1 DEF KeptBelongsToItem
<1> QED BY <1>1, <1>4, <1>5, <1>6, <1>7, SchedulerFrame

(* Leaving the loop, or going on to the next item, ends the run.             *)
LEMMA RunEnds ==
    ASSUME AutomationInv, sched.pc # "idle", UNCHANGED <<file, load, queueVars>>,
           logic' \in [revision : Nat, mtime : -1..MaxSaves, loaded : BOOLEAN,
                       items : Seq(LoadedItem)],
           logic'.revision = logic.revision, KeptBelongsToItem',
           Leave \/ NextItem
    PROVE  AutomationInv'
<1> USE DEF AutomationInv
<1>1. \/ sched' = NoCycle
      \/ /\ sched.due # {Current}
         /\ sched' = [pc |-> "next", revision |-> sched.revision,
                      due |-> sched.due \ {Current}, run |-> NoRun, ok |-> TRUE]
  BY DEF Leave, NextItem, NoCycle
<1>2. sched.revision \in Nat /\ sched.due \in SUBSET Nat /\ sched.due # {}
      /\ sched.revision <= logic.revision
  BY DEF SchedTyped, RunCurrent
<1>3. sched.due # {Current} => sched.due \ {Current} # {}
  BY <1>2
<1>4. SchedTyped'
  <2>1. CASE sched' = NoCycle
    BY <2>1 DEF SchedTyped, RunPhases, NoCycle
  <2>2. CASE sched' # NoCycle
    <3>1. /\ sched' = [pc |-> "next", revision |-> sched.revision,
                       due |-> sched.due \ {Current}, run |-> NoRun, ok |-> TRUE]
          /\ sched.due \ {Current} # {} /\ sched.due \ {Current} \in SUBSET Nat
      BY <1>1, <1>2, <1>3, <2>2
    <3> QED BY <1>2, <3>1 DEF SchedTyped, RunPhases
  <2> QED BY <2>1, <2>2
<1>5. RunCurrent'
  BY <1>1, <1>2 DEF RunCurrent, RunPhases, NoCycle
<1>6. TypeOK'
  BY <1>1, <1>3, SchedulerFrame DEF TypeOK, NoCycle
<1> QED BY <1>4, <1>5, <1>6, SchedulerFrame

LEMMA CaptureInv == AutomationInv /\ Capture => AutomationInv'
<1> SUFFICES ASSUME AutomationInv, Capture PROVE AutomationInv'
  OBVIOUS
<1> USE DEF AutomationInv
<1> DEFINE item == logic.items[Current]
<1>1. UNCHANGED <<file, logic, load, queueVars>> /\ sched.pc = "next"
  BY DEF Capture
<1>2. KeptBelongsToItem'
  BY <1>1 DEF KeptBelongsToItem
<1>3. CASE Leave \/ NextItem
  <2>1. logic' \in [revision : Nat, mtime : -1..MaxSaves, loaded : BOOLEAN,
                    items : Seq(LoadedItem)]
    BY <1>1 DEF TypeOK
  <2> QED BY <1>1, <1>2, <1>3, <2>1, RunEnds
<1>4. CASE ~(Leave \/ NextItem)
  <2>1. /\ ~Replaced /\ Current \in 1..Len(logic.items)
        /\ sched' = [sched EXCEPT !.run = item,
                       !.pc = IF item.fresh THEN "acquire" ELSE "evaluate"]
        /\ executing' = {AsConfigured(item)}
    BY <1>4 DEF Capture
  <2>2. item \in LoadedItem /\ Owned(item)
    BY <2>1 DEF TypeOK, KeptBelongsToItem, Owned
  <2>3. /\ sched'.pc \in {"acquire", "evaluate"} /\ sched'.revision = sched.revision
        /\ sched'.due = sched.due /\ sched'.run = item /\ sched'.ok = sched.ok
    BY <2>1 DEF SchedTyped
  <2>4. SchedTyped'
    BY <1>1, <2>1, <2>2, <2>3 DEF SchedTyped, RunPhases
  <2>5. Current' = Current
    BY <2>3 DEF Current
  <2>6. RunCurrent'
    BY <1>1, <2>1, <2>3, <2>5 DEF RunCurrent, RunPhases
  <2>7. TypeOK'
    BY <1>1, <2>3, SchedulerFrame DEF TypeOK
  <2> QED BY <1>1, <1>2, <2>4, <2>6, <2>7, SchedulerFrame
<1> QED BY <1>3, <1>4

(* A step inside a run: the item, its place and its demand stay.             *)
LEMMA RunContinues ==
    ASSUME AutomationInv, sched.pc \in RunPhases,
           NEW pc \in RunPhases, NEW ok \in BOOLEAN,
           NEW run \in LoadedItem, Owned(run),
           AsConfigured(run) = AsConfigured(sched.run),
           run.id = sched.run.id, run.body = sched.run.body,
           sched' = [pc |-> pc, revision |-> sched.revision, due |-> sched.due,
                     run |-> run, ok |-> ok],
           UNCHANGED <<file, logic, load, executing>>, QueueInv'
    PROVE  AutomationInv'
<1> USE DEF AutomationInv
<1>1. sched.due # {} /\ sched.pc # "idle"
  BY DEF SchedTyped, RunPhases
<1>2. SchedTyped'
  BY <1>1 DEF SchedTyped, RunPhases
<1>3. Current' = Current
  BY DEF Current
<1>4. RunCurrent'
  BY <1>1, <1>3 DEF RunCurrent, RunPhases, Replaced
<1>5. TypeOK'
  BY <1>1 DEF TypeOK, RunPhases, QueueInv
<1>6. LoadTyped' /\ KeptBelongsToItem'
  BY DEF LoadTyped, KeptBelongsToItem
<1> QED BY <1>2, <1>4, <1>5, <1>6

LEMMA RunStepsInv ==
    AutomationInv /\ ((\E fresh \in BOOLEAN : Acquire(fresh)) \/ Verify \/ Evaluate \/ Finish)
        => AutomationInv'
<1> SUFFICES ASSUME AutomationInv,
                    (\E fresh \in BOOLEAN : Acquire(fresh)) \/ Verify \/ Evaluate \/ Finish
             PROVE  AutomationInv'
  OBVIOUS
<1> USE DEF AutomationInv
<1>1. sched.pc \in RunPhases /\ sched.pc # "idle" /\ sched.run \in LoadedItem /\ Owned(sched.run)
  BY DEF Acquire, Verify, Evaluate, Finish, SchedTyped, RunPhases
<1>2. sched \in [pc : {"idle", "next"} \cup RunPhases, revision : Nat, due : SUBSET Nat,
                 run : LoadedItem \cup {NoRun}, ok : BOOLEAN]
  BY DEF SchedTyped
<1>3. logic \in [revision : Nat, mtime : -1..MaxSaves, loaded : BOOLEAN,
                 items : Seq(LoadedItem)]
  BY DEF TypeOK
<1>4. ASSUME NEW fresh \in BOOLEAN, Acquire(fresh) PROVE AutomationInv'
  <2>1. sched' = [sched EXCEPT !.pc = "verify", !.ok = fresh]
        /\ UNCHANGED <<file, logic, load, executing, queueVars>>
    BY <1>4 DEF Acquire
  <2>2. QueueInv'
    BY <2>1, SchedulerFrame
  <2>3. sched' = [pc |-> "verify", revision |-> sched.revision, due |-> sched.due,
                  run |-> sched.run, ok |-> fresh]
    BY <1>2, <2>1
  <2>4. UNCHANGED <<file, logic, load, executing>>
    BY <2>1
  <2>5. "verify" \in RunPhases
    BY DEF RunPhases
  <2> QED BY <1>1, <2>2, <2>3, <2>4, <2>5, RunContinues
<1>5. CASE Verify
  <2>1. UNCHANGED <<file, logic, load, queueVars>>
    BY <1>5 DEF Verify
  <2>2. CASE Replaced
    <3>1. Leave /\ KeptBelongsToItem'
      BY <1>5, <2>1, <2>2 DEF Verify, KeptBelongsToItem
    <3> QED BY <1>1, <1>3, <2>1, <3>1, RunEnds
  <2>3. CASE ~Replaced
    <3>1. PICK pc \in {"evaluate", "finish"} :
            sched' = [sched EXCEPT !.pc = pc] /\ UNCHANGED executing
      BY <1>5, <2>3 DEF Verify
    <3>2. sched' = [pc |-> pc, revision |-> sched.revision, due |-> sched.due,
                    run |-> sched.run, ok |-> sched.ok] /\ sched.ok \in BOOLEAN
      BY <3>1 DEF SchedTyped
    <3>3. QueueInv'
      BY <2>1, SchedulerFrame
    <3>4. UNCHANGED <<file, logic, load, executing>>
      BY <2>1, <3>1
    <3>5. pc \in RunPhases
      BY DEF RunPhases
    <3> QED BY <1>1, <3>2, <3>3, <3>4, <3>5, RunContinues
  <2> QED BY <2>2, <2>3
<1>6. CASE Evaluate
  <2> DEFINE run == [sched.run EXCEPT !.kept = [id |-> sched.run.id, body |-> sched.run.body]]
  <2>1. PICK ok \in BOOLEAN :
          sched' = [sched EXCEPT !.pc = "finish", !.ok = ok,
                      !.run.kept = [id |-> sched.run.id, body |-> sched.run.body]]
    BY <1>6 DEF Evaluate
  <2>2. sched' = [pc |-> "finish", revision |-> sched.revision, due |-> sched.due,
                  run |-> run, ok |-> ok]
    BY <2>1 DEF SchedTyped
  <2>3. /\ run \in LoadedItem /\ Owned(run) /\ AsConfigured(run) = AsConfigured(sched.run)
        /\ run.id = sched.run.id /\ run.body = sched.run.body
    BY <1>1 DEF LoadedItem, Owned, AsConfigured, Kept
  <2>4. QueueInv'
    <3>1. [QueueNext]_queueVars
      BY <1>6, StepUsesQueue DEF Next, Running
    <3> QED BY <3>1, QueueInductive
  <2>5. UNCHANGED <<file, logic, load, executing>>
    BY <1>6 DEF Evaluate
  <2> HIDE DEF run
  <2> QED BY <1>1, <2>2, <2>3, <2>4, <2>5, RunContinues DEF RunPhases
<1>7. CASE Finish
  <2>1. UNCHANGED <<file, load, queueVars>>
    BY <1>7 DEF Finish
  <2>2. CASE logic' = logic
    <3>1. (Leave \/ NextItem) /\ KeptBelongsToItem'
      BY <1>7, <2>2 DEF Finish, KeptBelongsToItem
    <3> QED BY <1>1, <1>3, <2>1, <2>2, <3>1, RunEnds
  <2>3. CASE logic' # logic
    <3>1. /\ ~Replaced /\ NextItem
          /\ logic' = [logic EXCEPT !.items[Current].kept = sched.run.kept]
      BY <1>7, <2>3 DEF Finish
    <3>2. /\ Current \in 1..Len(logic.items)
          /\ logic.items[Current].id = sched.run.id
          /\ logic.items[Current].body = sched.run.body
      BY <1>1, <3>1 DEF RunCurrent
    <3> DEFINE new == [logic.items[Current] EXCEPT !.kept = sched.run.kept]
    <3>3. new \in LoadedItem /\ Owned(new)
      <4>1. logic.items[Current] \in LoadedItem
        BY <1>3, <3>2
      <4>2. sched.run.kept \in Kept
        BY <1>1 DEF LoadedItem
      <4>3. /\ new.id = logic.items[Current].id /\ new.body = logic.items[Current].body
            /\ new.kept = sched.run.kept /\ new \in LoadedItem
        BY <4>1, <4>2 DEF LoadedItem
      <4> HIDE DEF new
      <4> QED BY <1>1, <3>2, <4>3 DEF Owned
    <3>4. logic' = [logic EXCEPT !.items = [logic.items EXCEPT ![Current] = new]]
      BY <3>1
    <3>5. /\ [logic.items EXCEPT ![Current] = new] \in Seq(LoadedItem)
          /\ Len([logic.items EXCEPT ![Current] = new]) = Len(logic.items)
      BY <1>3, <3>2, <3>3
    <3>6. /\ logic' \in [revision : Nat, mtime : -1..MaxSaves, loaded : BOOLEAN,
                         items : Seq(LoadedItem)]
          /\ logic'.revision = logic.revision
          /\ logic'.items = [logic.items EXCEPT ![Current] = new]
      BY <1>3, <3>4, <3>5
    <3>7. KeptBelongsToItem'
      <4>1. \A i \in 1..Len(logic.items) : Owned(logic'.items[i])
        <5> HIDE DEF new
        <5>1. \A i \in 1..Len(logic.items) :
                logic'.items[i] = IF i = Current THEN new ELSE logic.items[i]
          BY <1>3, <3>2, <3>6
        <5> QED BY <3>3, <5>1 DEF KeptBelongsToItem, Owned
      <4> QED BY <3>5, <3>6, <4>1 DEF KeptBelongsToItem, Owned
    <3> QED BY <1>1, <2>1, <3>1, <3>6, <3>7, RunEnds
  <2> QED BY <2>2, <2>3
<1> QED BY <1>4, <1>5, <1>6, <1>7

LEMMA QueueWorkerInv == AutomationInv /\ QueueWorker => AutomationInv'
<1> SUFFICES ASSUME AutomationInv, QueueWorker PROVE AutomationInv'
  OBVIOUS
<1> USE DEF AutomationInv
<1>1. Worker /\ UNCHANGED <<file, logic, load, sched, executing>>
  BY DEF QueueWorker
<1>2. QueueInv'
  BY <1>1, QueueInductive DEF QueueNext
<1>3. SchedTyped' /\ LoadTyped' /\ KeptBelongsToItem' /\ RunCurrent'
  BY <1>1 DEF SchedTyped, LoadTyped, KeptBelongsToItem, RunCurrent, Replaced, Current
<1>4. TypeOK'
  BY <1>1, <1>2 DEF TypeOK, QueueInv
<1> QED BY <1>2, <1>3, <1>4

LEMMA AutomationInductive == AutomationInv /\ [Next]_vars => AutomationInv'
<1> SUFFICES ASSUME AutomationInv, [Next]_vars PROVE AutomationInv'
  OBVIOUS
<1>1. CASE EditFile \/ SaveFile \/ StartReload \/ LoadStat
  BY <1>1, LoadsInv
<1>2. CASE \E l \in Loaders : LoadParse(l) \/ LoadInstall(l)
  BY <1>2, LoadParseInv, LoadInstallInv
<1>3. CASE \E due \in SUBSET (1..Len(logic.items)) : CycleStart(due)
  BY <1>3, CycleStartInv
<1>4. CASE Capture
  BY <1>4, CaptureInv
<1>5. CASE (\E fresh \in BOOLEAN : Acquire(fresh)) \/ Verify \/ Evaluate \/ Finish
  BY <1>5, RunStepsInv
<1>6. CASE QueueWorker
  BY <1>6, QueueWorkerInv
<1>7. CASE UNCHANGED vars
  <2> QED BY <1>7 DEF vars, queueVars, AutomationInv, QueueInv, QueueTypeOK, EntryIsServed,
             OneOwner, ValueWhileOwned, TypeOK, SchedTyped, LoadTyped, KeptBelongsToItem,
             RunCurrent, Replaced, Current
<1> QED
  BY <1>1, <1>2, <1>3, <1>4, <1>5, <1>6, <1>7 DEF Next, Loading, Running

LEMMA AutomationInvariant == Spec => []AutomationInv
BY AutomationInitInv, AutomationInductive, PTL DEF Spec

(* Every reachable state of the scheduler, its loads and the queue is well   *)
(* typed: a cycle with items left has a current one.                         *)
THEOREM TypeCorrect == Spec => []TypeOK
<1>1. AutomationInv => TypeOK
  BY DEF AutomationInv
<1> QED BY <1>1, AutomationInvariant, PTL

(* For any items, bodies, contents of logic.json and saves, no item is given *)
(* variables another item or another body computed (KeptBelongsToItem).      *)
THEOREM StateStaysWithItem == Spec => []KeptBelongsToItem
<1>1. AutomationInv => KeptBelongsToItem
  BY DEF AutomationInv
<1> QED BY <1>1, AutomationInvariant, PTL

(* The inputs of a run stay demanded until it ends, whatever is loaded       *)
(* meanwhile (RunIsDemanded).                                                *)
THEOREM RunsAreDemanded == Spec => []RunIsDemanded
<1>1. AutomationInv => RunIsDemanded
  BY DEF AutomationInv, RunCurrent, RunIsDemanded, RunPhases
<1> QED BY <1>1, AutomationInvariant, PTL

(***************************************************************************)
(* The loads: nothing that was read before the file changed carries the      *)
(* file's modification time                                                  *)
(***************************************************************************)

LoadFresh ==
    /\ logic.mtime <= file.mtime
    /\ \A l \in Loaders :
          /\ load[l].pc \in {"parse", "install"} => load[l].mtime <= file.mtime
          /\ load[l].pc = "install" /\ load[l].mtime = file.mtime =>
                load[l].config = file.config
    /\ StaleLoadIsNoticed

FreshInv == AutomationInv /\ LoadFresh

(* A load keeps the items as they are configured, whatever they keep.        *)
LEMMA MergeKeepsConfig ==
    ASSUME NEW c \in Configs, NEW p
    PROVE  /\ Len(Merge(c, p)) = Len(c.items)
           /\ \A i \in 1..Len(c.items) : AsConfigured(Merge(c, p)[i]) = c.items[i]
<1>1. c.items \in Seq(ConfigItem) /\ Len(c.items) \in Nat
  BY ConfigTyped
<1>2. ASSUME NEW i \in 1..Len(c.items)
      PROVE  AsConfigured(Merge(c, p)[i]) = c.items[i]
  <2>1. c.items[i] \in ConfigItem
    BY <1>1
  <2>2. PICK k : Merge(c, p)[i] = WithKept(c.items[i], k)
    BY DEF Merge
  <2> QED BY <2>1, <2>2 DEF WithKept, AsConfigured, ConfigItem
<1>3. Len(Merge(c, p)) = Len(c.items)
  BY <1>1 DEF Merge
<1> QED BY <1>2, <1>3

LEMMA FreshTypes ==
    ASSUME AutomationInv
    PROVE  /\ file \in [config : Configs, mtime : 0..MaxSaves] /\ MaxSaves \in Nat
           /\ logic \in [revision : Nat, mtime : -1..MaxSaves, loaded : BOOLEAN,
                         items : Seq(LoadedItem)]
           /\ file.mtime \in Nat /\ logic.mtime \in Int
           /\ load \in [Loaders -> [pc : {"idle", "stat", "parse", "install"},
                                    mtime : 0..MaxSaves, previous : Previous,
                                    config : Configs \cup {NoLoad.config}]]
           /\ \A l \in Loaders : load[l].mtime \in Nat
  BY AutomationConstants DEF AutomationInv, TypeOK, LoadTyped

(* The file changes: its new time is that of no load.                        *)
LEMMA ChangeFresh == ASSUME FreshInv, EditFile \/ SaveFile PROVE LoadFresh'
<1>1. /\ AutomationInv /\ LoadFresh /\ logic' = logic /\ file'.mtime = file.mtime + 1
  BY FreshTypes DEF FreshInv, EditFile, SaveFile
<1>2. \A l \in Loaders : /\ load'[l].mtime = load[l].mtime
                         /\ load'[l].pc \in {load[l].pc, "stat"}
  <2>1. CASE EditFile
    BY <2>1 DEF EditFile
  <2>2. CASE SaveFile
    <3>1. load' = [load EXCEPT !["http"] = [load["http"] EXCEPT !.pc = "stat"]]
      BY <2>2 DEF SaveFile
    <3>2. \A l \in Loaders : load'[l] \in {load[l], [load["http"] EXCEPT !.pc = "stat"]}
                            /\ (l # "http" => load'[l] = load[l])
      BY <1>1, <3>1, FreshTypes
    <3>3. load["http"] \in [pc : {"idle", "stat", "parse", "install"},
                            mtime : 0..MaxSaves, previous : Previous,
                            config : Configs \cup {NoLoad.config}]
      BY <1>1, FreshTypes DEF Loaders
    <3> QED BY <3>2, <3>3
  <2> QED BY <2>1, <2>2
<1>3. logic'.mtime < file'.mtime
  BY <1>1, FreshTypes DEF LoadFresh
<1>4. \A l \in Loaders : load'[l].pc \in {"parse", "install"} => load'[l].mtime < file'.mtime
  BY <1>1, <1>2, FreshTypes DEF LoadFresh
<1>5. \A l \in Loaders : load'[l].mtime \in Nat
  BY <1>1, <1>2, FreshTypes
<1>6. logic'.mtime \in Int /\ file'.mtime \in Nat
  BY <1>1, FreshTypes
<1> QED BY <1>3, <1>4, <1>5, <1>6 DEF LoadFresh, StaleLoadIsNoticed

LEMMA BeginFresh == ASSUME FreshInv, StartReload \/ LoadStat PROVE LoadFresh'
<1>1. AutomationInv /\ LoadFresh /\ UNCHANGED <<file, logic>>
  BY DEF FreshInv, StartReload, LoadStat
<1>2. \A l \in Loaders : \/ load'[l] = load[l]
                         \/ load'[l].pc = "parse" /\ load'[l].mtime = file.mtime
  BY <1>1, FreshTypes DEF StartReload, LoadStat
<1>3. file.mtime \in Nat
  BY <1>1, FreshTypes
<1> QED BY <1>1, <1>2, <1>3 DEF LoadFresh, StaleLoadIsNoticed, FileLoaded

LEMMA ParseFresh == ASSUME FreshInv, NEW l \in Loaders, LoadParse(l) PROVE LoadFresh'
<1>1. AutomationInv /\ LoadFresh /\ UNCHANGED <<file, logic>>
  BY DEF FreshInv, LoadParse
<1>2. /\ load[l].pc = "parse" /\ load'[l].mtime = load[l].mtime
      /\ load'[l].config = file.config
      /\ \A k \in Loaders \ {l} : load'[k] = load[k]
  BY <1>1, FreshTypes DEF LoadParse
<1> QED BY <1>1, <1>2 DEF LoadFresh, StaleLoadIsNoticed, FileLoaded

LEMMA InstallFresh == ASSUME FreshInv, NEW l \in Loaders, LoadInstall(l) PROVE LoadFresh'
<1> DEFINE c == load[l].config
           p == load[l].previous
<1>1. /\ AutomationInv /\ LoadFresh /\ file' = file /\ load[l].pc = "install"
      /\ load' = [load EXCEPT ![l] = NoLoad]
      /\ logic' = [revision |-> NextRevision, mtime |-> load[l].mtime, loaded |-> c.ok,
                   items |-> Merge(c, p)]
  BY DEF FreshInv, LoadInstall
<1>2. c \in Configs
  BY <1>1 DEF AutomationInv, LoadTyped
<1>3. load'[l].pc = "idle" /\ \A k \in Loaders \ {l} : load'[k] = load[k]
  BY <1>1, FreshTypes DEF NoLoad
<1>4. logic'.mtime <= file.mtime /\ logic'.mtime = load[l].mtime
  BY <1>1 DEF LoadFresh
<1>5. ASSUME logic'.mtime = file.mtime PROVE FileLoaded'
  <2>1. c = file.config
    BY <1>1, <1>4, <1>5 DEF LoadFresh
  <2>2. /\ Len(Merge(c, p)) = Len(c.items)
        /\ \A i \in 1..Len(c.items) : AsConfigured(Merge(c, p)[i]) = c.items[i]
    BY <1>2, MergeKeepsConfig
  <2>3. logic'.items = Merge(c, p) /\ logic'.loaded = c.ok
    BY <1>1
  <2> HIDE DEF c, p
  <2> QED BY <1>1, <2>1, <2>2, <2>3 DEF FileLoaded
<1>6. StaleLoadIsNoticed'
  BY <1>1, <1>5 DEF StaleLoadIsNoticed
<1> QED BY <1>1, <1>3, <1>4, <1>6 DEF LoadFresh

(* What a run stores is no part of the configuration.                        *)
LEMMA FinishFresh == ASSUME FreshInv, Finish PROVE LoadFresh'
<1>1. AutomationInv /\ LoadFresh /\ UNCHANGED <<file, load>>
  BY DEF FreshInv, Finish
<1>2. CASE logic' = logic
  BY <1>1, <1>2 DEF LoadFresh, StaleLoadIsNoticed, FileLoaded
<1>3. CASE logic' # logic
  <2> DEFINE its == logic.items
             n == Current
             new == [its[n] EXCEPT !.kept = sched.run.kept]
  <2>1. n \in 1..Len(its) /\ logic' = [logic EXCEPT !.items = [its EXCEPT ![n] = new]]
    BY <1>3 DEF Finish
  <2>2. its \in Seq(LoadedItem) /\ its[n] \in LoadedItem
    BY <1>1, <2>1, FreshTypes
  <2>3. AsConfigured(new) = AsConfigured(its[n])
    BY <2>2 DEF AsConfigured, LoadedItem
  <2>4. /\ logic'.mtime = logic.mtime /\ logic'.loaded = logic.loaded
        /\ logic'.items = [its EXCEPT ![n] = new]
    BY <1>1, <2>1, FreshTypes
  <2> HIDE DEF its, n, new
  <2>5. /\ Len([its EXCEPT ![n] = new]) = Len(its)
        /\ \A i \in 1..Len(its) :
              AsConfigured([its EXCEPT ![n] = new][i]) = AsConfigured(its[i])
    BY <2>1, <2>2, <2>3
  <2>6. FileLoaded => FileLoaded'
    BY <1>1, <2>4, <2>5 DEF FileLoaded, its
  <2> QED BY <1>1, <2>4, <2>6 DEF LoadFresh, StaleLoadIsNoticed
<1> QED BY <1>2, <1>3

LEMMA FreshInductive == (Init => FreshInv) /\ (FreshInv /\ [Next]_vars => FreshInv')
<1>1. Init => FreshInv
  <2> SUFFICES ASSUME Init PROVE LoadFresh
    BY AutomationInitInv DEF FreshInv
  <2>1. PICK c \in Configs, d \in Configs, time \in {-1, 0} :
          /\ d.ok /\ (time = 0 => c = d)
          /\ file = [config |-> c, mtime |-> 0]
          /\ logic = [revision |-> 0, mtime |-> time, loaded |-> TRUE,
                      items |-> Merge(d, NoPrevious)]
    BY DEF Init
  <2>2. \A l \in Loaders : load[l].pc = "idle"
    BY DEF Init, NoLoad
  <2>3. /\ Len(Merge(d, NoPrevious)) = Len(d.items)
        /\ \A i \in 1..Len(d.items) : AsConfigured(Merge(d, NoPrevious)[i]) = d.items[i]
    BY MergeKeepsConfig
  <2>4. d.ok = TRUE
    BY <2>1, ConfigTyped
  <2>5. StaleLoadIsNoticed
    BY <2>1, <2>3, <2>4 DEF StaleLoadIsNoticed, FileLoaded
  <2> QED BY <2>1, <2>2, <2>5 DEF LoadFresh
<1>2. FreshInv /\ [Next]_vars => FreshInv'
  <2> SUFFICES ASSUME FreshInv, [Next]_vars PROVE LoadFresh'
    BY AutomationInductive DEF FreshInv
  <2>1. ASSUME UNCHANGED <<file, logic, load>> PROVE LoadFresh'
    BY <2>1 DEF FreshInv, LoadFresh, StaleLoadIsNoticed, FileLoaded
  <2>2. CASE EditFile \/ SaveFile \/ StartReload \/ Loading
    BY <2>2, ChangeFresh, BeginFresh, ParseFresh, InstallFresh DEF Loading
  <2>3. CASE \E due \in SUBSET (1..Len(logic.items)) : CycleStart(due)
    BY <2>1, <2>3 DEF CycleStart
  <2>4. CASE Running
    BY <2>1, <2>4, FinishFresh DEF Running, Capture, Acquire, Verify, Evaluate
  <2>5. CASE QueueWorker \/ UNCHANGED vars
    BY <2>1, <2>5 DEF QueueWorker, vars
  <2> QED BY <2>2, <2>3, <2>4, <2>5 DEF Next
<1> QED BY <1>1, <1>2

(* For any contents of logic.json, any saves and any interleaving of the two *)
(* loaders: items that are not the file's carry another modification time    *)
(* than the file, so the scheduler will load them again.                     *)
THEOREM StaleLoadsAreNoticed == Spec => []StaleLoadIsNoticed
<1>1. FreshInv => StaleLoadIsNoticed
  BY DEF FreshInv, LoadFresh
<1> QED BY <1>1, FreshInductive, PTL DEF Spec

(* The scheduler only uses the queue as a client does, so what holds of the  *)
(* queue alone holds of the two together.                                    *)
THEOREM SchedulerUsesQueue == Spec => QueueSpec
<1>1. Init => QueueInit
  BY DEF Init
<1>2. AutomationInv /\ [Next]_vars => [QueueNext]_queueVars
  BY StepUsesQueue DEF AutomationInv
<1> QED BY <1>1, <1>2, AutomationInvariant, PTL DEF Spec, QueueSpec

(* Scripts, their loads and the worker together implement LatestWrite.       *)
THEOREM AutomationImplementsLatestWrite == Spec => LatestWriteWins
BY SchedulerUsesQueue, QueueImplementsLatestWrite, PTL
=============================================================================
