--------------------------- MODULE LogicWriteQueue ---------------------------
(* The queue between the automation scheduler, whose setTag calls must not   *)
(* wait for a PLC, and the one thread that performs their writes             *)
(* (main.cpp, logicAsyncWrites / logicAsyncWriteReady / logicAsyncWriteThread).*)
(* The map holds one entry per tag and the deque the keys whose entry waits; *)
(* both are only touched under logicAsyncWriteMutex, so each action below is  *)
(* one critical section, or the write between two of them.                    *)
EXTENDS Integers, Sequences, FiniteSets

CONSTANTS
    Tags,           \* keys "connection:tag" of writable tags
    Values,
    NoValue, NoTag,
    MaxWriteFailures  \* bound on the writes the PLC refuses

ASSUME QueueConstants == /\ NoValue \notin Values
                         /\ NoTag \notin Tags
                         /\ MaxWriteFailures \in Nat

VARIABLES
    logicAsyncWrites,      \* tag -> its LogicAsyncWriteEntry, or NoEntry
    logicAsyncWriteReady,  \* the deque of keys
    job,                   \* the worker's copy of the entry it serves
    plc,                   \* the value the controller holds
    writeFailures          \* writes refused so far

queueVars == <<logicAsyncWrites, logicAsyncWriteReady, job, plc, writeFailures>>

NoEntry == [value |-> NoValue, queued |-> FALSE, in_progress |-> FALSE]
Entry == [value : Values \cup {NoValue}, queued : BOOLEAN, in_progress : BOOLEAN]

NoJob == [pc |-> "wait", key |-> NoTag, value |-> NoValue]
Job == [pc : {"write", "finish"}, key : Tags, value : Values]

QueueTypeOK ==
    /\ logicAsyncWrites \in [Tags -> Entry]
    /\ logicAsyncWriteReady \in Seq(Tags)
    /\ job \in Job \cup {NoJob}
    /\ plc \in [Tags -> Values \cup {NoValue}]
    /\ writeFailures \in 0..MaxWriteFailures

QueueInit ==
    /\ logicAsyncWrites = [t \in Tags |-> NoEntry]
    /\ logicAsyncWriteReady = <<>>
    /\ job = NoJob
    /\ plc = [t \in Tags |-> NoValue]
    /\ writeFailures = 0

(* MUTANT of Enqueue: a key being written is queued as well.                 *)
EnqueueWhileWriting(t, v) ==
    LET idle == ~logicAsyncWrites[t].queued
    IN  /\ logicAsyncWrites' = [logicAsyncWrites EXCEPT
               ![t].value = v, ![t].queued = TRUE]
        /\ logicAsyncWriteReady' = IF idle THEN Append(logicAsyncWriteReady, t)
                                           ELSE logicAsyncWriteReady
        /\ UNCHANGED <<job, plc, writeFailures>>

(* g_logicAsyncWriteEnqueue: the value of an entry that waits, or whose older *)
(* value is being written, is replaced and the key is not queued twice.      *)
Enqueue(t, v) ==
    LET e == logicAsyncWrites[t]
        idle == ~e.queued /\ ~e.in_progress
    IN  /\ logicAsyncWrites' = [logicAsyncWrites EXCEPT ![t] =
               [value |-> v, queued |-> e.queued \/ idle, in_progress |-> e.in_progress]]
        /\ logicAsyncWriteReady' = IF idle THEN Append(logicAsyncWriteReady, t)
                                           ELSE logicAsyncWriteReady
        /\ UNCHANGED <<job, plc, writeFailures>>

(* MUTANT of TakeJob: the newest key is taken first.                         *)
TakeNewestJob ==
    /\ job = NoJob
    /\ logicAsyncWriteReady # <<>>
    /\ LET t == logicAsyncWriteReady[Len(logicAsyncWriteReady)]
       IN  /\ logicAsyncWrites' = [logicAsyncWrites EXCEPT
                  ![t].queued = FALSE, ![t].in_progress = TRUE]
           /\ job' = [pc |-> "write", key |-> t, value |-> logicAsyncWrites[t].value]
    /\ logicAsyncWriteReady' =
          SubSeq(logicAsyncWriteReady, 1, Len(logicAsyncWriteReady) - 1)
    /\ UNCHANGED <<plc, writeFailures>>

(* The worker pops the oldest key and copies its entry.                      *)
TakeJob ==
    /\ job = NoJob
    /\ logicAsyncWriteReady # <<>>
    /\ LET t == Head(logicAsyncWriteReady)
       IN  /\ logicAsyncWrites' = [logicAsyncWrites EXCEPT
                  ![t].queued = FALSE, ![t].in_progress = TRUE]
           /\ job' = [pc |-> "write", key |-> t, value |-> logicAsyncWrites[t].value]
    /\ logicAsyncWriteReady' = Tail(logicAsyncWriteReady)
    /\ UNCHANGED <<plc, writeFailures>>

(* write_tag_by_name: the controller takes the value or the write fails.     *)
Perform(t, v, ok) ==
    /\ ok \/ writeFailures < MaxWriteFailures
    /\ plc' = IF ok THEN [plc EXCEPT ![t] = v] ELSE plc
    /\ writeFailures' = IF ok THEN writeFailures ELSE writeFailures + 1

(* The worker writes without the queue's lock.  A failure is only counted.   *)
WriteTag(ok) ==
    /\ job.pc = "write"
    /\ Perform(job.key, job.value, ok)
    /\ job' = [job EXCEPT !.pc = "finish"]
    /\ UNCHANGED <<logicAsyncWrites, logicAsyncWriteReady>>

(* A write that does not use the queue: a script's to a memory or MQTT tag,   *)
(* POST /write, an OPC UA client's.                                          *)
DirectWrite(t, v, ok) ==
    /\ Perform(t, v, ok)
    /\ UNCHANGED <<logicAsyncWrites, logicAsyncWriteReady, job>>

(* MUTANT of FinishJob: the value is not compared again.                     *)
FinishWithoutCompare ==
    /\ job.pc = "finish"
    /\ logicAsyncWrites' = [logicAsyncWrites EXCEPT ![job.key] = NoEntry]
    /\ job' = NoJob
    /\ UNCHANGED <<logicAsyncWriteReady, plc, writeFailures>>

(* The entry goes away, or waits again when its value has changed.           *)
FinishJob ==
    /\ job.pc = "finish"
    /\ LET t == job.key
           changed == logicAsyncWrites[t].value # job.value
           again == changed /\ ~logicAsyncWrites[t].queued
       IN  /\ logicAsyncWrites' = [logicAsyncWrites EXCEPT ![t] =
                  IF changed THEN [@ EXCEPT !.in_progress = FALSE, !.queued = TRUE]
                             ELSE NoEntry]
           /\ logicAsyncWriteReady' = IF again THEN Append(logicAsyncWriteReady, t)
                                               ELSE logicAsyncWriteReady
    /\ job' = NoJob
    /\ UNCHANGED <<plc, writeFailures>>

Worker == TakeJob \/ (\E ok \in BOOLEAN : WriteTag(ok)) \/ FinishJob

QueueNext ==
    \/ \E t \in Tags, v \in Values : Enqueue(t, v)
    \/ \E t \in Tags, v \in Values, ok \in BOOLEAN : DirectWrite(t, v, ok)
    \/ Worker

QueueSpec == QueueInit /\ [][QueueNext]_queueVars

(* The worker's thread runs, and write_tag_by_name returns.                  *)
FairQueueSpec ==
    /\ QueueSpec
    /\ WF_queueVars(TakeJob)
    /\ WF_queueVars(\E ok \in BOOLEAN : WriteTag(ok))
    /\ WF_queueVars(FinishJob)

(***************************************************************************)
(* Properties                                                              *)
(***************************************************************************)

(* Every entry of the map is waited for by exactly one occurrence of its key *)
(* in the deque, or is the one the worker serves: no accepted write is       *)
(* stranded in the map, and no key is queued twice (enqueue, TakeJob and     *)
(* FinishJob update the flags and the deque in three places).                *)
EntryIsServed ==
    /\ \A t \in Tags :
          /\ logicAsyncWrites[t].queued <=>
                \E i \in 1..Len(logicAsyncWriteReady) : logicAsyncWriteReady[i] = t
          /\ logicAsyncWrites[t].in_progress <=> job.key = t
          /\ logicAsyncWrites[t] # NoEntry =>
                logicAsyncWrites[t].queued \/ logicAsyncWrites[t].in_progress
    /\ \A i, j \in 1..Len(logicAsyncWriteReady) :
          logicAsyncWriteReady[i] = logicAsyncWriteReady[j] => i = j

(* The queue implements LatestWrite: an entry is a wanted value until it is  *)
(* erased, and the write under way is the worker's job.                      *)
Latest == INSTANCE LatestWrite
            WITH wanted <- [t \in Tags |-> logicAsyncWrites[t].value],
                 writing <- [tag |-> job.key, value |-> job.value]

(* However requests fall between the copy of an entry, its write and the end *)
(* of the job, a tag's newest value is dropped only when the write that ends  *)
(* was of that value, and a write always takes the newest one.               *)
LatestWriteWins == Latest!SafeWrites

(* The deque gives every waiting tag its turn, also when scripts keep        *)
(* changing others: no tag's newest value waits for ever.                    *)
EveryTagIsWritten == Latest!FairWrites
=============================================================================
