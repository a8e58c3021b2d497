------------------------------ MODULE Automation ------------------------------
(* Automation scripts (main.cpp): logic.json and its two loaders, the        *)
(* scheduler thread that runs the items that are due, and the outputs that    *)
(* reach tags directly or through LogicWriteQueue.                            *)
(*                                                                           *)
(* g_logicMutex makes each access to g_logicState one step; between them a    *)
(* load reads the file and a run evaluates, so a load by the HTTP thread that *)
(* saved the file can fall anywhere into a run or into the scheduler's own    *)
(* load.  An item stands for a script or a block; its body is its source and  *)
(* sets one tag.  Intervals are left open: any enabled items may be due.      *)
EXTENDS LogicWriteQueue

CONSTANTS
    Items,            \* ids of scripts and blocks
    Bodies,           \* sources
    OutTag, OutValue, \* what each body writes
    MemoryTags,       \* tags whose writes do not wait for a PLC
    Configs,          \* contents logic.json can take
    NoKept,           \* an item whose variables are not set up
    MaxSaves          \* bound on changes of logic.json

ConfigItem == [id : Items, body : Bodies, enabled : BOOLEAN, fresh : BOOLEAN]

(* What the file holds: its items, and whether a load gets through them.      *)
(* With ok = FALSE the loader throws after the items listed.                 *)
ASSUME AutomationConstants ==
    /\ \A c \in Configs : /\ DOMAIN c = {"ok", "items"}
                          /\ c.ok \in BOOLEAN
                          /\ c.items \in Seq(ConfigItem)
    /\ OutTag \in [Bodies -> Tags]
    /\ OutValue \in [Bodies -> Values]
    /\ MemoryTags \subseteq Tags
    /\ MaxSaves \in Nat

VARIABLES
    file,       \* logic.json: [config, mtime]
    logic,      \* g_logicState: [revision, mtime, loaded, items]
    load,       \* the two loaders: [pc, mtime, previous, config]
    sched,      \* the scheduler's cycle: [pc, revision, due, run, ok]
    executing   \* g_logicExecutionDemand: configurations of items being run

vars == <<file, logic, load, sched, executing, queueVars>>

Loaders == {"http", "scheduler"}
NoPrevious == [i \in {} |-> i]
NoLoad == [pc |-> "idle", mtime |-> 0, previous |-> NoPrevious,
           config |-> [ok |-> TRUE, items |-> <<>>]]
NoRun == [id |-> "", body |-> ""]
NoCycle == [pc |-> "idle", revision |-> 0, due |-> {}, run |-> NoRun, ok |-> TRUE]

Kept == [id : Items, body : Bodies] \cup {NoKept}
LoadedItem == [id : Items, body : Bodies, enabled : BOOLEAN, fresh : BOOLEAN,
               kept : Kept]
WithKept(i, k) == [id |-> i.id, body |-> i.body, enabled |-> i.enabled,
                   fresh |-> i.fresh, kept |-> k]
AsConfigured(i) == [id |-> i.id, body |-> i.body, enabled |-> i.enabled,
                    fresh |-> i.fresh]

TypeOK ==
    /\ QueueTypeOK
    /\ file \in [config : Configs, mtime : 0..MaxSaves]
    /\ logic \in [revision : Nat, mtime : -1..MaxSaves, loaded : BOOLEAN,
                  items : Seq(LoadedItem)]
    /\ \A l \in Loaders : load[l].pc \in {"idle", "stat", "parse", "install"}
    /\ sched.pc \in {"idle", "next", "acquire", "verify", "evaluate", "finish"}
    /\ sched.pc # "idle" => sched.due # {}

(* State is carried over to an item with the same id and the same body.      *)
Merge(config, previous) ==
    [i \in 1..Len(config.items) |->
        LET item == config.items[i]
            same == /\ item.id \in DOMAIN previous
                    /\ previous[item.id].body = item.body
        IN  WithKept(item, IF same THEN previous[item.id].kept ELSE NoKept)]

(* The program has run for a while; logic.json is as it was loaded, or has    *)
(* been changed since (its recorded time, -1, is another one).               *)
Init ==
    /\ QueueInit
    /\ \E c, d \in Configs, time \in {-1, 0} :
          /\ d.ok /\ (time = 0 => c = d)
          /\ file = [config |-> c, mtime |-> 0]
          /\ logic = [revision |-> 0, mtime |-> time, loaded |-> TRUE,
                      items |-> Merge(d, NoPrevious)]
    /\ load = [l \in Loaders |-> NoLoad]
    /\ sched = NoCycle
    /\ executing = {}

(***************************************************************************)
(* logic.json and its loads                                                *)
(***************************************************************************)

(* Another program, or an import, replaces the file.                         *)
EditFile ==
    /\ file.mtime < MaxSaves
    /\ \E c \in Configs : file' = [config |-> c, mtime |-> file.mtime + 1]
    /\ UNCHANGED <<logic, load, sched, executing, queueVars>>

(* The editor saves the file by renaming and then loads it itself.           *)
SaveFile ==
    /\ file.mtime < MaxSaves
    /\ load["http"].pc = "idle"
    /\ \E c \in Configs : file' = [config |-> c, mtime |-> file.mtime + 1]
    /\ load' = [load EXCEPT !["http"].pc = "stat"]
    /\ UNCHANGED <<logic, sched, executing, queueVars>>

(* The scheduler looks every two seconds, between its cycles.                *)
StartReload ==
    /\ sched.pc = "idle" /\ load["scheduler"].pc = "idle"
    /\ ~logic.loaded \/ file.mtime # logic.mtime
    /\ load' = [load EXCEPT !["scheduler"].pc = "parse", !["scheduler"].mtime = file.mtime]
    /\ UNCHANGED <<file, logic, sched, executing, queueVars>>

(* A load forced by a save takes the modification time whatever it is.       *)
LoadStat ==
    /\ load["http"].pc = "stat"
    /\ load' = [load EXCEPT !["http"].pc = "parse", !["http"].mtime = file.mtime]
    /\ UNCHANGED <<file, logic, sched, executing, queueVars>>

(* What the loaded items keep is copied, then the text is read: nothing      *)
(* tells the two apart, since the copy is old as soon as the lock is free.   *)
LoadParse(l) ==
    /\ load[l].pc = "parse"
    /\ load' = [load EXCEPT ![l].pc = "install", ![l].config = file.config,
          ![l].previous = [id \in {logic.items[i].id : i \in 1..Len(logic.items)} |->
              LET i == CHOOSE j \in 1..Len(logic.items) : logic.items[j].id = id
              IN  [body |-> logic.items[i].body, kept |-> logic.items[i].kept]]]
    /\ UNCHANGED <<file, logic, sched, executing, queueVars>>

(* Only the cycle under way compares revisions; without one the count starts *)
(* again.                                                                    *)
NextRevision == IF sched.pc = "idle" THEN 0 ELSE logic.revision + 1

(* MUTANT of LoadInstall: the modification time is taken after the text.     *)
LoadInstallThenStat(l) ==
    /\ load[l].pc = "install"
    /\ logic' = [revision |-> NextRevision,
                 mtime |-> file.mtime,
                 loaded |-> load[l].config.ok,
                 items |-> Merge(load[l].config, load[l].previous)]
    /\ load' = [load EXCEPT ![l] = NoLoad]
    /\ UNCHANGED <<file, sched, executing, queueVars>>

(* The parsed state replaces g_logicState whole, also after an error.        *)
LoadInstall(l) ==
    /\ load[l].pc = "install"
    /\ logic' = [revision |-> NextRevision,
                 mtime |-> load[l].mtime,
                 loaded |-> load[l].config.ok,
                 items |-> Merge(load[l].config, load[l].previous)]
    /\ load' = [load EXCEPT ![l] = NoLoad]
    /\ UNCHANGED <<file, sched, executing, queueVars>>

Loading == LoadStat \/ \E l \in Loaders : LoadParse(l) \/ LoadInstall(l)

(***************************************************************************)
(* The scheduler's cycle                                                   *)
(***************************************************************************)

Replaced == logic.revision # sched.revision
Current == CHOOSE i \in sched.due : \A j \in sched.due : i <= j

(* Leaving the loop drops the run and the items still due.                   *)
Leave == sched' = NoCycle /\ executing' = {}

(* MUTANT of NextItem: the loop does not end after the last item.            *)
NextItemAlways == /\ sched' = [sched EXCEPT !.pc = "next", !.due = @ \ {Current}]
                  /\ executing' = {}

NextItem == /\ sched' = IF sched.due = {Current} THEN NoCycle
                        ELSE [NoCycle EXCEPT !.pc = "next",
                                !.revision = sched.revision,
                                !.due = sched.due \ {Current}]
            /\ executing' = {}

CycleStart(due) ==
    /\ sched.pc = "idle" /\ load["scheduler"].pc = "idle"
    /\ due # {}
    /\ \A i \in due : logic.items[i].enabled
    /\ sched' = [NoCycle EXCEPT !.pc = "next", !.revision = logic.revision, !.due = due]
    /\ UNCHANGED <<file, logic, load, executing, queueVars>>

(* MUTANT of Capture: only the configuration announces demand.               *)
CaptureWithoutDemand ==
    /\ sched.pc = "next"
    /\ IF Replaced THEN Leave
       ELSE IF Current \notin 1..Len(logic.items) \/ ~logic.items[Current].enabled
       THEN NextItem
       ELSE LET item == logic.items[Current]
            IN  /\ sched' = [sched EXCEPT !.run = item,
                                !.pc = IF item.fresh THEN "acquire" ELSE "evaluate"]
                /\ UNCHANGED executing
    /\ UNCHANGED <<file, logic, load, queueVars>>

(* The item is copied, and its inputs pinned, in one critical section.       *)
Capture ==
    /\ sched.pc = "next"
    /\ IF Replaced THEN Leave
       ELSE IF Current \notin 1..Len(logic.items) \/ ~logic.items[Current].enabled
       THEN NextItem
       ELSE LET item == logic.items[Current]
            IN  /\ sched' = [sched EXCEPT !.run = item,
                                !.pc = IF item.fresh THEN "acquire" ELSE "evaluate"]
                /\ executing' = {AsConfigured(item)}
    /\ UNCHANGED <<file, logic, load, queueVars>>

(* logic_acquire_fresh_inputs polls until every input is fresh, an input     *)
(* cannot be, the deadline passes or the configuration is replaced.          *)
Acquire(fresh) ==
    /\ sched.pc = "acquire"
    /\ fresh => ~Replaced
    /\ sched' = [sched EXCEPT !.pc = "verify", !.ok = fresh]
    /\ UNCHANGED <<file, logic, load, executing, queueVars>>

Verify ==
    /\ sched.pc = "verify"
    /\ IF Replaced THEN Leave
       ELSE /\ sched' = [sched EXCEPT !.pc = IF sched.ok THEN "evaluate" ELSE "finish"]
            /\ UNCHANGED executing
    /\ UNCHANGED <<file, logic, load, queueVars>>

(* MUTANT of Evaluate: a PLC output is set by the first run of a body only.  *)
EvaluateOnChange ==
    /\ sched.pc = "evaluate"
    /\ LET t == OutTag[sched.run.body]
           v == OutValue[sched.run.body]
       IN  \/ sched.run.kept = NoKept /\ Enqueue(t, v)
           \/ sched.run.kept # NoKept /\ UNCHANGED queueVars
    /\ sched' = [sched EXCEPT !.pc = "finish",
                    !.run.kept = [id |-> sched.run.id, body |-> sched.run.body]]
    /\ UNCHANGED <<file, logic, load, executing>>

(* Setup, then the outputs.  A write to a memory tag is performed here and    *)
(* may fail; one to a PLC goes to the queue.                                 *)
Evaluate ==
    /\ sched.pc = "evaluate"
    /\ LET t == OutTag[sched.run.body]
           v == OutValue[sched.run.body]
           done(ok) == sched' = [sched EXCEPT !.pc = "finish", !.ok = ok,
                          !.run.kept = [id |-> sched.run.id, body |-> sched.run.body]]
       IN  \/ t \notin MemoryTags /\ Enqueue(t, v) /\ done(TRUE)
           \/ \E ok \in BOOLEAN : t \in MemoryTags /\ DirectWrite(t, v, ok) /\ done(ok)
    /\ UNCHANGED <<file, logic, load, executing>>

(* MUTANT of Finish: the revision is not compared.                           *)
FinishAnyRevision ==
    /\ sched.pc = "finish"
    /\ IF Current \notin 1..Len(logic.items) THEN NextItem /\ UNCHANGED logic
       ELSE /\ logic' = [logic EXCEPT !.items[Current].kept = sched.run.kept]
            /\ NextItem
    /\ UNCHANGED <<file, load, queueVars>>

(* Statistics and variables are stored by position, into the revision the    *)
(* run was captured from only.                                               *)
Finish ==
    /\ sched.pc = "finish"
    /\ IF Replaced THEN Leave /\ UNCHANGED logic
       ELSE IF Current \notin 1..Len(logic.items) THEN NextItem /\ UNCHANGED logic
       ELSE /\ logic' = [logic EXCEPT !.items[Current].kept = sched.run.kept]
            /\ NextItem
    /\ UNCHANGED <<file, load, queueVars>>

Running == Capture \/ (\E fresh \in BOOLEAN : Acquire(fresh)) \/ Verify \/ Evaluate \/ Finish

QueueWorker == Worker /\ UNCHANGED <<file, logic, load, sched, executing>>

Next ==
    \/ EditFile \/ SaveFile
    \/ StartReload \/ Loading
    \/ \E due \in SUBSET (1..Len(logic.items)) : CycleStart(due)
    \/ Running
    \/ QueueWorker

Spec == Init /\ [][Next]_vars

(* The scheduler and the queue's thread never wait for one another; loads    *)
(* finish; the period of every enabled item elapses again and again; the     *)
(* inputs of an item become fresh in some of its runs; the PLC refuses only   *)
(* finitely many writes (MaxWriteFailures).                                  *)
Fairness ==
    /\ SF_vars(StartReload)
    /\ WF_vars(LoadStat)
    /\ \A l \in Loaders : WF_vars(LoadParse(l) \/ LoadInstall(l))
    /\ WF_vars(Running)
    /\ SF_vars(Acquire(TRUE))
    /\ \A n \in Items : SF_vars(\E due \in SUBSET (1..Len(logic.items)) :
                          /\ \E i \in due : logic.items[i].id = n
                          /\ CycleStart(due))
    /\ WF_vars(TakeJob /\ QueueWorker)
    /\ WF_vars((\E ok \in BOOLEAN : WriteTag(ok)) /\ QueueWorker)
    /\ WF_vars(FinishJob /\ QueueWorker)

FairSpec == Spec /\ Fairness

(***************************************************************************)
(* Properties                                                              *)
(***************************************************************************)

(* Variables an item keeps between runs were computed by the body it has     *)
(* now, under its own id: a save that reorders, edits or removes items while  *)
(* a run evaluates, or while another load is parsing, must not give one item  *)
(* the state of another (Merge compares bodies, Finish stores by position     *)
(* into the captured revision only).                                         *)
KeptBelongsToItem ==
    \A i \in 1..Len(logic.items) :
        logic.items[i].kept # NoKept =>
            logic.items[i].kept = [id |-> logic.items[i].id, body |-> logic.items[i].body]

(* The inputs of a run are demanded until it ends, also when a save has      *)
(* removed or disabled the item meanwhile: the configurations and the        *)
(* executions, read together, include it (collect_polling_demand).           *)
RunIsDemanded ==
    sched.pc \in {"acquire", "verify", "evaluate", "finish"} =>
        AsConfigured(sched.run) \in
            executing \cup {AsConfigured(logic.items[i]) : i \in 1..Len(logic.items)}

(* The items loaded are those of the file as it is now.                      *)
FileLoaded ==
    /\ logic.loaded = file.config.ok
    /\ Len(logic.items) = Len(file.config.items)
    /\ \A i \in 1..Len(logic.items) : AsConfigured(logic.items[i]) = file.config.items[i]

(* A loaded state that is not the file's carries another modification time   *)
(* than the file, so that the scheduler's next look at it finds out: however *)
(* a save's own load and the scheduler's overlap, and whatever is saved       *)
(* while they read, since a load takes the time before it reads the text     *)
(* (main.cpp:8525, 8571).                                                    *)
StaleLoadIsNoticed == logic.mtime = file.mtime => FileLoaded

(* When logic.json is no longer changed, the items loaded are those in the   *)
(* file, although the save's own load and the scheduler's may overlap and    *)
(* install an older text last.                                               *)
LoadsConverge == <>[](file.config.ok => FileLoaded)

(* A tag that exactly one enabled item of the file sets ends up with that    *)
(* item's value in the controller: a save, a stale load, a run cut short, a   *)
(* coalesced request or a refused write only delay it, because every later    *)
(* run asks again.                                                           *)
Setters(t) == {i \in 1..Len(file.config.items) :
                  /\ file.config.items[i].enabled
                  /\ OutTag[file.config.items[i].body] = t}

OutputsConverge ==
    <>[](file.config.ok => \A t \in Tags : \A i \in Setters(t) :
            Setters(t) = {i} => plc[t] = OutValue[file.config.items[i].body])
=============================================================================
