---------------------------- MODULE ReloadService ----------------------------
(***************************************************************************)
(* What opcbridge promises those who ask for a reload: one reload at a     *)
(* time, of every connection or of one.  While it runs, and at no other    *)
(* time, its connections are rebuilt from the files as they are saved      *)
(* then; it has succeeded only if all of them were, after it was accepted. *)
(* A restart of the service rebuilds everything and ends the reload.       *)
(***************************************************************************)
CONSTANTS
    Conns, Contents,
    Callers,  \* those whose reload is recorded, one each
    Askers    \* Callers, and opcbridge itself

VARIABLES
    files,    \* connection -> what is saved
    running,  \* connection -> what it was built from
    job,      \* the reload accepted and not ended, as a set of one, or {}
    ended     \* caller -> how its reload ended, or "none"

vars == <<files, running, job, ended>>

Init ==
    /\ files \in [Conns -> Contents] /\ running = files
    /\ job = {} /\ ended = [h \in Callers |-> "none"]

Save(c, v) ==
    /\ files' = [files EXCEPT ![c] = v]
    /\ UNCHANGED <<running, job, ended>>

Accept(who, cs) ==
    /\ job = {}
    /\ who \in Callers => ended[who] = "none"
    /\ job' = {[by |-> who, conns |-> cs, fresh |-> {}]}
    /\ UNCHANGED <<files, running, ended>>

(* Some of the connections are rebuilt; it counts for those in `fresh`.    *)
Rebuild(cs, fresh) ==
    \E j \in job :
        /\ cs \subseteq j.conns /\ fresh \subseteq cs
        /\ running' = [c \in Conns |-> IF c \in cs THEN files[c] ELSE running[c]]
        /\ job' = {[j EXCEPT !.fresh = @ \cup fresh]}
        /\ UNCHANGED <<files, ended>>

End(ok) ==
    \E j \in job :
        /\ ok => j.fresh = j.conns
        /\ job' = {}
        /\ ended' = [h \in Callers |-> IF h # j.by THEN ended[h]
                                       ELSE IF ok THEN "ok" ELSE "failed"]
        /\ UNCHANGED <<files, running>>

Restart ==
    /\ running' = files
    /\ job' = {}
    /\ ended' = [h \in Callers |-> IF \E j \in job : j.by = h THEN "restarted" ELSE ended[h]]
    /\ UNCHANGED files

Next ==
    \/ \E c \in Conns, v \in Contents : Save(c, v)
    \/ \E who \in Askers : Accept(who, Conns) \/ \E c \in Conns : Accept(who, {c})
    \/ \E cs \in SUBSET Conns : \E fresh \in SUBSET cs : Rebuild(cs, fresh)
    \/ \E ok \in BOOLEAN : End(ok)
    \/ Restart

Spec == Init /\ [][Next]_vars
=============================================================================
