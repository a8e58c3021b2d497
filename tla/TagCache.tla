------------------------------ MODULE TagCache ------------------------------
(***************************************************************************)
(* What the tag table promises its readers: a row shows a value the PLC    *)
(* has had, or none.  A value shown is no older than a write that has      *)
(* returned, and it is replaced by one that is not older, or withdrawn.    *)
(*                                                                         *)
(* Values are versions: how often the word of a tag has been written.      *)
(***************************************************************************)
EXTENDS Naturals

CONSTANTS
    Tags,
    Rows,  \* the rows that show a tag: its own, aliases, elements
    Root   \* row -> tag

VARIABLES
    plc,   \* tag -> version the PLC has
    acked, \* tag -> version no older than which every write returned
    shown  \* row -> the version it shows, as a set of one; {} for none

vars == <<plc, acked, shown>>

Init ==
    /\ plc = [t \in Tags |-> 0]
    /\ acked = [t \in Tags |-> 0]
    /\ shown = [r \in Rows |-> {}]

(* Some rows show nothing any more.                                        *)
Withdrawn == \A r \in Rows : shown'[r] \in {shown[r], {}}

Withdraw == Withdrawn /\ UNCHANGED <<plc, acked>>

Write(t) ==
    /\ plc' = [plc EXCEPT ![t] = @ + 1]
    /\ UNCHANGED <<acked, shown>>

(* A write returns that has left version v or an older one behind.         *)
Return(t, v) ==
    /\ v <= plc[t]
    /\ acked' = [acked EXCEPT ![t] = IF v > @ THEN v ELSE @]
    /\ Withdrawn
    /\ \A r \in Rows : Root[r] = t => \A u \in shown'[r] : u >= v
    /\ UNCHANGED plc

(* Version v of tag t has been read and is shown, except in rows that      *)
(* cannot take it; they show nothing.                                      *)
Confirm(t, v) ==
    /\ v \in acked[t] .. plc[t]
    /\ \A r \in Rows : IF Root[r] = t
                       THEN shown'[r] \in {{v}, {}} /\ \A u \in shown[r] : u <= v
                       ELSE shown'[r] = shown[r]
    /\ UNCHANGED <<plc, acked>>

Next ==
    \/ Withdraw
    \/ \E t \in Tags : Write(t)
    \/ \E t \in Tags : \E v \in 0 .. plc[t] : Return(t, v) \/ Confirm(t, v)

Spec == Init /\ [][Next]_vars

=============================================================================
