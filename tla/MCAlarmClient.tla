--------------------------- MODULE MCAlarmClient ---------------------------
(* An alarm of a "high" condition with hysteresis and a delayed one on the    *)
(* same tag.                                                                 *)
EXTENDS AlarmClient, TLC

CONSTANTS a1, a2, t1, lo, mid, hi

High == [tag |-> t1, enabled |-> TRUE, site |-> TRUE, delayed |-> FALSE,
         on |-> {hi}, hold |-> {mid, hi}]
Delayed  == [High EXCEPT !.delayed = TRUE]
Low      == [High EXCEPT !.on = {lo}, !.hold = {lo}]
Disabled == [Delayed EXCEPT !.enabled = FALSE]

SmallLocal == a1 :> Low
SmallFiles == {a1 :> High @@ a2 :> Delayed, a2 :> Disabled, SmallLocal}
=============================================================================
