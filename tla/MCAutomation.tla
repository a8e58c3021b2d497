----------------------------- MODULE MCAutomation -----------------------------
(* Small instance of Automation: two items, two bodies that set the same PLC *)
(* tag differently and one that sets a memory tag.                            *)
EXTENDS Automation, TLC

CONSTANTS s1, s2, b1, b2, b3, p, m

item(id, body, on, fresh) == [id |-> id, body |-> body, enabled |-> on, fresh |-> fresh]

(* The first two swap the items, disable one and edit the other; a load of   *)
(* the third fails after an item that sets a memory tag.                     *)
SmallConfigs == {
    [ok |-> TRUE,  items |-> <<item(s2, b3, TRUE, FALSE), item(s1, b1, TRUE, TRUE)>>],
    [ok |-> TRUE,  items |-> <<item(s1, b2, TRUE, FALSE), item(s2, b3, FALSE, TRUE)>>],
    [ok |-> FALSE, items |-> <<item(s2, b3, TRUE, FALSE)>>]}

SmallOutTag == (b1 :> p) @@ (b2 :> p) @@ (b3 :> m)
SmallOutValue == (b1 :> "v1") @@ (b2 :> "v2") @@ (b3 :> "v1")
=============================================================================
