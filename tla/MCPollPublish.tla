--------------------------- MODULE MCPollPublish ---------------------------
(* Small instances of PollPublish for TLC.                                 *)
EXTENDS PollPublish, TLC

CONSTANTS t1, t2, d1, l1, w1, w2

(* Derived rows, when there are any, all belong to t1.                     *)
SourceT1 == [r \in Derived |-> t1]

OneLane == [t \in Tags |-> l1]
=============================================================================
