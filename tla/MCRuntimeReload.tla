-------------------------- MODULE MCRuntimeReload --------------------------
(* Small instances of RuntimeReload for TLC.                               *)
EXTENDS RuntimeReload

CONSTANTS c1, c2, h1, h2

AnyContent == [c \in Conns |-> Contents]

(* The second connection is only deleted, or saved with what is not JSON:    *)
(* the two contents that bear upon a reload of the first one.              *)
SecondBrokenOrGone == [c \in Conns |-> IF c = c1 THEN Contents ELSE Broken \cup Gone]

(* A caller does not take its number while another one holds a number that *)
(* is not in the slot yet.                                                 *)
OneNumberAtATime == Cardinality({h \in Callers : caller[h].phase = "numbered"}) <= 1
=============================================================================
