------------------------------ MODULE MCKernel ------------------------------
(* Two task types of two slots.  d1 and d2 share a function, so Create_Task *)
(* takes one for the other; d3 has one of its own; e1 is of the other type. *)
EXTENDS Kernel, TLC

CONSTANTS d1, d2, d3, e1

MCAll     == {d1, d2, d3, e1}
MCPair    == {d1, d3}
MCType    == [d \in Descs |-> IF d = e1 THEN 1 ELSE 0]
MCRun     == [d \in Descs |-> IF d = d2 THEN d1 ELSE d]
MCTimer   == [d \in Descs |-> IF d = d2 THEN 0 ELSE 1]
MCCounter == [d \in Descs |-> 0]
MCDebug   == {d3}
MCNoDebug == {}

\* What follows a torn edit, of which almost all properties say nothing, is
\* left out.
Intact == ~torn
=============================================================================
