---------------------------- MODULE MCTaskOwners ----------------------------
(* Two configured tasks, of which the second may be one that runs once; the *)
(* slots are so few that the table can fill up.                             *)
EXTENDS TaskOwners

MCCycle   == [i \in 0 .. 1 |-> "cycle"]
MCInit    == [i \in 0 .. 1 |-> IF i = 1 THEN "init" ELSE "cycle"]
MCConfigs == {[total |-> 2, class |-> MCCycle], [total |-> 2, class |-> MCInit],
              [total |-> 1, class |-> MCCycle]}
MCModes   == {"off", "tcp", "udp"}
MCTcp     == {"off", "tcp"}

\* What follows a Create_Task that failed is left out.
Room == ~full
=============================================================================
