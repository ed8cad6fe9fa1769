---------------------------- MODULE MCWorldEngine ----------------------------
(***************************************************************************)
(* Instances of WorldEngine for TLC.                                        *)
(***************************************************************************)
EXTENDS WorldEngine, TLC

CONSTANTS p1, p2, c1

OnePerson == {p1}
TwoPersons == {p1, p2}
OneControl == {c1}

NoBudget == [a \in Agents |-> "none"]
ControlPausedByBudget == [a \in Agents |-> IF a = c1 THEN "pause" ELSE "none"]
StoppedByBudget == [a \in Agents |-> IF a = p1 THEN "stop" ELSE "none"]
=============================================================================
