---------------------------- MODULE PhoneExchange ----------------------------
(***************************************************************************)
(* What the phone promises its users: a telephone exchange.  A line joins   *)
(* two agents, an agent is on at most one line, and somebody who is on a    *)
(* line is busy for everybody else.                                        *)
(***************************************************************************)
EXTENDS FiniteSets

CONSTANT Agents

VARIABLE lines   \* the lines in use, each a set of two agents

OnLine == UNION lines

Init == lines = {}

Connect(a, b) ==
    /\ a # b
    /\ a \notin OnLine /\ b \notin OnLine
    /\ lines' = lines \cup {{a, b}}

\* One line, or several at once: the exchange closes those that have gone quiet.
Disconnect(closed) == lines' = lines \ closed

Next ==
    \/ \E a, b \in Agents : Connect(a, b)
    \/ \E closed \in SUBSET lines : Disconnect(closed)

Spec == Init /\ [][Next]_lines
=============================================================================
