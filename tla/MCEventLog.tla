---------------------------- MODULE MCEventLog ----------------------------
(* Small instances of EventLog for TLC.                                    *)
EXTENDS EventLog

CONSTANTS a, b, c

\* Two nodes in one superstep, the same followed by a third, two nodes one after
\* the other, and one node.
SideBySide == <<{a, b}>>
TwoThenOne == <<{a, b}, {c}>>
InARow == <<{a}, {b}>>
Alone == <<{a}>>
===========================================================================
