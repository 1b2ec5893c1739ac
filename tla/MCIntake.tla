------------------------------ MODULE MCIntake ------------------------------
(* Three casts: two requests with one key; two overlapping Drive polls; a    *)
(* watcher whose files are rewritten.                                        *)
EXTENDS Intake, TLC

CONSTANTS c1, c2, p1, p2, w1

MCCasts == {{c1, c2}, {p1, p2}, {w1}}

=============================================================================
