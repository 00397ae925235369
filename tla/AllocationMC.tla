---------------------------- MODULE AllocationMC ----------------------------
(* Three slots and one request at a time, under a limit of one or two: for *)
(* what needs no race.                                                     *)
EXTENDS Allocation

CONSTANTS s1, s2, s3, w1

ThreeSlots == {s1, s2, s3}
OneWorker == {w1}
SomeLimits == {1, 2}
=============================================================================
