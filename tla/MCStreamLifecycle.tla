------------------------- MODULE MCStreamLifecycle -------------------------
(* StreamLifecycle on small instances.                                     *)
EXTENDS StreamLifecycle, TLC

CONSTANTS t1, t2, s1, s2, s3

Symmetry2 == Permutations({t1, t2}) \cup Permutations({s1, s2})

(* A bound: the safety runs look at the states in which a race happened, or *)
(* the firmware stopped, and do not go on from there.  The theorems say more: *)
(* a name created twice does no harm to the counts.                         *)
NoRace == raced = {} /\ ~crashed
=============================================================================
