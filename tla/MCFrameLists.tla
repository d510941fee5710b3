---------------------------- MODULE MCFrameLists ----------------------------
(* FrameLists with model values for the frames.                            *)
EXTENDS FrameLists, TLC

CONSTANTS f1, f2, f3

(* WholeUnlessHarmed says nothing of a state after a harmed one: its run    *)
(* looks at the harmed states and not beyond them.                          *)
UpToHarm == ~harmed
=============================================================================
