---------------------------- MODULE MCStreamData ----------------------------
(* StreamData on small instances.                                          *)
EXTENDS StreamData, TLC

CONSTANTS a, b, c, f1, f2, g1, n1, n2, n3

(* What a race leaves behind has no bound, and no property says more of it. *)
NoRace == raced = {}

(* One source with two frames and two destinations, one of two nodes.       *)
FanSrc   == f1 :> a @@ f2 :> a
FanDest  == n1 :> b @@ n2 :> b @@ n3 :> c
FanList  == a :> {b, c} @@ b :> {} @@ c :> {}
FanSymmetry == Permutations({f1, f2}) \cup Permutations({n1, n2})

(* A chain: b receives the frames of a and sends frames of its own to c.    *)
ChainSrc  == f1 :> a @@ g1 :> b
ChainDest == n1 :> b @@ n3 :> c
ChainList == a :> {b} @@ b :> {c} @@ c :> {}
=============================================================================
