----------------------------- MODULE MCDhcpPool -----------------------------
(* DhcpPool with three clients on a network of four addresses, two of them  *)
(* in the pool.                                                             *)
EXTENDS DhcpPool, TLC

CONSTANTS m1, m2, m3

Addresses == 1 .. 4
Symmetry  == Permutations({m1, m2, m3})
=============================================================================
