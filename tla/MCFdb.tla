------------------------------- MODULE MCFdb -------------------------------
(* Instantiates Fdb for TLC: three clients and two port ids, so the pool  *)
(* runs dry and ids are reused; the code's timing constants scaled down so *)
(* port migration (maybeExpire) and the aging sweep both happen.          *)
EXTENDS Fdb, TLC

CONSTANTS p1, p2, p3, m1, m2

MCPorts == {p1, p2, p3}
MCMACs == {m1, m2}
MCSymmetry == Permutations(MCPorts) \cup Permutations(MCMACs)
============================================================================
