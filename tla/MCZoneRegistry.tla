--------------------------- MODULE MCZoneRegistry ---------------------------
(* Instantiates ZoneRegistry for TLC: two accepted links (two readers and *)
(* two closers), master links, zone ids 1..Z.                             *)
EXTENDS ZoneRegistry, TLC

CONSTANTS a1, a2, m1, m2

MCAccepted == {a1, a2}
MCSymmetry == Permutations(MCAccepted)
=============================================================================
