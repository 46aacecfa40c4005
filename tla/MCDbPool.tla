-------------------------------- MODULE MCDbPool --------------------------------
(* DbPool for TLC: a pool of two connections, so that three jobs overload it. *)
EXTENDS DbPool

CONSTANTS g1, g2, g3, d1

Writer   == {d1}
Wrappers == {g1, g2, g3}
Readers  == {g1, g2}
=============================================================================
