--------------------------- MODULE MCAccountView ----------------------------
(* A small instance of AccountView: two keys, one id, two values.          *)
EXTENDS AccountView

CONSTANTS k1, k2, i1, a1, a2

MCKey == {k1, k2}
MCId == {i1}
MCAcct == {a1, a2}
=============================================================================
