--------------------------- MODULE MCAppAccounts ---------------------------
(* A small instance of AppAccounts: two users, one tag.                    *)
EXTENDS AppAccounts

CONSTANTS u, v, t

MCUser == {u, v}
MCTag == {t}

(* No definition tells the two users apart.                                *)
Symmetry == Permutations(MCUser)
=============================================================================
