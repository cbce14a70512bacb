------------------------------ MODULE MCLedger ------------------------------
(* A small instance of Ledger. *)
EXTENDS Ledger
CONSTANTS alice, bob
MCGenesis == <<[key |-> alice, value |-> 4]>>
=============================================================================
