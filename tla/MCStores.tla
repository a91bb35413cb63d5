------------------------------ MODULE MCStores ------------------------------
(* Three transactions, on SQLite or, after a start without it, on JSON. *)
EXTENDS Stores

CONSTANTS x1, x2, x3
=============================================================================
