------------------------------ MODULE MCTable ------------------------------
(* Small instances of Table: more devices than the table has room for.     *)
EXTENDS Table

CONSTANTS a, b, c

MCEntries == {a, b, c}
=============================================================================
