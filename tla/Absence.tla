------------------------------ MODULE Absence ------------------------------
(* The missing row, column or field: null and undefined in the code.       *)
CONSTANT None
=============================================================================
