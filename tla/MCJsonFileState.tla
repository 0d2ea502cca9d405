--------------------------- MODULE MCJsonFileState ---------------------------
(* A reader and two mutations of a store that has not been loaded. *)
EXTENDS JsonFileState

CONSTANTS r1, m1, m2
=============================================================================
