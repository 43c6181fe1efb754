---------------------------- MODULE NullPointer -----------------------------
(* NULL, of which the modules that are checked together have one.          *)
CONSTANT Null
=============================================================================
