--------------------------- MODULE CallingThreads ---------------------------
(* The threads that call the parts of the library that are checked         *)
(* together.                                                               *)
CONSTANT Threads
=============================================================================
