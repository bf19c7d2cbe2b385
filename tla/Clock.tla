------------------------------- MODULE Clock -------------------------------
(***************************************************************************)
(* The wall clock that the TTLMaps of internal/analyzer read.              *)
(***************************************************************************)

CONSTANT MaxTime        \* bound of the model: the clock stops here

VARIABLE now            \* time.Now()
=============================================================================
