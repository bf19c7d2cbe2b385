----------------------------- MODULE MCCapture -----------------------------
(* Configuration files for TLC; the last one does not pass Validate.       *)
EXTENDS Capture

SomeFiles ==
    {[interface |-> "eth0", mode |-> "native", pps |-> 1, windowSeconds |-> 1,
      distinctPorts |-> 1, scanWindow |-> <<10>>, coarsePPSLimit |-> p[1], sampleEveryN |-> p[2]]
        : p \in {<<3, 2>>, <<5, 0>>}}

OverflowingFiles == {[f EXCEPT !.coarsePPSLimit = 4] : f \in SomeFiles}
=============================================================================
