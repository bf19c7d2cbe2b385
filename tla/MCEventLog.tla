----------------------------- MODULE MCEventLog -----------------------------
(* Queries for TLC: limits and offsets around the log's length, around the *)
(* largest int of four bits, and unreadable ones.                          *)
EXTENDS EventLog

SomeQueries ==
    {[limit |-> q[1], offset |-> q[2], reason |-> AnyReason, since |-> q[3]] : q \in
        {<< << >>, << >>, 0>>, << <<2>>, <<-1>>, 2>>, << <<-1>>, <<1>>, 0>>, << <<1>>, <<1>>, 0>>,
         << <<1>>, <<3>>, 0>>, << <<7>>, <<1>>, 0>>, << <<7>>, <<7>>, -1>>}}
=============================================================================
