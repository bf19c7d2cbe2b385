------------------------------ MODULE Sources ------------------------------
(***************************************************************************)
(* What the detectors of internal/analyzer and the goroutine that asks     *)
(* them have in common.                                                    *)
(***************************************************************************)

CONSTANT Ips            \* the addresses packets come from
=============================================================================
