----------------------------- MODULE ControlGate -----------------------------
(***************************************************************************)
(* The control gate of control_tuning: a file with one flag, which control *)
(* sessions set while they run and parameter tools look at before they     *)
(* start.  The file is replaced as a whole, and nothing but the flag and   *)
(* the time of its change is in it, so setting it is one step.             *)
(***************************************************************************)

VARIABLE gate  \* control_active

GateInit == gate = FALSE

SetControlActive(active) == gate' = active

=============================================================================
