----------------------------- MODULE GraspService -----------------------------
(***************************************************************************)
(* What gripper_node promises: a close call is judged once, a drop is      *)
(* reported once and only of a grasp that was reported as a success, and   *)
(* an open call ends both.                                                 *)
(***************************************************************************)

VARIABLES
  hand,    \* idle, closing or holding
  closed,  \* the jaw is commanded closed
  report   \* the last message about a grasp: none, success, failure or drop

graspVars == <<hand, closed, report>>

GraspInit == hand = "idle" /\ closed = FALSE /\ report = "none"

OpenHand == hand' = "idle" /\ closed' = FALSE /\ UNCHANGED report

CloseHand == hand' = "closing" /\ closed' = TRUE /\ UNCHANGED report

Judge(success) ==
  /\ hand = "closing"
  /\ hand' = IF success THEN "holding" ELSE "idle"
  /\ report' = IF success THEN "success" ELSE "failure"
  /\ UNCHANGED closed

\* The jaw stays commanded closed.
LoseGrasp ==
  /\ hand = "holding"
  /\ hand' = "idle" /\ report' = "drop"
  /\ UNCHANGED closed

GraspNext ==
  OpenHand \/ CloseHand \/ (\E success \in BOOLEAN : Judge(success)) \/ LoseGrasp

GraspSpec == GraspInit /\ [][GraspNext]_graspVars

=============================================================================
