------------------------------- MODULE Gripper -------------------------------
(***************************************************************************)
(* gripper_node: closes and opens the jaw (motor 7) on two services, and   *)
(* tells from the motor's feedback whether a block is held.                *)
(*                                                                         *)
(* One thread runs the services, the feedback callback and a 100 Hz timer, *)
(* each to completion.  Jaw angles are integers that grow as the jaw       *)
(* closes; the torque is abstracted to whether it reaches the drop         *)
(* threshold.  The jaw and the block are the world around the node.        *)
(***************************************************************************)
EXTENDS Integers

CONSTANTS
  QOpen,        \* q_open
  QClosedMin,   \* q_closed_min
  Delta,        \* delta_overclose
  Margin,       \* the 0.01 rad of both comparisons
  SettleTicks,  \* grasp_settle_ticks
  BlockAt,      \* where a block between the fingers stops the jaw
  JawStops      \* the angles at which the jaw may be seen

QClose == QClosedMin - Delta

ASSUME JawAssumption ==
  /\ QOpen \in Int /\ QClosedMin \in Int /\ Delta \in Int /\ Margin \in Nat \ {0}
  /\ BlockAt \in Int /\ JawStops \subseteq Int
  /\ QOpen < BlockAt /\ BlockAt < QClose
  /\ SettleTicks \in Nat \ {0}

VARIABLES
  grip,    \* _state
  qDes,    \* _q_des, which every timer callback sends as a command
  settle,  \* _settle_count
  jaw,     \* _motor.q
  loaded,  \* abs(_motor.tau_measured) >= tau_drop_threshold
  stale,   \* the last feedback is older than state_timeout_s
  report,  \* the last message about a grasp: none, success, failure or drop
  block    \* the world: a block is between the fingers

gripperVars == <<grip, qDes, settle, jaw, loaded, stale, report, block>>

GripperInit ==
  /\ grip = "OPEN" /\ qDes = QOpen /\ settle = 0
  /\ jaw = QOpen /\ loaded = FALSE /\ stale = TRUE
  /\ report = "none"
  /\ block = FALSE

-----------------------------------------------------------------------------
(* Services *)

\* _srv_open
Open ==
  /\ grip' = "OPENING"
  /\ qDes' = QOpen
  /\ settle' = 0
  /\ UNCHANGED <<jaw, loaded, stale, report, block>>

\* _srv_close
Close ==
  /\ grip' = "CLOSING"
  /\ qDes' = QClose
  /\ settle' = 0
  /\ UNCHANGED <<jaw, loaded, stale, report, block>>

-----------------------------------------------------------------------------
(* Timer *)

\* Mutant: the count restarts at every tick.
Settling_Restarts ==
  /\ grip = "CLOSING" /\ settle + 1 < SettleTicks
  /\ settle' = 0
  /\ UNCHANGED <<grip, qDes, jaw, loaded, stale, report, block>>

Settling ==
  /\ grip = "CLOSING" /\ settle + 1 < SettleTicks
  /\ settle' = settle + 1
  /\ UNCHANGED <<grip, qDes, jaw, loaded, stale, report, block>>

Settled == grip = "CLOSING" /\ settle + 1 >= SettleTicks

\* The verdict is taken from the last feedback, however old it is.
ClosedOnAir ==
  /\ Settled
  /\ jaw > QClosedMin - Margin
  /\ grip' = "FAIL" /\ report' = "failure"
  /\ settle' = settle + 1
  /\ UNCHANGED <<qDes, jaw, loaded, stale, block>>

Grasped ==
  /\ Settled
  /\ jaw <= QClosedMin - Margin
  /\ grip' = "GRASPED" /\ report' = "success"
  /\ settle' = settle + 1
  /\ UNCHANGED <<qDes, jaw, loaded, stale, block>>

BlockGone == jaw < QClose + Margin \/ ~loaded

\* Mutant: the node goes on watching.
Dropped_KeepsState ==
  /\ grip = "GRASPED" /\ ~stale
  /\ BlockGone
  /\ report' = "drop"
  /\ UNCHANGED <<grip, qDes, settle, jaw, loaded, stale, block>>

\* The jaw stays commanded closed.
Dropped ==
  /\ grip = "GRASPED" /\ ~stale
  /\ BlockGone
  /\ grip' = "OPEN" /\ report' = "drop"
  /\ UNCHANGED <<qDes, settle, jaw, loaded, stale, block>>

OnGripperTimer == Settling \/ ClosedOnAir \/ Grasped \/ Dropped

-----------------------------------------------------------------------------
(* Feedback and the world *)

Toward(a, b) == IF a <= b THEN a .. b ELSE b .. a

\* Where the jaw is on its way to: the command, or the block in between.
JawEnd == IF block /\ qDes > BlockAt THEN BlockAt ELSE qDes

\* _on_state: the jaw is somewhere on its way to where it ends.  A jaw pressed
\* on a block feels the torque; one that has reached its command feels none.
OnState(position, torque) ==
  /\ position \in Toward(jaw, JawEnd)
  /\ position = JawEnd => (torque <=> JawEnd # qDes)
  /\ jaw' = position /\ loaded' = torque /\ stale' = FALSE
  /\ UNCHANGED <<grip, qDes, settle, report, block>>

FeedbackLost ==
  /\ stale' = TRUE
  /\ UNCHANGED <<grip, qDes, settle, jaw, loaded, report, block>>

\* A block comes between the open fingers, or leaves them at any time.
BlockMoves ==
  /\ block \/ jaw <= BlockAt
  /\ block' = ~block
  /\ UNCHANGED <<grip, qDes, settle, jaw, loaded, stale, report>>

World ==
  \/ \E position \in JawStops, torque \in BOOLEAN : OnState(position, torque)
  \/ FeedbackLost
  \/ BlockMoves

GripperNext ==
  \/ Open \/ Close
  \/ Settling \/ ClosedOnAir \/ Grasped \/ Dropped
  \/ World

GripperSpec == GripperInit /\ [][GripperNext]_gripperVars

-----------------------------------------------------------------------------
(* Properties *)

GripperTypeOK ==
  /\ grip \in {"OPEN", "CLOSING", "GRASPED", "OPENING", "FAIL"}
  /\ qDes \in {QOpen, QClose}
  /\ settle \in 0 .. SettleTicks
  /\ jaw \in Int
  /\ loaded \in BOOLEAN /\ stale \in BOOLEAN /\ block \in BOOLEAN
  /\ report \in {"none", "success", "failure", "drop"}

\* An open call silences the node: while the jaw is commanded open nothing is
\* reported about a grasp, whichever state the call interrupted.
NoReportWhenOpening == [][report' # report => qDes = QClose]_report

\* The node is a grasp service: every close call is judged at most once and
\* every success dropped at most once, whatever calls, ticks, late or missing
\* feedback come in between.
Grasping == INSTANCE GraspService WITH
  hand <- CASE grip = "CLOSING" -> "closing" [] grip = "GRASPED" -> "holding"
            [] OTHER -> "idle",
  closed <- qDes = QClose
ImplementsGraspService == Grasping!GraspSpec

\* A close call is answered, or withdrawn by an open call, even when the
\* feedback has stopped, unless close calls keep coming.
CloseIsAnswered ==
  <>[][~Close]_gripperVars => (grip = "CLOSING" ~> grip # "CLOSING")

\* "Empty grasp: gripper reaches q_closed_min - delta -> no block": a jaw that
\* has reached its command is not reported as holding a block.
EmptyGraspIsSeen == [][report' = "success" => jaw < QClose]_report

\* The inductive strengthening of GripperTypeOK and NoReportWhenOpening: the
\* count never passes SettleTicks because closing ends with it, and the node
\* watches the jaw only while it commands it closed.
SettleInv == grip = "CLOSING" => settle < SettleTicks
WatchInv == grip \in {"CLOSING", "GRASPED"} => qDes = QClose

=============================================================================
