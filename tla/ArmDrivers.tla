------------------------------ MODULE ArmDrivers ------------------------------
(* The nodes that send commands over /motor_cmd_array.  The launch files      *)
(* start one that moves the arm, plan_node or one that plays a motion, and    *)
(* gripper_node beside it: they share no state, so that one at a time is      *)
(* looked at, each as a configuration.                                        *)
EXTENDS PlanNode, JointSweep, DatasetIk, EeXyz, Gripper

CONSTANT Configs    \* the nodes and parameters looked at

\* random_motion_gc_node stops at zero for its random motors only: one that is
\* commanded besides has its home at zero, which is the default.
ASSUME ConfigsAssumption ==
  \A c \in Configs :
    /\ c.node \in {"sweep", "random", "ik", "xyz"} => c.reported \subseteq Int
    /\ c.node = "xyz" => c.motion = "goals"
    /\ c.motion = "sine" => c.node = "sweep"
    /\ c.node \in {"random", "ik"} => c.range \subseteq Int
    /\ c.node = "ik" => c.center \in [MotorIds -> Int]
    /\ c.node = "random" =>
         /\ c.random \subseteq MotorIds /\ c.random # {}
         /\ c.home \in [MotorIds -> Int]
         /\ \A m \in c.commanded \ c.random : AbsDiff(c.home[m], 0) <= ZeroEps

\* How far from zero a node of motions finds and sends the motors.
Reach(c) == IF c.node = "sweep" THEN SweepReach ELSE MaxReach

Reachable(c) == -Reach(c) .. Reach(c)

\* A wave goes from each of its values to the next, and from the last to the first.
WaveFlows(wave) ==
  /\ Len(wave) \in Nat \ {0}
  /\ \A i \in 1 .. Len(wave) :
       AbsDiff(wave[i], wave[IF i = Len(wave) THEN 1 ELSE i + 1]) <= MaxSpeed

\* What the motors report, and every position the parameters name, is in reach.
ASSUME ReachAssumption ==
  \A c \in Configs :
    /\ c.node = "sweep" =>
         /\ c.reported \cap SweepPlausible \subseteq Reachable(c)
         /\ \A m \in DOMAIN c.fixed : c.fixed[m] \in Reachable(c)
         /\ c.motion \in {"waypoints", "custom", "default", "sine"}
         /\ c.motion = "waypoints" =>
              /\ Len(c.targets) \in Nat /\ DOMAIN c.targets = 1 .. Len(c.targets)
              /\ \A i \in DOMAIN c.targets :
                   /\ DOMAIN c.targets[i] \subseteq c.sweep
                   /\ \A m \in DOMAIN c.targets[i] : c.targets[i][m] \in Reachable(c)
         /\ c.motion = "custom" => {c.high, c.low} \subseteq Reachable(c)
         /\ c.motion \in {"default", "sine"} => c.amplitude \in 0 .. Reach(c)
         /\ c.motion = "sine" =>
              /\ c.center \in Reachable(c) /\ c.sineDuration \in Nat
              /\ WaveFlows(c.wave)
              /\ \A i \in 1 .. Len(c.wave) : c.wave[i] \in Reachable(c)
    /\ c.node \in {"random", "ik", "xyz"} => c.reported \cup c.range \subseteq Reachable(c)
    /\ c.node = "random" => \A m \in MotorIds : c.home[m] \in Reachable(c)
    /\ c.node = "ik" => \A m \in MotorIds : c.center[m] \in Reachable(c)

-----------------------------------------------------------------------------
(* The four nodes that play motions of their own *)

MotionsInit == MotionStart(Configs) /\ XyzInit

PlayTimer ==
  \/ config.node = "sweep" /\ SweepTimer /\ UNCHANGED xyzVars
  \/ config.node = "random" /\ RandomTimer /\ UNCHANGED xyzVars
  \/ config.node = "ik" /\ IkTimer /\ UNCHANGED xyzVars

PlayTick ==
  \/ config.node = "sweep" /\ SweepTick /\ UNCHANGED xyzVars
  \/ config.node = "random" /\ RandomTick /\ UNCHANGED xyzVars
  \/ config.node = "ik" /\ IkTick /\ UNCHANGED xyzVars

MotionsNext ==
  \/ (SweepNext \/ RandomNext \/ IkNext) /\ UNCHANGED xyzVars
  \/ XyzNext

-----------------------------------------------------------------------------
(* One driver at a time *)

driverVars == <<vars, motionVars, xyzVars, gripperVars>>

DriversInit == Init /\ MotionsInit /\ GripperInit

PlanDoes(Step) ==
  config.node = "plan" /\ Step /\ UNCHANGED <<motionVars, xyzVars, gripperVars>>

GripperDoes(Step) ==
  config.node = "gripper" /\ Step /\ UNCHANGED <<vars, motionVars, xyzVars>>

PlayerDoes(Step) == Step /\ UNCHANGED <<vars, gripperVars>>

DriversNext == PlanDoes(Next) \/ GripperDoes(GripperNext) \/ PlayerDoes(MotionsNext)

DriversSpec == DriversInit /\ [][DriversNext]_driverVars

\* The fairness of PlanNode, Gripper and the players, for the node that runs.
DriversFair ==
  /\ DriversSpec
  /\ WF_driverVars(PlanDoes(\E position \in Positions : OnStateArray(position)))
  /\ SF_driverVars(PlanDoes(OnTimer))
  /\ WF_driverVars(PlanDoes(Tick))
  /\ WF_driverVars(GripperDoes(OnGripperTimer))
  /\ WF_driverVars(PlayerDoes(PlayTimer))
  /\ WF_driverVars(PlayerDoes(PlayTick))

-----------------------------------------------------------------------------
(* Why motions stop at zero *)

\* What was heard of a motor is a position, and whatever the motion is, it has its
\* waypoints until it repeats.
MotionInv ==
  /\ config \in Configs
  /\ samples \in [MotorIds -> [q : Int, age : Int]]
  /\ FirstPassThroughZero

=============================================================================
