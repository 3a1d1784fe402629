------------------------------- MODULE EeXyz -------------------------------
(* ee_xyz_trajectory_node.py: goals for the end effector come from a topic    *)
(* and from a terminal, over a queue with one place; the timer takes what is  *)
(* there, asks inverse kinematics for a pose and follows a quintic to it.     *)
(* What the solver finds is any pose, or nothing.                             *)
(*                                                                            *)
(* The terminal is read by a thread of its own, so that what it does falls    *)
(* between the steps of the callbacks.  phase is "waiting" until              *)
(* ctrl_initialized, "moving" while there is an active_traj (the only segment) *)
(* and "done" otherwise; reference is ctrl_q_des.                             *)
EXTENDS MotionNode

CONSTANTS LeastDuration, \* min_traj_duration
          NoGoal

ASSUME XyzAssumption == LeastDuration \in Nat \ {0}

VARIABLES queue,         \* goal_queue
          requested,     \* last_requested_goal_xyz
          accepted,      \* last_goal_xyz
          following,     \* the goal of active_traj
          known,         \* last_connected_ids
          asking         \* how far each source is with a goal

xyzVars == <<queue, requested, accepted, following, known, asking>>

\* The terminal's thread, and the callbacks of the two topics.
Sources == {"terminal", "topic"}

Resting == [step |-> "resting", goal |-> NoGoal]

XyzInit ==
  /\ queue = <<>> /\ requested = NoGoal /\ accepted = NoGoal /\ following = NoGoal
  /\ known = {}
  /\ asking = [s \in Sources |-> Resting]

(* --------------------------------- goals ---------------------------------- *)

\* A callback of the topics and the timer are in one thread.
CallbackRuns == asking["topic"].step # "resting"

Asks(s, from, to, goal) ==
  /\ asking[s].step = from
  /\ asking' = [asking EXCEPT ![s] = [step |-> to, goal |-> goal]]
  /\ UNCHANGED motionVars

\* _is_duplicate_goal, when there is no active trajectory.
Latest == IF accepted # NoGoal THEN accepted ELSE requested

NewGoal(s) ==
  /\ \E g \in config.goals :
       IF following # NoGoal THEN Asks(s, "resting", "comparing", g)
       ELSE /\ g # Latest
            /\ Asks(s, "resting", "new", g)
  /\ UNCHANGED <<queue, requested, accepted, following, known>>

\* The goal of active_traj is read again: by now the timer may have ended it,
\* and the attribute of None ends the terminal's thread.
Compare(s) ==
  /\ Asks(s, "comparing", IF following = NoGoal THEN "dead"
                          ELSE IF following = asking[s].goal THEN "resting" ELSE "new",
          asking[s].goal)
  /\ UNCHANGED <<queue, requested, accepted, following, known>>

Request(s) ==
  /\ Asks(s, "new", "requested", asking[s].goal)
  /\ requested' = asking[s].goal
  /\ UNCHANGED <<queue, accepted, following, known>>

Drain(s) ==
  /\ Asks(s, "requested", "drained", asking[s].goal)
  /\ queue' = <<>>
  /\ UNCHANGED <<requested, accepted, following, known>>

\* A place that the other source has taken meanwhile stays taken (queue.Full).
Put(s) ==
  /\ Asks(s, "drained", "resting", NoGoal)
  /\ queue' = IF queue = <<>> THEN <<asking[s].goal>> ELSE queue
  /\ UNCHANGED <<requested, accepted, following, known>>

SourceGoesOn(s) == Compare(s) \/ Request(s) \/ Drain(s) \/ Put(s)

(* ------------------------------- trajectories ----------------------------- *)

\* The controller between the steps of one timer callback.
Controller ==
  [phase |-> phase, pose |-> reference, segments |-> segments, elapsed |-> elapsed,
   goal |-> following, accepted |-> accepted]

Lost == (config.controlled \cap known) \ Connected

\* reset_on_controlled_disconnect
AfterDisconnect(c) ==
  IF config.reset /\ Lost # {} THEN [c EXCEPT !.phase = "waiting", !.goal = NoGoal]
  ELSE c

\* _ensure_ctrl_initialized
Initialised(c) ==
  IF c.phase = "waiting" /\ config.controlled \subseteq Connected
  THEN [c EXCEPT !.phase = "done", !.pose = Overlay(Zero, [m \in config.controlled |->
                                                            samples[m].q])]
  ELSE c

\* _update_desired_from_active_traj
Updated(c) ==
  IF c.goal = NoGoal THEN c
  ELSE LET s == c.segments[1]
           there == [c EXCEPT !.pose = SampleSegment(s, c.elapsed)]
       IN IF c.elapsed < s.duration THEN there
          ELSE [there EXCEPT !.phase = "done", !.goal = NoGoal]

\* _start_trajectory_for_goal: without fresh feedback of the controlled motors
\* the goal is lost; the solver rejects it or gives a pose.
Started(c, goal) ==
  LET ready == Updated(Initialised(c))
      To(pose) ==
        [phase |-> "moving", pose |-> ready.pose, elapsed |-> 0,
         goal |-> goal, accepted |-> goal,
         segments |-> <<Segment(ready.pose, pose,
                                QuinticDuration(ready.pose, pose, LeastDuration))>>]
  IN IF ready.phase = "waiting" THEN {ready}
     ELSE {ready} \cup {To(Overlay(Zero, d)) : d \in [config.controlled -> config.range]}

AfterGoal(c) == IF queue = <<>> THEN {c} ELSE Started(c, queue[1])

\* The controlled motors are sent to the desired pose, the others, with no
\* gains, to where they are.
XyzPublishes(c) ==
  /\ phase' = c.phase /\ segments' = c.segments /\ elapsed' = c.elapsed
  /\ reference' = c.pose /\ following' = c.goal /\ accepted' = c.accepted
  /\ IF Connected # {} /\ c.phase # "waiting"
     THEN Publish([m \in MotorIds |-> IF m \in config.controlled THEN c.pose[m]
                                      ELSE samples[m].q], Connected)
     ELSE UNCHANGED <<config, samples, command, sinceCmd>>

XyzTimer ==
  /\ ~CallbackRuns
  /\ \E c \in AfterGoal(AfterDisconnect(Controller)) :
       XyzPublishes(IF Connected = {} THEN c ELSE Updated(Initialised(c)))
  /\ queue' = <<>> /\ known' = Connected
  /\ UNCHANGED <<idx, repeated, requested, asking>>

XyzTick == TimePasses(CapAtEnd(elapsed + 1)) /\ UNCHANGED xyzVars

XyzNext ==
  /\ config.node = "xyz"
  /\ \/ \E s \in config.sources : NewGoal(s) \/ SourceGoesOn(s)
     \/ ~CallbackRuns /\ OnMotorStates(Int) /\ UNCHANGED xyzVars
     \/ XyzTimer \/ XyzTick

=============================================================================
