------------------------------ MODULE DatasetIk ------------------------------
(* dataset_ik_motion_node.py: all motors to zero, the centre of a workspace,  *)
(* then waypoints that inverse kinematics accepts.  What the solver finds is  *)
(* any pose that passes the checks.                                           *)
EXTENDS RandomMotion

CONSTANTS IkDuration,       \* segment_duration_s
          ZeroDuration      \* initial_to_zero_duration_s

ASSUME IkAssumption == {IkDuration, ZeroDuration} \subseteq Nat \ {0}

\* _validate_q_or_raise
PoseValid(q) == WithinLimits(q, 0) /\ Allowed(q)

\* The poses that may follow: every required motor moves far enough.
IkCandidates(from) ==
  {q \in {Overlay(from, d) : d \in [config.controlled -> config.range]} :
     /\ PoseValid(q)
     /\ \A m \in config.controlled : AbsDiff(q[m], from[m]) >= MinStep
     /\ SegmentIsSafe(from, q, SafeSamples)}

\* Durations are decided when the zero crossings are in.
Timed(segs) ==
  [i \in DOMAIN segs |->
     Segment(segs[i].start, segs[i].end,
             QuinticDuration(segs[i].start, segs[i].end,
                             IF i = 1 /\ config.zeroStart THEN ZeroDuration
                             ELSE IkDuration))]

RuntimeSegments(raw) == Timed(InsertZeroCrossings(raw, [d \in Nat |-> d]))

RuntimeValid(segs) ==
  \A i \in DOMAIN segs :
    PoseValid(segs[i].end) /\ SegmentIsSafe(segs[i].start, segs[i].end, SafeSamples)

Leg(from, to) == Segment(from, to, IkDuration)

\* To zero even from zero, then to the centre.
LeadIn ==
  LET zero == IF config.zeroStart THEN <<Leg(Measured, Zero)>> ELSE <<>>
      from == IF config.zeroStart THEN Zero ELSE Measured
  IN zero \o IF config.centerFirst THEN <<Leg(from, config.center)>> ELSE <<>>

IkBegins ==
  LET from == IF config.centerFirst THEN config.center
              ELSE IF config.zeroStart THEN Zero ELSE Measured
  IN /\ phase = "waiting" /\ Connected = MotorIds
     /\ \/ Die      \* a check that fails, or no more attempts
        \/ /\ config.centerFirst =>
                /\ PoseValid(config.center)
                /\ SegmentIsSafe(IF config.zeroStart THEN Zero ELSE Measured,
                                 config.center, SafeSamples)
           /\ \E one \in IkCandidates(from) : \E two \in IkCandidates(one) :
                LET segs == RuntimeSegments(LeadIn \o <<Leg(from, one), Leg(one, two)>>)
                IN RuntimeValid(segs) /\ BeginWith(segs, Connected)
           /\ UNCHANGED <<reference, repeated>>

IkFollows == phase = "moving" /\ Play(Connected)

\* The sequence begins again at its first segment, wherever the last one ended.
IkRepeats ==
  /\ phase = "moving" /\ AllOver /\ config.repeat
  /\ idx' = 1 /\ elapsed' = 0 /\ repeated' = TRUE
  /\ Publish(segments[1].start, Connected)
  /\ UNCHANGED <<phase, segments, reference>>

IkHolds ==
  /\ \/ phase = "moving" /\ AllOver /\ ~config.repeat
     \/ phase = "done"
  /\ Rest(segments[Len(segments)].end, Connected)

IkTimer ==
  /\ Connected # {}
  /\ IkBegins \/ IkFollows \/ IkRepeats \/ IkHolds

IkTick == TimePasses(CapAtEnd(elapsed + 1))

IkNext ==
  /\ config.node = "ik"
  /\ OnMotorStates(Int) \/ IkTimer \/ IkTick

=============================================================================
