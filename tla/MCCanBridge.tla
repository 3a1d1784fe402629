---------------------------- MODULE MCCanBridge ----------------------------
(* Instances of CanBridge for TLC: per-motor tables with one value for all. *)
EXTENDS CanBridge

CONSTANTS Reach,    \* joint limits -Reach..Reach
          Rate, TauRate, TauMax

MCQMin == [m \in Motors |-> -Reach]
MCQMax == [m \in Motors |-> Reach]
MCHomeQ == [m \in Motors |-> 0]
MCMaxQdot == [m \in Motors |-> Rate]
MCMaxTauRate == [m \in Motors |-> TauRate]
MCTauLimit == [m \in Motors |-> TauMax]

\* Feedback outside the limits and at one of them.
FarStateQ == {-Reach - 1, Reach}
\* Commands at the other limit and outside the limits.
FarCmdQ == {-Reach, Reach + 1}
\* Torques within the clamp, of both signs, and beyond it.
WideCmdTau == {-TauMax, 1, TauMax + 1}

=============================================================================
