------------------------------ MODULE MCMachine ------------------------------
(* Programs that are started by hand on one machine and share files there: the *)
(* motor tools with the nodes and streams beside them; those that train and    *)
(* evaluate contact detectors; and what the data and the metrics are that those *)
(* work on.  They have no file in common and one group at a time is looked at. *)
(*                                                                            *)
(* For TLC: two tools that set different entries, or one that sets and one    *)
(* that saves, with a node that looks both up; two streams with or without a  *)
(* tool beside them; two trainings and an evaluation of the stage or an       *)
(* ablation; and two short test episodes, evaluated in three ways.            *)
EXTENDS MotorTools, ContactEvaluation, LearningFiles

VARIABLE part  \* which of them: tools, files or data

machineVars == <<part, toolVars, datasetVars, evaluationVars, learningVars>>

NoTools ==
  crew = {} /\ GateInit /\ StoreInit /\ StreamInit /\ tuned # Missing

MachineInit ==
  /\ DatasetInit /\ EvaluationStart /\ LearningInit
  /\ \/ part = "tools" /\ ToolsInit
     \/ part \in {"files", "data"} /\ NoTools

InTools(Step) ==
  part = "tools" /\ Step /\ UNCHANGED <<part, datasetVars, evaluationVars, learningVars>>

MachineNext ==
  \/ InTools(ToolsNext)
  \/ part = "files" /\ LearningNext /\ UNCHANGED <<part, toolVars, datasetVars, evaluationVars>>
  \/ part = "data" /\ DatasetNext /\ UNCHANGED <<part, toolVars, evaluationVars, learningVars>>
  \/ part = "data" /\ EvaluationNext /\ UNCHANGED <<part, toolVars, learningVars>>

MachineSpec == MachineInit /\ [][MachineNext]_machineVars

\* What ToolsFairSpec assumes.
MachineFairSpec ==
  /\ MachineSpec
  /\ \A t \in Tuners : WF_toolVars(InTools(Tool(t)))
  /\ \A r \in Readers : WF_toolVars(InTools(Node(r)))
  /\ \A s \in Streams : WF_toolVars(InTools(Stream(s)))
  /\ WF_toolVars(InTools(Second))

-----------------------------------------------------------------------------
(* Instances *)

CONSTANTS t1, t2, t3, r1, r2, n1, s1, s2, e1, e2

MCUpdates == (t1 :> {e1}) @@ (t2 :> {e1, e2}) @@ (t3 :> {})
MCNodeOf == (r1 :> n1) @@ (r2 :> n1)
MCCrews == {{t1, t2, r1}, {t1, t3, r1}, {t1, r1, r2}, {s1, s2}, {t1, s1}}
GateCrews == {{t1, s1, s2}}

-----------------------------------------------------------------------------
(* Training and evaluation *)

MCTags == <<"a">>
Command(directory, final, reuse) == [in |-> directory, final |-> final, reuse |-> reuse]
MCCommands == {Command("stage", FALSE, {}), Command("a", FALSE, {}), Command("a", TRUE, {"stage"})}

\* No path; the best of two directories in one, with a suffix; the final model in place of the other.
At(directory, name) == [in |-> directory, file |-> name]
MCOptions == {[given |-> <<>>, suffix |-> FALSE],
              [given |-> [role \in {"threshold", "scaler", "mlp"} |-> At("stage", role)], suffix |-> TRUE],
              [given |-> [role \in {"mlp"} |-> At("a", "mlp_final")], suffix |-> FALSE]}

-----------------------------------------------------------------------------
(* Data and metrics *)

Torque(start, end, tau) ==
  [kind |-> "joint_torque", start |-> start, end |-> end, tau |-> tau, magnitude |-> Norm(tau)]
Force(start, end, tau, magnitude) ==
  [kind |-> "body_force", start |-> start, end |-> end, tau |-> tau, magnitude |-> magnitude]

\* Events that overlap and cancel each other, or two that are apart.
MCSplits ==
  <<[episodes |-> 1, disturbances |-> {<<Torque(0, 2, 2)>>}],
    [episodes |-> 2, disturbances |-> {<<Torque(0, 2, 2), Force(1, 3, -2, 1)>>,
                                       <<Torque(0, 1, 1), Torque(2, 3, 3)>>}]>>

Way(window, stride, consecutive, margin, radius, bins) ==
  [window |-> window, stride |-> stride, consecutive |-> consecutive, margin |-> margin,
   radius |-> radius, bins |-> bins]

\* Bins that hold every magnitude, and bins that do not; a margin that reaches into
\* the next episode.
MCSettings == {Way(1, 1, 2, 1, 1, <<<<1, 2>>, <<2, 3>>>>), Way(2, 1, 1, 1, 0, <<<<1, 3>>>>),
               Way(1, 2, 1, 2, 0, <<<<1, 2>>>>)}

=============================================================================
