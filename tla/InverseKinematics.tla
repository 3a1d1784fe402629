-------------------------- MODULE InverseKinematics --------------------------
(***************************************************************************)
(* One call of IKSolver.solve_with_policy: a damped least-squares search   *)
(* from every seed, and the choice among what the searches found.          *)
(*                                                                         *)
(* One joint stands for the arm and is counted in steps.  How far a pose   *)
(* is from the goal is a function of the pose; the direction of an update  *)
(* is not computed: it moves the joint by one step or not at all.          *)
(***************************************************************************)
EXTENDS Integers, Sequences

CONSTANTS
  Goals,         \* targets: how far each pose is from them
  Policies,      \* see PolicyAssumption
  Lower, Upper,  \* joint limits
  Period,        \* steps of a whole turn
  Tolerance,     \* tolerance, at which a search has converged
  Iterations     \* max_iterations

Poses == Lower .. Upper

\* ref, measured: q_ref and q_measured, -100 when it is not given; restarts: how
\* many random seeds; heuristic: the pose guessed from the target; residual:
\* max_ik_residual_accept_m; jump: max_joint_jump_rad, 0 when it is disabled.
NotMeasured == -100
ASSUME PolicyAssumption ==
  /\ Lower \in Int /\ Upper \in Int /\ Lower <= Upper /\ Lower > NotMeasured
  /\ Period \in Nat \ {0} /\ Iterations \in Nat \ {0} /\ Tolerance \in Nat
  /\ Goals \subseteq [Poses -> Nat]
  /\ \A p \in Policies : /\ {p.restarts, p.jump, p.residual} \subseteq Nat
                         /\ {p.ref, p.measured, p.heuristic} \subseteq Int
                         /\ p.residual >= Tolerance

VARIABLES
  goal,     \* goal_xyz
  policy,   \* what the caller gives besides
  seeds,    \* seeds the search has not started from yet
  search,   \* pose and iteration of the search that runs
  results,  \* ik_results
  verdict   \* IKPolicyResult

ikVars == <<goal, policy, seeds, search, results, verdict>>

Idle == [iters |-> 0, q |-> NotMeasured]
Pending == [reason |-> "pending"]

ClipToLimits(q) == IF q < Lower THEN Lower ELSE IF q > Upper THEN Upper ELSE q
Apart(p, q) == IF p < q THEN q - p ELSE p - q

IkStart(target, given, seedList) ==
  /\ goal = target /\ policy = given /\ seeds = seedList
  /\ search = Idle /\ results = <<>> /\ verdict = Pending

\* Seeds: the reference, where the arm is, zero, a guess, and random poses.
IkInit ==
  \E target \in Goals, p \in Policies : \E random \in [1 .. p.restarts -> Poses] :
    IkStart(target, p, <<p.ref>>
                       \o (IF p.measured = NotMeasured THEN <<>> ELSE <<p.measured>>)
                       \o <<0, p.heuristic>> \o random)

-----------------------------------------------------------------------------
(* solve *)

StartSearch ==
  /\ search = Idle /\ seeds # <<>>
  /\ search' = [iters |-> 1, q |-> ClipToLimits(Head(seeds))]
  /\ seeds' = Tail(seeds)
  /\ UNCHANGED <<goal, policy, results, verdict>>

Result(success, q, residual) == [success |-> success, q |-> q, residual |-> residual]

Converges ==
  /\ search # Idle
  /\ goal[search.q] <= Tolerance
  /\ results' = Append(results, Result(TRUE, search.q, goal[search.q]))
  /\ search' = Idle
  /\ UNCHANGED <<goal, policy, seeds, verdict>>

\* An update; after the last one the residual is still that of the pose before.
Iterate ==
  /\ search # Idle
  /\ goal[search.q] > Tolerance
  /\ \E step \in {-1, 0, 1} :
       LET q == ClipToLimits(search.q + step)
       IN IF search.iters < Iterations
          THEN /\ search' = [iters |-> search.iters + 1, q |-> q]
               /\ UNCHANGED results
          ELSE /\ results' = Append(results, Result(FALSE, q, goal[search.q]))
               /\ search' = Idle
  /\ UNCHANGED <<goal, policy, seeds, verdict>>

-----------------------------------------------------------------------------
(* solve_with_policy *)

\* The turns of a pose that lie within the limits.
Turns(q) == {p \in Poses : \E k \in -2 .. 2 : p = q + k * Period}

\* Mutant: a pose is taken as the search found it.
Aligned_AsFound(q, ref) == q

\* align_goal_to_reference_periodic: a joint that can turn once around may as well
\* end a turn away, where it is closer to the reference; the smaller one of two.
Aligned(q, ref) ==
  IF Upper - Lower # Period THEN q
  ELSE CHOOSE p \in Turns(q) : \A r \in Turns(q) :
         Apart(p, ref) < Apart(r, ref) \/ (Apart(p, ref) = Apart(r, ref) /\ p <= r)

Reference == IF policy.measured = NotMeasured THEN ClipToLimits(policy.ref)
             ELSE ClipToLimits(policy.measured)

Feasible == {i \in DOMAIN results :
               results[i].success \/ results[i].residual <= policy.residual}

\* The closest of the feasible poses, then the most exact, then the first found.
Best ==
  LET distance(i) == Apart(Aligned(results[i].q, Reference), Reference)
      before(i, j) ==
        \/ distance(i) < distance(j)
        \/ /\ distance(i) = distance(j)
           /\ results[i].residual < results[j].residual
              \/ (results[i].residual = results[j].residual /\ i < j)
  IN CHOOSE i \in Feasible : \A j \in Feasible \ {i} : before(i, j)

Decide ==
  /\ search = Idle /\ seeds = <<>> /\ verdict = Pending
  /\ IF Feasible = {} THEN verdict' = [reason |-> "rejected_residual"]
     ELSE LET q_goal == Aligned(results[Best].q, Reference)
              jumps == policy.jump > 0 /\ Apart(q_goal, Reference) > policy.jump
          IN verdict' = [reason |-> IF jumps THEN "rejected_joint_jump" ELSE "accepted",
                         q_goal |-> q_goal, best |-> results[Best]]
  /\ UNCHANGED <<goal, policy, seeds, search, results>>

IkNext == StartSearch \/ Converges \/ Iterate \/ Decide

IkSpec == IkInit /\ [][IkNext]_ikVars

-----------------------------------------------------------------------------
(* Properties *)

\* What the motion nodes rely on: a goal that is accepted lies within the limits
\* and is a turn of a pose that a search ended at; if the search converged it is
\* within the tolerance of the target, and otherwise at most one update away from
\* a pose that is as close as the policy asks.  No other pose that was found, by
\* any turn, is closer to where the arm is; and a goal is refused as a jump only
\* when all of them are farther away than allowed, as a miss only when all miss.
AcceptedGoalIsNearest ==
  verdict # Pending =>
    LET turns == UNION {Turns(results[i].q) : i \in Feasible}
        reachable == IF Upper - Lower = Period THEN turns
                     ELSE {results[i].q : i \in Feasible}
        near(q) == policy.jump = 0 \/ Apart(q, Reference) <= policy.jump
        hits(q, residual) == \E p \in Poses : Apart(p, q) <= 1 /\ goal[p] <= residual
    IN /\ verdict.reason = "rejected_residual" => reachable = {}
       /\ verdict.reason = "rejected_joint_jump" => \A q \in reachable : ~near(q)
       /\ verdict.reason = "accepted" =>
            /\ verdict.q_goal \in reachable /\ near(verdict.q_goal)
            /\ \A q \in reachable : Apart(verdict.q_goal, Reference) <= Apart(q, Reference)
            /\ IF verdict.best.success THEN goal[verdict.best.q] <= Tolerance
               ELSE hits(verdict.best.q, policy.residual)

\* The inductive strengthening.  Poses lie within the limits, what a search tells
\* of the pose it ended at is true, and nothing moves after the verdict.
IkTypeOK ==
  /\ goal \in Goals /\ policy \in Policies /\ seeds \in Seq(Int)
  /\ search = Idle \/ search \in [iters: Nat, q: Poses]
  /\ results \in Seq([success: BOOLEAN, q: Poses, residual: Nat])

ResultsAreTrue ==
  \A i \in DOMAIN results :
    IF results[i].success THEN goal[results[i].q] <= Tolerance
    ELSE \E p \in Poses : Apart(p, results[i].q) <= 1 /\ goal[p] <= results[i].residual

VerdictIsLast == verdict # Pending => search = Idle /\ seeds = <<>>

IkInv == IkTypeOK /\ ResultsAreTrue /\ VerdictIsLast /\ AcceptedGoalIsNearest

==============================================================================
