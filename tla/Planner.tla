------------------------------- MODULE Planner -------------------------------
(***************************************************************************)
(* One call of Planner.plan_motion: solve the inverse kinematics for the   *)
(* straight way and for the way over a tucked pose, compare their energy,  *)
(* and check the ways one after the other for collisions.                  *)
(*                                                                         *)
(* A pose is reduced to the joints that plan_motion tells apart: the base, *)
(* how far and to which side the arm reaches, and the wrist.  What the     *)
(* solver finds from its seeds is one of Solutions; whether a pose or the  *)
(* way between two of them collides is chosen when it is asked for.        *)
(***************************************************************************)
EXTENDS Integers, Sequences, FiniteSets, SequencesExt

CONSTANTS
  Starts,         \* poses the arm may start from
  Solutions,      \* what IKSolver may return for the seeds of a call, in order
  ResidualAccept, \* ik_residual_accept_m
  MaxChecks,      \* ik_max_traj_checks
  MinDuration,    \* min_traj_duration
  FullReach       \* the arm is stretched, and singular

Pose == [base: Int, reach: -FullReach .. FullReach, wrist: -1 .. 1]
IKResult == [success: BOOLEAN, q: Pose, residual: Nat]

\* A search that converged came closer than what is accepted.
ASSUME PlannerAssumption ==
  /\ Starts \subseteq Pose /\ {ResidualAccept, MinDuration} \subseteq Nat
  /\ {MaxChecks, FullReach} \subseteq Nat \ {0}
  /\ Solutions \subseteq Seq(IKResult) /\ <<>> \notin Solutions
  /\ \A s \in Solutions : \A i \in DOMAIN s : s[i].success => s[i].residual <= ResidualAccept

VARIABLES
  from,    \* start_q
  found,   \* history: what the solver returned for either way
  ranked,  \* direct_cands and fold_cands
  tuck,    \* tuck_q
  modes,   \* the ways that are still to be tried, the first being checked
  next,    \* the candidate of that way that is checked next
  unsafe,  \* the straight plan that is kept although it collides, or none
  hits,    \* what was checked, and whether it collides
  answer,  \* asked, checking, or what came of it: planned, unreachable, colliding
  way      \* the poses of the plan that was returned

plannerVars == <<from, found, ranked, tuck, modes, next, unsafe, hits, answer, way>>

Nowhere == <<>>

-----------------------------------------------------------------------------
(* Inverse kinematics *)

Magnitude(x) == IF x < 0 THEN -x ELSE x
Larger(x, y) == IF x < y THEN y ELSE x
Accepted(r) == r.success \/ r.residual <= ResidualAccept
Singular(q) == Magnitude(q.reach) = FullReach

Moves(p, q) == <<Magnitude(q.base - p.base), Magnitude(q.reach - p.reach),
                 Magnitude(q.wrist - p.wrist)>>
Distance(p, q) == Moves(p, q)[1] + Moves(p, q)[2] + Moves(p, q)[3]

\* Way to go, closeness to a singularity, and way of the base.
Cost(q, seed) == Distance(seed, q) + Magnitude(q.reach) + 2 * Moves(seed, q)[1]

\* _rank_ik_candidates: the feasible results by cost, or the one that came closest.
RankCandidates(results, seed) ==
  LET feasible == {i \in DOMAIN results : Accepted(results[i]) /\ ~Singular(results[i].q)}
      before(i, j) == LET c == Cost(results[i].q, seed)  d == Cost(results[j].q, seed)
                      IN c < d \/ (c = d /\ i < j)
      closer(i, j) == results[i].residual < results[j].residual
      closest == CHOOSE i \in DOMAIN results : \A j \in DOMAIN results :
                   ~closer(j, i) /\ (j < i => closer(i, j))
  IN IF feasible = {} THEN <<results[closest]>>
     ELSE LET order == CHOOSE f \in [1 .. Cardinality(feasible) -> feasible] :
                         \A i, j \in DOMAIN f : i < j => before(f[i], f[j])
          IN [k \in DOMAIN order |-> results[order[k]]]

\* _tuck_pose: folded above the goal, on the side the arm is on.
TuckPose(base, current) ==
  LET on(side) == [base |-> base, reach |-> 0, wrist |-> -side]
  IN IF Distance(current, on(1)) <= Distance(current, on(-1)) THEN on(1) ELSE on(-1)

\* _ke_cost: a fraction.  A stretched arm has more inertia.
Energy(p, q) ==
  LET d == Moves(p, q)
      duration == Larger(Larger(d[1], Larger(d[2], d[3])), MinDuration)
  IN <<(2 + Magnitude(p.reach + q.reach)) * (d[1] * d[1] + d[2] * d[2] + d[3] * d[3]),
       Larger(duration * duration, 1)>>
Cheaper(x, y) == x[1] * y[2] < y[1] * x[2]

PrefersFold(start, over, direct, folded) ==
  /\ Accepted(folded)
  /\ Cheaper(Energy(start, over), Energy(start, direct.q))
  /\ Cheaper(Energy(over, folded.q), Energy(start, direct.q))

-----------------------------------------------------------------------------
(* A call *)

PlannerStart(start) ==
  /\ from = start /\ found = Nowhere /\ ranked = Nowhere /\ tuck = Nowhere
  /\ modes = <<>> /\ next = 1 /\ unsafe = Nowhere /\ hits = {}
  /\ answer = "asked" /\ way = Nowhere

PlannerInit == \E start \in Starts : PlannerStart(start)

\* Solve for the straight way; then, from the tucked pose, for the way over it.
Solve ==
  /\ answer = "asked"
  /\ \E solution \in Solutions, folded \in Solutions :
       LET direct == RankCandidates(solution, from)
           over == TuckPose(direct[1].q.base, from)
           fold == RankCandidates(folded, over)
           prefers == PrefersFold(from, over, direct[1], fold[1])
       IN /\ found' = [direct |-> solution, fold |-> folded]
          /\ IF Accepted(direct[1])
             THEN /\ ranked' = [direct |-> direct, fold |-> fold]
                  /\ tuck' = over
                  /\ modes' = IF prefers THEN <<"fold", "direct", "retract">>
                              ELSE <<"direct", "retract", "fold">>
                  /\ answer' = "checking"
             ELSE answer' = "unreachable" /\ UNCHANGED <<ranked, tuck, modes>>
  /\ UNCHANGED <<from, next, unsafe, hits, way>>

\* The first candidates of a ranking that are a goal at all.
Tried(candidates) ==
  {i \in 1 .. MaxChecks \cap DOMAIN candidates : Accepted(candidates[i])}

\* _plan_j5_retract goes over the end of the straight plan with the wrist straight.
Mid == [unsafe EXCEPT !.wrist = 0]

\* What the way that is being tried asks the collision checker next.
Asked ==
  IF Head(modes) = "direct" THEN <<from, ranked.direct[next].q>>
  ELSE IF Head(modes) = "fold"
  THEN IF next = 1 THEN <<from, tuck>> ELSE <<tuck, ranked.fold[next - 1].q>>
  ELSE IF next = 1 THEN <<Mid, Mid>> ELSE IF next = 2 THEN <<from, Mid>> ELSE <<Mid, unsafe>>

\* The way has no candidate left, or makes no sense.
Exhausted ==
  \/ Head(modes) = "direct" /\ next \notin Tried(ranked.direct)
  \/ /\ Head(modes) = "fold"
     /\ ~Accepted(ranked.fold[1]) \/ (next > 1 /\ next - 1 \notin Tried(ranked.fold))
  \/ Head(modes) = "retract" /\ unsafe = Nowhere

Known(question) == {h \in hits : h.of = question}

\* A pose or a way is found to collide or not, and always so.
Checked(question, collides) ==
  /\ \A h \in Known(question) : h.collides = collides
  /\ hits' = hits \cup {[of |-> question, collides |-> collides]}

\* What to do when the checker found nothing: the way is done or goes on.
IsLast ==
  \/ Head(modes) = "direct"
  \/ Head(modes) = "fold" /\ next > 1
  \/ Head(modes) = "retract" /\ next = 3

Way == IF Head(modes) = "direct" THEN <<from, Asked[2]>>
       ELSE IF Head(modes) = "fold" THEN <<from, tuck, Asked[2]>>
       ELSE <<from, Mid, unsafe>>

CheckFree ==
  /\ answer = "checking" /\ modes # <<>> /\ ~Exhausted
  /\ Checked(Asked, FALSE)
  /\ IF IsLast THEN answer' = "planned" /\ way' = Way /\ UNCHANGED next
               ELSE next' = next + 1 /\ UNCHANGED <<answer, way>>
  /\ UNCHANGED <<from, found, ranked, tuck, modes, unsafe>>

\* Mutant: the second leg of a fold is taken as the ranking gives it.
CheckHit_KeepsLeg2 ==
  /\ answer = "checking" /\ modes # <<>> /\ ~Exhausted
  /\ Checked(Asked, TRUE)
  /\ IF Head(modes) = "fold" /\ next > 1
     THEN answer' = "planned" /\ way' = Way /\ UNCHANGED <<modes, next, unsafe>>
     ELSE /\ unsafe' = IF Head(modes) = "direct" /\ unsafe = Nowhere THEN Asked[2] ELSE unsafe
          /\ IF Head(modes) = "direct"
             THEN next' = next + 1 /\ UNCHANGED modes
             ELSE next' = 1 /\ modes' = Tail(modes)
          /\ UNCHANGED <<answer, way>>
  /\ UNCHANGED <<from, found, ranked, tuck>>

\* A candidate that collides leaves the next one; the first of the straight ones
\* is kept.  A tuck or a retraction that collides ends its way.
CheckHit ==
  /\ answer = "checking" /\ modes # <<>> /\ ~Exhausted
  /\ Checked(Asked, TRUE)
  /\ unsafe' = IF Head(modes) = "direct" /\ unsafe = Nowhere THEN Asked[2] ELSE unsafe
  /\ IF Head(modes) = "direct" \/ (Head(modes) = "fold" /\ next > 1)
     THEN next' = next + 1 /\ UNCHANGED modes
     ELSE next' = 1 /\ modes' = Tail(modes)
  /\ UNCHANGED <<from, found, ranked, tuck, answer, way>>

NextMode ==
  /\ answer = "checking" /\ modes # <<>> /\ Exhausted
  /\ next' = 1 /\ modes' = Tail(modes)
  /\ UNCHANGED <<from, found, ranked, tuck, unsafe, hits, answer, way>>

\* Every way collides: the straight plan is returned as it is, and discarded.
GiveUp ==
  /\ answer = "checking" /\ modes = <<>>
  /\ answer' = "colliding"
  /\ UNCHANGED <<from, found, ranked, tuck, modes, next, unsafe, hits, way>>

PlannerNext == Solve \/ CheckFree \/ CheckHit \/ NextMode \/ GiveUp

PlannerSpec == PlannerInit /\ [][PlannerNext]_plannerVars

-----------------------------------------------------------------------------
(* Properties *)

Collides(p, q) == [of |-> <<p, q>>, collides |-> TRUE] \in hits
IsFree(p, q) == [of |-> <<p, q>>, collides |-> FALSE] \in hits

\* What the solver found that reaches the target, by a way; and that a way has no
\* candidate left, coming from a pose.
Reached(mode) == {found[mode][i].q : i \in {j \in DOMAIN found[mode] : Accepted(found[mode][j])}}
Spent(mode, start) ==
  LET hit == {q \in Reached(mode) : Collides(start, q)}
  IN \/ {q \in Reached(mode) : ~Singular(q)} \subseteq hit
     \/ Cardinality({i \in DOMAIN ranked[mode] : ranked[mode][i].q \in hit}) >= MaxChecks

\* A plan that is returned as safe leads from the start to a pose that reaches
\* the target, every leg of it was found free of collisions, and one leg joins the
\* next.  A straight plan goes to the cheapest pose that can be reached without a
\* collision, a singular pose is a goal only when everything else that was found
\* misses the target, and a target is given up as out of reach only when all of
\* it does.  When every way collides, each has a pose or a leg that does, or more
\* candidates collided than may be checked.
PlanIsUsable ==
  /\ answer = "planned" =>
       LET end == Last(way)
           mode == IF way[2] = tuck /\ Len(way) = 3 THEN "fold" ELSE "direct"
       IN /\ way[1] = from /\ end \in Reached("direct") \cup Reached("fold")
          /\ \A i \in 1 .. Len(way) - 1 : IsFree(way[i], way[i + 1])
          /\ Len(way) = 2 => \A q \in Reached("direct") :
               ~Singular(q) /\ Cost(q, from) < Cost(end, from) => Collides(from, q)
          /\ Singular(end) => \A q \in Reached(mode) : Singular(q)
  /\ answer = "unreachable" => Reached("direct") = {}
  /\ answer = "colliding" =>
       /\ Spent("direct", from)
       /\ Collides(Mid, Mid) \/ Collides(from, Mid) \/ Collides(Mid, unsafe)
       /\ Collides(from, tuck) \/ Spent("fold", tuck)

\* The inductive strengthening: what is known of the ways that were tried, and of
\* the one that is being tried.
Ahead(mode) == \E i \in DOMAIN modes : modes[i] = mode
IsTried(mode) == modes # <<>> /\ Head(modes) = mode

ModeLists == {<<"fold", "direct", "retract">>, <<"direct", "retract", "fold">>,
              <<"direct", "retract">>, <<"retract", "fold">>, <<"retract">>, <<"fold">>, <<>>}

CallTypeOK ==
  /\ from \in Pose /\ answer \in {"asked", "checking", "planned", "unreachable", "colliding"}
  /\ answer = "asked" => next = 1 /\ unsafe = Nowhere
  /\ answer # "asked" => {found.direct, found.fold} \subseteq Solutions
  /\ answer \in {"checking", "planned", "colliding"} =>
       /\ ranked.direct = RankCandidates(found.direct, from)
       /\ tuck = TuckPose(ranked.direct[1].q.base, from)
       /\ ranked.fold = RankCandidates(found.fold, tuck)
       /\ Accepted(ranked.direct[1])
  /\ answer \in {"checking", "colliding"} =>
       /\ next \in Nat \ {0}
       /\ modes \in ModeLists
       /\ answer = "colliding" => modes = <<>>

\* The candidates before the n-th of a ranking collide, coming from a pose.
HitBefore(mode, start, n) == \A i \in 1 .. n - 1 : Collides(start, ranked[mode][i].q)
HitAll(mode, start) ==
  \A i \in 1 .. MaxChecks \cap DOMAIN ranked[mode] :
    Accepted(ranked[mode][i]) => Collides(start, ranked[mode][i].q)

DirectInv ==
  /\ unsafe = IF Ahead("direct") /\ ~(IsTried("direct") /\ next > 1) THEN Nowhere
              ELSE ranked.direct[1].q
  /\ IsTried("direct") => HitBefore("direct", from, next) /\ next - 1 \in 0 .. Len(ranked.direct)
  /\ ~Ahead("direct") => HitAll("direct", from)

FoldInv ==
  /\ IsTried("fold") /\ next > 1 =>
       /\ IsFree(from, tuck) /\ Accepted(ranked.fold[1])
       /\ HitBefore("fold", tuck, next - 1) /\ next - 2 \in 0 .. Len(ranked.fold)
  /\ ~Ahead("fold") =>
       Collides(from, tuck) \/ ~Accepted(ranked.fold[1]) \/ HitAll("fold", tuck)

RetractInv ==
  /\ IsTried("retract") => /\ next <= 3
                           /\ next = 3 => IsFree(from, Mid)
  /\ ~Ahead("retract") => Collides(Mid, Mid) \/ Collides(from, Mid) \/ Collides(Mid, unsafe)

WaysInv == answer \in {"checking", "colliding"} => DirectInv /\ FoldInv /\ RetractInv

PlannerInv == CallTypeOK /\ WaysInv /\ PlanIsUsable

===============================================================================
