----------------------------- MODULE MCPerception -----------------------------
(* Instances of Perception for TLC: plans with three or four validation        *)
(* windows and a detector with one motor; cameras that see up to two boxes,    *)
(* alone, with commands that are typed, and with commands that are spoken; and *)
(* the nodes that measure one object or save images.                           *)
EXTENDS Perception, TLC

CONSTANTS a

AnyArray == SUBSET MotorIds \ {{}}

Given(hysteresis, decision, on, off) ==
  [hysteresis |-> hysteresis, decision |-> decision, on |-> on, off |-> off]

MCParameters == {Given(TRUE, 4, -1, -1), Given(FALSE, 4, -1, -1), Given(TRUE, -1, -1, 6)}

\* Two episodes of two samples, of which train_detectors validates all four, with
\* labels that are shifted, windows beside a change left out, and each policy.
Sim == [trainer |-> "sim", label |-> <<0, 0, 1, 1, 0, 1>>, episode |-> <<1, 1, 1, 1, 2, 2>>,
        window |-> 2, stride |-> 1, delay |-> 1, radius |-> 0, clearValidation |-> FALSE,
        policy |-> "f1", recall |-> <<1, 1>>, fpr |-> <<0, 1>>, points |-> 3,
        metric |-> "val_f1", minDelta |-> <<1, 10>>, patience |-> 1, warmup |-> 2,
        epochs |-> 3, configured |-> 4, close |-> 0, device |-> "gpu"]

\* Recorded episodes, of which the second and the fifth are for validation; and, by
\* tail, the first one, which is the only one without contact, and the fifth.
Real == [trainer |-> "real", label |-> <<0, 0, 0, 0, 0, 1, 1, 1, 0, 1, 1, 0>>,
         episode |-> <<1, 1, 2, 2, 3, 3, 4, 4, 5, 5, 5, 5>>,
         group |-> <<1, 1, 2, 3, 3>>, window |-> 2, stride |-> 1, radius |-> 1,
         delay |-> 0, clearValidation |-> FALSE, policy |-> "fpr_constrained_f1",
         recall |-> <<1, 1>>, fpr |-> <<0, 1>>, points |-> 2, metric |-> "val_f1",
         minDelta |-> <<0, 1>>, patience |-> 3, warmup |-> 0, epochs |-> 2,
         configured |-> -1, close |-> 0, device |-> "cpu", split |-> "stratified_by_condition"]

MCPlans ==
  {Sim,
   [policy |-> "recall_constrained_f1", points |-> 2, configured |-> -1, device |-> "cpu",
    metric |-> "selection_score"] @@ Sim,
   [policy |-> "f2", metric |-> "val_f2", label |-> <<0, 1, 1, 1, 0, 0>>, radius |-> 1,
    clearValidation |-> TRUE, warmup |-> 0, patience |-> 2, epochs |-> 4] @@ Sim,
   [metric |-> "val_loss", minDelta |-> <<1, 1>>, warmup |-> 0, close |-> 2] @@ Sim,
   Real,
   [split |-> "tail", group |-> <<"none", "push", "push", "push", "push">>,
    requested |-> [none |-> 1, push |-> 1], policy |-> "f1", epochs |-> 1] @@ Real,
   [points |-> 3, fpr |-> <<1, 2>>, clearValidation |-> TRUE, stride |-> 2] @@ Real}

-----------------------------------------------------------------------------
(* Vision *)

Contour(color, at, yaw, square, area) ==
  [color |-> color, at |-> at, lo |-> at - 2, hi |-> at + 2, yaw |-> yaw,
   square |-> square, area |-> area, good |-> TRUE, depth |-> "ok", z |-> area]

Red(at, yaw) == Contour("red", at, yaw, TRUE, 5)

\* A square box whose fitted angle jumps, two of them, one that is not square,
\* one that overlaps, one of another colour, one without depth, and one too small.
Images == {
  <<>>, <<Red(4, 0)>>, <<Red(4, -90)>>, <<Red(4, 45)>>, <<Red(4, 89)>>,
  <<Red(4, 80), Red(9, 10)>>, <<Red(9, -80), Red(4, -20)>>,
  <<Red(4, -10), [Red(9, 60) EXCEPT !.area = 6]>>,
  <<[Red(4, 30) EXCEPT !.square = FALSE, !.depth = "thin"]>>,
  <<Red(4, 0), [Red(5, 20) EXCEPT !.color = "green", !.area = 4]>>,
  <<[Red(5, 0) EXCEPT !.depth = "none"], [Red(9, 0) EXCEPT !.area = 1]>>}

Plain == [useMask |-> TRUE, requireDepth |-> TRUE, homography |-> FALSE, base |-> TRUE,
          minArea |-> 2, maxArea |-> 0, maxBoxes |-> 3, trackMax |-> 3, nms |-> <<2, 5>>,
          sortBy |-> "x", selects |-> FALSE, speaks |-> FALSE, typed |-> {}, late |-> 1, images |-> Images]

SelectImages == {<<Red(4, 0), Contour("green", 9, 0, TRUE, 3)>>,
                 <<Contour("green", 4, 0, TRUE, 6), [Red(8, 0) EXCEPT !.area = 3]>>}

Selecting == [late |-> 0, selects |-> TRUE, base |-> FALSE, requireDepth |-> FALSE, typed |-> {"green", "red nearest"}, images |-> SelectImages] @@ Plain

MCCameras == {
  Plain, [useMask |-> FALSE, requireDepth |-> FALSE, sortBy |-> "color", maxArea |-> 5,
          maxBoxes |-> 1] @@ Plain,
  [homography |-> TRUE, base |-> FALSE, sortBy |-> "area"] @@ Plain,
  Selecting,
  [speaks |-> TRUE, typed |-> {}, images |-> {}] @@ Selecting,
  [images |-> {}] @@ Plain}

MCMeaning == ("green" :> [color |-> "green", spatial |-> Nothing])
          @@ ("red nearest" :> [color |-> "red", spatial |-> "nearest"])
MCAnswers == {[color |-> Nothing, spatial |-> "farthest"], [color |-> "green", spatial |-> "left"]}

Off == [node |-> "off", images |-> {}, useMask |-> TRUE, minArea |-> 2, maxArea |-> 0,
        nanOnMiss |-> TRUE, saveEvery |-> 1]
MCTaps == {Off,
           [node |-> "object", images |-> Images] @@ Off,
           [node |-> "object", images |-> Images, useMask |-> FALSE, maxArea |-> 5,
            nanOnMiss |-> FALSE] @@ Off,
           [node |-> "learning", saveEvery |-> 2] @@ Off}

=============================================================================
