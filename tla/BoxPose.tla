------------------------------- MODULE BoxPose -------------------------------
(***************************************************************************)
(* box_pose_node: finds coloured boxes in a colour image, measures them in *)
(* the depth image that was received last, and publishes where they are.   *)
(*                                                                         *)
(* One thread runs the three subscriptions, each callback to completion.   *)
(* An image is the sequence of its contours, in the order in which the     *)
(* detectors find them.  Images are one line of pixels wide, angles are in *)
(* degrees, and of a position only the frame it is expressed in is kept.   *)
(* Stamps are kept as ages, which stop counting where they no longer match *)
(* any colour image.                                                       *)
(***************************************************************************)
EXTENDS Integers, Sequences, FiniteSets, SequencesExt

CONSTANTS
  Cameras,      \* configurations of the node, and the images it may see
  MatchTimeout, \* depth_match_timeout_s
  ImageLate,    \* how old an image may be when it is received; a camera's "late" is less
  NoImage,
  NoPose        \* a box without coordinates

\* What _detect_candidates notes of a contour: colour, middle, extent, angle, whether it
\* is a square, size, quality, depth.
Contours ==
  [color : {"red", "green", "blue"}, at : Int, lo : Int, hi : Int, yaw : Int,
   square : BOOLEAN, area : Nat, good : BOOLEAN, depth : {"ok", "thin", "none"}, z : Nat]

ASSUME BoxPoseAssumption ==
  /\ MatchTimeout \in Nat /\ ImageLate \in Nat
  /\ \A c \in Cameras :
       /\ {c.useMask, c.requireDepth, c.homography, c.base} \subseteq BOOLEAN
       /\ {c.minArea, c.maxArea, c.trackMax} \subseteq Nat /\ c.maxBoxes \in Nat \ {0}
       /\ c.late \in 0 .. ImageLate /\ c.images \subseteq Seq(Contours)

VARIABLES
  camera,  \* the configuration of this run
  depth,   \* _last_depth: the age of its stamp, which may be ahead of the clock
  info,    \* _camera_info has been received
  tracks,  \* _previous_yaw_tracks
  payload, \* the message on box_poses that was published last
  kept     \* history: the candidates of the last colour image

boxPoseVars == <<camera, depth, info, tracks, payload, kept>>

DepthCap == MatchTimeout + ImageLate + 1

-----------------------------------------------------------------------------
(* Angles: a box looks the same when it is turned by half a turn. *)

\* _normalize_box_yaw_deg: to -90 .. 89
NormalizeYaw(angle) == ((angle + 90) % 180) - 90

Abs(n) == IF n < 0 THEN -n ELSE n

\* Mutant: angles are compared as numbers.
AngleDelta_Plain(a, b) == a - b

\* _angle_delta_deg
AngleDelta(a, b) == NormalizeYaw(a - b)

-----------------------------------------------------------------------------
(* Candidates: _detect_candidates *)

Larger(a, b) == IF a > b THEN a ELSE b
Smaller(a, b) == IF a < b THEN a ELSE b

\* _bbox_iou as a fraction: the boxes of a line of pixels are intervals.
Intersection(a, b) == Larger(0, Smaller(a.hi, b.hi) - Larger(a.lo, b.lo))
Union(a, b) == (a.hi - a.lo) + (b.hi - b.lo) - Intersection(a, b)
Overlap(a, b) == Intersection(a, b) * camera.nms[2] > camera.nms[1] * Union(a, b)

\* A stable sort: what is k-th has k - 1 items before it.
Sorted(items, Before(_, _)) ==
  LET first(i, j) == Before(items[i], items[j]) \/ (~Before(items[j], items[i]) /\ i < j)
      place(i) == Cardinality({j \in DOMAIN items : first(j, i)}) + 1
  IN [k \in 1 .. Cardinality(DOMAIN items) |->
        items[CHOOSE i \in DOMAIN items : place(i) = k]]

\* A contour without valid depth is not in the depth mask.
Accepted(contour, masked) ==
  /\ masked => contour.depth # "none"
  /\ contour.area >= camera.minArea
  /\ camera.maxArea > 0 => contour.area <= camera.maxArea
  /\ contour.good

\* The largest first, without those that overlap one that is kept.
Detected(image, masked) ==
  FoldLeft(LAMBDA found, contour :
             IF \/ Len(found) >= camera.maxBoxes
                \/ \E k \in DOMAIN found : Overlap(contour, found[k])
             THEN found ELSE Append(found, contour),
           <<>>,
           Sorted([i \in {i \in DOMAIN image : Accepted(image[i], masked)} |-> image[i]],
                  LAMBDA a, b : a.area > b.area))

\* _stabilize_yaws: the track a candidate goes on with, or 0.
Distance(candidate, track) == Abs(candidate.at - track.at)
TrackOf(candidate, used) ==
  LET free == {i \in DOMAIN tracks \ used : tracks[i].color = candidate.color}
      Nearer(i, j) == LET di == Distance(candidate, tracks[i])
                          dj == Distance(candidate, tracks[j])
                      IN di < dj \/ (di = dj /\ i <= j)
      nearest == CHOOSE i \in free : \A j \in free : Nearer(i, j)
  IN IF free = {} THEN 0
     ELSE IF Distance(candidate, tracks[nearest]) <= camera.trackMax THEN nearest ELSE 0

\* A square box may be turned by a quarter.
SteadyYaw(candidate, previous) ==
  LET turned == NormalizeYaw(candidate.yaw + 90)
      From(yaw) == Abs(AngleDelta(yaw, previous))
  IN IF candidate.square /\ From(turned) < From(candidate.yaw) THEN turned ELSE candidate.yaw

Stabilized(candidates) ==
  FoldLeft(LAMBDA done, candidate :
             LET i == TrackOf(candidate, done.used)
             IN IF i = 0 THEN [done EXCEPT !.boxes = Append(@, candidate)]
                ELSE [used |-> done.used \cup {i},
                      boxes |-> Append(done.boxes, [candidate EXCEPT
                                  !.yaw = SteadyYaw(candidate, tracks[i].yaw)])],
           [used |-> {}, boxes |-> <<>>], candidates).boxes

-----------------------------------------------------------------------------
(* Poses *)

\* The depth image matches a colour image whose stamp is that old.
Matches(age) == depth # NoImage /\ Abs(age - depth) <= MatchTimeout

\* Mutant: the label is the base frame whether or not there is a transform.
Labelled_AlwaysBase(tf) == IF camera.homography THEN "plane" ELSE "base"

\* _output_frame_id and _lookup_base_transform: the calibration may be missing.
Labelled(tf) ==
  IF camera.homography THEN "plane" ELSE IF camera.base /\ tf THEN "base" ELSE "camera"

\* _masked_depth, _deproject and _project_pixel_to_plane: the frame that the
\* coordinates are expressed in.  Eroding the contour may leave no depth.
Measured(candidate, age) == Matches(age) /\ candidate.depth = "ok"
Expressed(candidate, age, tf) ==
  IF Measured(candidate, age) /\ info THEN IF camera.base /\ tf THEN "base" ELSE "camera"
  ELSE IF camera.homography THEN "plane" ELSE NoPose

\* _sort_boxes: colours are sorted by their names.
ColorOrder == [blue |-> 1, green |-> 2, red |-> 3]
SortsBefore(a, b) ==
  IF camera.sortBy = "area" THEN a.area > b.area
  ELSE IF camera.sortBy = "color" /\ a.color # b.color
       THEN ColorOrder[a.color] < ColorOrder[b.color]
       ELSE a.at < b.at

Boxes(candidates, age, tf) ==
  LET box(c) == [color |-> c.color, at |-> c.at, area |-> c.area, yaw |-> c.yaw,
                 measured |-> Measured(c, age), z |-> IF Measured(c, age) THEN c.z ELSE 0,
                 pose |-> Expressed(c, age, tf)]
      posed == {i \in DOMAIN candidates :
                  camera.requireDepth => /\ Measured(candidates[i], age)
                                         /\ Expressed(candidates[i], age, tf) # NoPose}
  IN Sorted([i \in posed |-> box(candidates[i])], SortsBefore)

\* _on_color, of an image with a stamp that is age old.
OnColor(image, age, tf) ==
  \E candidates \in {Stabilized(Detected(image, camera.useMask /\ Matches(age)))} :
    /\ kept' = candidates
    /\ tracks' = [i \in DOMAIN candidates |-> [color |-> candidates[i].color,
                     at |-> candidates[i].at, yaw |-> candidates[i].yaw]]
    /\ payload' = [frame |-> Labelled(tf), boxes |-> Boxes(candidates, age, tf)]
    /\ UNCHANGED <<camera, depth, info>>

OnDepth(age) ==
  /\ depth' = age
  /\ UNCHANGED <<camera, info, tracks, payload, kept>>

OnCameraInfo ==
  /\ ~info /\ info' = TRUE
  /\ UNCHANGED <<camera, depth, tracks, payload, kept>>

\* Time passes: the depth image grows old, where the camera's images come late.
DepthAges ==
  /\ camera.late > 0 /\ depth # NoImage /\ depth < DepthCap
  /\ depth' = depth + 1
  /\ UNCHANGED <<camera, info, tracks, payload, kept>>

BoxPoseInit ==
  /\ camera \in Cameras
  /\ depth = NoImage /\ info = FALSE /\ tracks = <<>>
  /\ payload = NoImage /\ kept = <<>>

See == \E image \in camera.images, age \in 0 .. camera.late, tf \in BOOLEAN : OnColor(image, age, tf)
Measure == \E age \in 0 .. camera.late : OnDepth(age)

-----------------------------------------------------------------------------
(* Properties *)

\* Coordinates are expressed in the frame that the message names, unless there
\* is a homography: then the plane's frame is named also for the boxes whose
\* depth was used.
PoseIsInItsFrame ==
  payload # NoImage =>
    \A k \in DOMAIN payload.boxes :
      /\ payload.boxes[k].pose \in {payload.frame, NoPose} \/ camera.homography
      /\ camera.requireDepth => payload.boxes[k].pose # NoPose

\* While the boxes of a colour stay where they are, a square one is never seen
\* to turn by more than an eighth of a turn, whatever angle the fitted
\* rectangle jumps to: _stabilize_yaws goes on with the box's own track.
PlacesOf(seen, color) == {seen[i].at : i \in {i \in DOMAIN seen : seen[i].color = color}}
CountOf(seen, color) == Cardinality({i \in DOMAIN seen : seen[i].color = color})
Standing(before, after, color) ==
  /\ PlacesOf(before, color) = PlacesOf(after, color)
  /\ CountOf(before, color) = Cardinality(PlacesOf(before, color))
  /\ CountOf(after, color) = CountOf(before, color)
YawKeepsItsSense ==
  [][\A i \in DOMAIN tracks, j \in DOMAIN kept' :
       /\ kept'[j].color = tracks[i].color /\ kept'[j].at = tracks[i].at
       /\ Standing(tracks, kept', tracks[i].color) /\ kept'[j].square
       => Abs(AngleDelta(kept'[j].yaw, tracks[i].yaw)) <= 45]_<<tracks, kept>>

=============================================================================
