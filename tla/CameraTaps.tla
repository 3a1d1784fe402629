------------------------------ MODULE CameraTaps ------------------------------
(***************************************************************************)
(* object_depth_node, which publishes the distance of the largest coloured *)
(* object, and image_learning_node, which saves every n-th colour image    *)
(* with the depth image that matches.  A launch file starts one of them.   *)
(*                                                                         *)
(* One thread runs the callbacks of a node, each to completion, but a node *)
(* that saves may end between two of its writes.  Images are those of      *)
(* BoxPose.                                                                *)
(***************************************************************************)
EXTENDS Integers, Sequences, FiniteSets, SequencesExt

CONSTANTS
  Taps,        \* configurations of the two nodes, and the images they see
  TapTimeout,  \* depth_match_timeout_s
  TapLate,     \* how old an image may be when it is received
  MaxStamp,    \* stamps of the images that are saved
  NaN, None    \* no number; no message

ASSUME TapsAssumption ==
  /\ TapTimeout \in Nat /\ TapLate \in Nat /\ MaxStamp \in Nat
  /\ \A t \in Taps : t.node \in {"object", "learning", "off"}

VARIABLES
  tap,       \* the node that runs, with its configuration
  lastDepth, \* _last_depth: the age of its stamp
  distance,  \* the number on depth_m that was published last
  bbox,      \* the message on bbox that was published last
  status,    \* the message on status that was published last
  count,     \* _color_count
  saving,    \* what of a sample has been written: of which stamp, and how far
  colors,    \* the colour files, by their stamps
  depths,    \* the depth files, by their stamps
  manifest   \* rows of manifest.csv

objectVars == <<distance, bbox, status>>
learningVars == <<count, saving, colors, depths, manifest>>
tapVars == <<tap, lastDepth, objectVars, learningVars>>

TapMatches(age) ==
  lastDepth # None /\ age - lastDepth \in -TapTimeout .. TapTimeout

-----------------------------------------------------------------------------
(* object_depth_node *)

\* _detect_object: the first of the largest contours that pass.
Passes(contour, masked) ==
  /\ masked => contour.depth # "none"
  /\ contour.area >= tap.minArea /\ contour.good
  /\ tap.maxArea > 0 => contour.area <= tap.maxArea
Largest(image, masked) ==
  {i \in DOMAIN image :
     /\ Passes(image[i], masked)
     /\ \A j \in DOMAIN image : Passes(image[j], masked) =>
          image[j].area < image[i].area \/ (image[j].area = image[i].area /\ i <= j)}

\* Mutant: the miss is only reported, and the object stays found.
PublishMiss_StatusOnly(reason) ==
  /\ distance' = IF tap.nanOnMiss THEN NaN ELSE distance
  /\ bbox' = IF reason = "no_object" THEN [found |-> FALSE, reason |-> reason]
             ELSE [found |-> TRUE, depth |-> None]
  /\ status' = [found |-> FALSE, reason |-> reason]

\* _publish_miss; before it, an object without depth was published as found.
PublishMiss(reason) ==
  /\ distance' = IF tap.nanOnMiss THEN NaN ELSE distance
  /\ bbox' = [found |-> FALSE, reason |-> reason]
  /\ status' = [found |-> FALSE, reason |-> reason]

\* An image that cannot be converted is published nowhere: what was told of the
\* one before stands.
ObjectOnColor(image, age) ==
  LET largest == Largest(image, tap.useMask /\ TapMatches(age))
  IN /\ tap.node = "object"
     /\ \/ largest = {} /\ PublishMiss("no_object")
        \/ \E i \in largest :
             IF TapMatches(age) /\ image[i].depth = "ok"
             THEN /\ distance' = image[i].z
                  /\ bbox' = [found |-> TRUE, depth |-> image[i].z]
                  /\ status' = [found |-> TRUE, depth |-> image[i].z]
             ELSE PublishMiss("no_valid_depth")
     /\ UNCHANGED <<tap, lastDepth, learningVars>>

-----------------------------------------------------------------------------
(* image_learning_node *)

NotSaving == [stamp |-> 0, step |-> "no"]
Learns == tap.node = "learning" /\ saving = NotSaving

\* _on_color, to the first write of _save_sample.  Images that are not saved, or
\* not converted, only count.  Nothing in the code looks at the order of the
\* stamps: that they grow, across restarts too, is what the camera does, and not
\* what a recording does that is played a second time.
LearningOnColor(stamp, converted) ==
  /\ Learns /\ stamp \in 1 .. MaxStamp
  /\ \A s \in colors : s < stamp
  /\ count' = (count + 1) % tap.saveEvery
  /\ saving' = IF count' = 0 /\ converted
               THEN [stamp |-> stamp, step |-> "color"]
               ELSE NotSaving
  /\ UNCHANGED <<tap, lastDepth, objectVars, colors, depths, manifest>>

\* imwrite of the colour image: without it there is no row.
SaveColor(written) ==
  /\ saving.step = "color"
  /\ colors' = IF written THEN colors \cup {saving.stamp} ELSE colors
  /\ saving' = IF written THEN [saving EXCEPT !.step = "depth"] ELSE NotSaving
  /\ UNCHANGED <<tap, lastDepth, objectVars, count, depths, manifest>>

\* Mutant: a row names the depth file even if the write failed.
SaveDepth_Unwritten(age, written) ==
  /\ saving.step = "depth"
  /\ depths' = IF TapMatches(age) /\ written THEN depths \cup {saving.stamp} ELSE depths
  /\ saving' = [stamp |-> saving.stamp, step |-> "row", depth |-> TapMatches(age)]
  /\ UNCHANGED <<tap, lastDepth, objectVars, count, colors, manifest>>

\* The depth image, when it matches: a row says its age even if the write failed.
SaveDepth(age, written) ==
  /\ saving.step = "depth"
  /\ depths' = IF TapMatches(age) /\ written THEN depths \cup {saving.stamp} ELSE depths
  /\ saving' = [stamp |-> saving.stamp, step |-> "row", depth |-> TapMatches(age) /\ written]
  /\ UNCHANGED <<tap, lastDepth, objectVars, count, colors, manifest>>

SaveRow ==
  /\ saving.step = "row"
  /\ manifest' = Append(manifest, [stamp |-> saving.stamp, depth |-> saving.depth])
  /\ saving' = NotSaving
  /\ UNCHANGED <<tap, lastDepth, objectVars, count, colors, depths>>

\* The process ends, and is started again with the same directory.
LearningRestarts ==
  /\ tap.node = "learning"
  /\ count' = 0 /\ saving' = NotSaving /\ lastDepth' = None
  /\ UNCHANGED <<tap, objectVars, colors, depths, manifest>>

-----------------------------------------------------------------------------

TapOnDepth(age) ==
  /\ tap.node = "object" \/ Learns
  /\ lastDepth' = age
  /\ UNCHANGED <<tap, objectVars, learningVars>>

TapDepthAges ==
  /\ tap.node # "off" /\ lastDepth # None /\ lastDepth <= TapTimeout + TapLate
  /\ lastDepth' = lastDepth + 1
  /\ UNCHANGED <<tap, objectVars, learningVars>>

TapsInit ==
  /\ tap \in Taps /\ lastDepth = None
  /\ distance = None /\ bbox = None /\ status = None
  /\ count = 0 /\ saving = NotSaving /\ colors = {} /\ depths = {} /\ manifest = <<>>

ObjectSees == \E image \in tap.images, age \in 0 .. TapLate : ObjectOnColor(image, age)
Learn ==
  \/ \E stamp \in 1 .. MaxStamp, converted \in BOOLEAN : LearningOnColor(stamp, converted)
  \/ \E written \in BOOLEAN : SaveColor(written)
  \/ \E age \in 0 .. TapLate, written \in BOOLEAN : SaveDepth(age, written)
  \/ SaveRow \/ LearningRestarts

TapsNext ==
  ObjectSees \/ Learn \/ (\E age \in 0 .. TapLate : TapOnDepth(age)) \/ TapDepthAges

TapsSpec == TapsInit /\ [][TapsNext]_tapVars

-----------------------------------------------------------------------------
(* Properties *)

\* After each image that is converted the three topics of object_depth_node say the same, and a
\* number is never left standing for an object that is no longer measured.
TopicsAgree ==
  status # None =>
    /\ bbox = status
    /\ status.found => distance = status.depth
    /\ ~status.found /\ tap.nanOnMiss => distance = NaN

\* A row of the manifest names files that exist and no image twice, wherever
\* the process was interrupted, as long as the stamps grow.
RowsHaveFiles ==
  /\ \A i \in DOMAIN manifest :
       /\ manifest[i].stamp \in colors
       /\ manifest[i].depth <=> manifest[i].stamp \in depths
       /\ \A j \in DOMAIN manifest : manifest[i].stamp = manifest[j].stamp => i = j
  /\ depths \subseteq colors

\* What the taps tell is so: on the topics, and in the files.
TapsAreTrue == TopicsAgree /\ RowsHaveFiles

\* The inductive strengthening of RowsHaveFiles: a sample that is being saved is
\* newer than every colour file but its own, and has a row only at the end.
SavingInv ==
  /\ saving = NotSaving \/ saving.step \in {"color", "depth", "row"}
  /\ saving # NotSaving =>
       /\ saving.step = "color" <=> saving.stamp \notin colors
       /\ saving.stamp \in depths <=> saving.step = "row" /\ saving.depth
       /\ \A i \in DOMAIN manifest : manifest[i].stamp # saving.stamp

=============================================================================
