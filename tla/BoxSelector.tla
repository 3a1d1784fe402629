----------------------------- MODULE BoxSelector -----------------------------
(***************************************************************************)
(* qwen_box_selector_node: turns a spoken or typed command into a colour   *)
(* and a place, and publishes the detected box that fits.                  *)
(*                                                                         *)
(* One thread runs both subscriptions, and while a command is parsed by    *)
(* the language model it waits: what arrives meanwhile stays in the queues *)
(* of the topics, of which the oldest message is dropped when they are     *)
(* full.  A command stands for what the rules read in it; the language     *)
(* model may answer anything.                                              *)
(***************************************************************************)
EXTENDS Integers, Sequences, FiniteSets

CONSTANTS
  Answers,        \* what the language model may make of a command
  QueueDepth,     \* depth of the queues of both topics
  DefaultSpatial, \* default_spatial
  Middle,         \* the middle of the image
  Infinity,       \* beyond every coordinate
  Nothing         \* no message, no command, no colour, no place

\* _normalize_color and _normalize_spatial leave one of these, or nothing.
Colors == {"red", "green", "blue"}
Spatials == {"left", "right", "center", "nearest", "farthest", "largest"}
Readings == [color : Colors \cup {Nothing}, spatial : Spatials \cup {Nothing}]

ASSUME SelectorAssumption ==
  /\ QueueDepth \in Nat \ {0} /\ Middle \in Nat /\ Infinity \in Nat
  /\ DefaultSpatial \in Spatials /\ Answers \subseteq Readings

VARIABLES
  commands,   \* queue of the command topic
  boxes,      \* queue of the box_poses topic
  asking,     \* the command the language model has been asked about
  parsed,     \* _latest_parsed, with the command it was made of
  seen,       \* _latest_boxes_payload
  selected,   \* the message on selected_box that was published last
  target,     \* the pose on target_pose that was published last
  running     \* the process has not ended by an exception

selectorVars == <<commands, boxes, asking, parsed, seen, selected, target, running>>

Queued(queue, message) ==
  IF Len(queue) < QueueDepth THEN Append(queue, message) ELSE Append(Tail(queue), message)

-----------------------------------------------------------------------------
(* Selection *)

\* Mutant: the colour of the command is not looked at when a place is named.
Matching_AnyColor(command, found) ==
  {k \in DOMAIN found : \/ command.color = Nothing \/ command.spatial # DefaultSpatial
                        \/ found[k].color = command.color}

\* Which of the boxes have the colour of the command.
Matching(command, found) ==
  {k \in DOMAIN found : command.color = Nothing \/ found[k].color = command.color}

\* _finite_number(...) or a default: a number that is zero counts as missing.
Or(number, default) == IF number = 0 THEN default ELSE number

\* What _select_candidate minimises with spatial_reference "image", the default.
\* ("pose" would order by x_m and y_m, a 0 of which counts as missing.)
Key(spatial, b) ==
  LET middle == b.at - Middle
  IN IF spatial = "nearest" THEN Or(b.z, Infinity)
     ELSE IF spatial = "farthest" THEN -Or(b.z, -Infinity)
     ELSE IF spatial = "left" THEN b.at
     ELSE IF spatial = "right" THEN -b.at
     ELSE IF spatial = "center" THEN IF middle < 0 THEN -middle ELSE middle
     ELSE -b.area

\* The first of those that are equally good.
Selected(spatial, found, candidates) ==
  LET key == [k \in candidates |-> Key(spatial, found[k])]
  IN found[CHOOSE i \in candidates : \A j \in candidates :
             key[i] < key[j] \/ (key[i] = key[j] /\ i <= j)]

\* _publish_selection and _publish_pose, after parsed' and seen' are known.  A
\* box without coordinates is selected, but no pose is published for it.
PublishSelection ==
  IF seen' = Nothing \/ Matching(parsed', seen'.boxes) = {}
  THEN selected' = [found |-> FALSE, of |-> parsed'] /\ UNCHANGED target
  ELSE LET box == Selected(parsed'.spatial, seen'.boxes, Matching(parsed', seen'.boxes))
       IN /\ selected' = [found |-> TRUE, of |-> parsed', box |-> box]
          /\ target' = IF box.posed THEN [box |-> box, frame |-> seen'.frame, of |-> parsed']
                       ELSE target

-----------------------------------------------------------------------------
(* Callbacks *)

Idle == running /\ asking = Nothing

\* _on_boxes
OnBoxes ==
  /\ Idle /\ boxes # <<>>
  /\ boxes' = Tail(boxes)
  /\ seen' = Head(boxes) /\ parsed' = parsed
  /\ IF parsed # Nothing THEN PublishSelection ELSE UNCHANGED <<selected, target>>
  /\ UNCHANGED <<commands, asking, running>>

\* _on_command, to the request that _parse_with_ollama sends.
Ask ==
  /\ Idle /\ commands # <<>>
  /\ commands' = Tail(commands) /\ asking' = Head(commands)
  /\ UNCHANGED <<boxes, parsed, seen, selected, target, running>>

\* _normalize_parsed
NormalizeParsed(reading, command) ==
  [color |-> reading.color,
   spatial |-> IF reading.spatial = Nothing THEN DefaultSpatial ELSE reading.spatial,
   command |-> command]

\* The rest of _on_command: with the answer, or by the rules when there was no
\* answer, no connection or no JSON in it.
Parse(reading) ==
  /\ running /\ asking # Nothing
  /\ parsed' = NormalizeParsed(reading, asking)
  /\ asking' = Nothing /\ seen' = seen
  /\ PublishSelection
  /\ UNCHANGED <<commands, boxes, running>>

AnswerComes == \E answer \in Answers : Parse(answer)
FallBack == Parse(asking)

\* A connection that is closed before the answer raises an exception that
\* _parse_with_ollama does not expect, and main neither.
ConnectionBreaks ==
  /\ running /\ asking # Nothing
  /\ running' = FALSE
  /\ UNCHANGED <<commands, boxes, asking, parsed, seen, selected, target>>

SelectorInit ==
  /\ commands = <<>> /\ boxes = <<>> /\ asking = Nothing /\ parsed = Nothing
  /\ seen = Nothing /\ selected = Nothing /\ target = Nothing /\ running = TRUE

SelectorNext == OnBoxes \/ Ask \/ AnswerComes \/ FallBack \/ ConnectionBreaks

\* What may come on the two topics: readings of texts, and boxes box_pose_node has
\* seen, whose distance is zero where the depth image has none.
Box == [color : Colors, at : Int, area : Int, z : 0 .. Infinity - 1, posed : BOOLEAN]
Sightings == [frame : {"base", "camera", "plane"}, boxes : Seq(Box)]

Arrives ==
  /\ \/ /\ \E sighting \in Sightings : boxes' = Queued(boxes, sighting)
        /\ UNCHANGED commands
     \/ /\ \E reading \in Readings : commands' = Queued(commands, reading)
        /\ UNCHANGED boxes
  /\ UNCHANGED <<asking, parsed, seen, selected, target, running>>

SelectorSpec == SelectorInit /\ [][SelectorNext \/ Arrives]_selectorVars

-----------------------------------------------------------------------------
(* Properties *)

\* The selection that was published last is about the command that was parsed
\* last, and says "found" exactly when the boxes received last have one that fits;
\* no other of these fits better than the box it names.  Where a distance is asked
\* for, a box that has one is better than a box that has none.
Fits(command, b) == command.color \in {Nothing, b.color}
Beats(command, a, b) ==
  IF command.spatial = "nearest" THEN a.z # 0 /\ (b.z = 0 \/ a.z < b.z)
  ELSE IF command.spatial = "farthest" THEN a.z # 0 /\ (b.z = 0 \/ a.z > b.z)
  ELSE IF command.spatial = "left" THEN a.at < b.at
  ELSE IF command.spatial = "right" THEN a.at > b.at
  ELSE IF command.spatial = "center"
       THEN (a.at - Middle) * (a.at - Middle) < (b.at - Middle) * (b.at - Middle)
  ELSE a.area > b.area
SelectionAnswersCommand ==
  parsed # Nothing =>
    /\ selected.of = parsed
    /\ selected.found <=> seen # Nothing /\ \E k \in DOMAIN seen.boxes : Fits(parsed, seen.boxes[k])
    /\ selected.found =>
         /\ \E k \in DOMAIN seen.boxes : selected.box = seen.boxes[k]
         /\ Fits(parsed, selected.box)
         /\ \A k \in DOMAIN seen.boxes :
              Fits(parsed, seen.boxes[k]) => ~Beats(parsed, seen.boxes[k], selected.box)

\* What the callbacks hold was received, and is of the kind that is sent.
SelectorTypeOK ==
  /\ boxes \in Seq(Sightings) /\ commands \in Seq(Readings)
  /\ asking \in Readings \cup {Nothing}
  /\ seen \in Sightings \cup {Nothing}
  /\ parsed # Nothing => parsed.color \in Colors \cup {Nothing} /\ parsed.spatial \in Spatials

SelectorInv == SelectorTypeOK /\ SelectionAnswersCommand

=============================================================================
