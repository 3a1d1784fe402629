----------------------------- MODULE VoiceCommand -----------------------------
(***************************************************************************)
(* voice_command_node: a worker thread records what is louder than the     *)
(* noise it has measured, has it transcribed and publishes it as a         *)
(* command; the main thread only spins, and joins the worker at the end.   *)
(*                                                                         *)
(* Time is counted in frames of the microphone.  A frame is quiet, loud or *)
(* level with the threshold.                                               *)
(***************************************************************************)
EXTENDS Integers, Sequences

CONSTANTS
  Texts,        \* what may be understood; "exit" is an exit word
  StartFrames,  \* start_trigger_frames
  PreRoll,      \* frames that pre_roll_seconds are
  EndSilence,   \* frames that end_silence_seconds are
  MinRecord,    \* frames that min_record_seconds are
  MaxRecord,    \* frames that max_record_seconds are
  ExitShutsDown \* shutdown_on_exit_word

ASSUME VoiceAssumption ==
  /\ {StartFrames, PreRoll, MaxRecord} \subseteq Nat \ {0} /\ {EndSilence, MinRecord} \subseteq Nat
  /\ ExitShutsDown \in BOOLEAN

VARIABLES
  stage,   \* where the worker is
  trigger, \* speech_trigger_count
  head,    \* length of pre_roll_buffer, then of what it gave to the recording
  silence, \* silence_seconds
  elapsed, \* time since the recording started
  file,    \* the temporary file exists
  spoken,  \* what the worker publishes in this step, or no text
  context, \* rclpy.ok()
  stop,    \* _stop_event
  main     \* the main thread spins, joins the worker, or has ended the process

recorder == <<trigger, head, silence, elapsed>>
voiceVars == <<stage, recorder, file, spoken, context, stop, main>>

NoText == ""
Going == context /\ ~stop
AtMost(n, bound) == IF n < bound THEN n ELSE bound
Cleared == trigger' = 0 /\ head' = 0 /\ silence' = 0 /\ elapsed' = 0
Keeps == spoken' = NoText /\ UNCHANGED <<context, stop, main>>

-----------------------------------------------------------------------------
(* _record_until_silence *)

\* _calibrate_noise, between two reports of the status.
Calibrate ==
  /\ stage = "calibrating"
  /\ stage' = IF context THEN "waiting" ELSE "ended"
  /\ Cleared
  /\ Keeps /\ UNCHANGED file

\* A frame before the recording: the frames that trigger it are part of it.
Hear(energy) ==
  /\ stage = "waiting" /\ Going
  /\ head' = AtMost(head + 1, PreRoll)
  /\ trigger' = IF energy = "loud" THEN trigger + 1 ELSE 0
  /\ stage' = IF trigger' >= StartFrames THEN "recording" ELSE "waiting"
  /\ silence' = 0 /\ elapsed' = 0
  /\ Keeps /\ UNCHANGED file

\* Mutant: a room that stays loud is recorded for ever.
LongEnough_Loud == elapsed' >= MinRecord /\ silence' >= EndSilence

LongEnough == (elapsed' >= MinRecord /\ silence' >= EndSilence) \/ elapsed' >= MaxRecord

Record(energy) ==
  /\ stage = "recording" /\ Going
  /\ elapsed' = AtMost(elapsed + 1, MaxRecord)
  /\ silence' = IF energy = "quiet" THEN AtMost(silence + 1, EndSilence) ELSE 0
  /\ stage' = IF LongEnough THEN "recorded" ELSE "recording"
  /\ Keeps /\ UNCHANGED <<trigger, head, file>>

\* The loop is left; what has been recorded so far is kept.  Or the frame that
\* was being read is worth a report, which fails without a context.
Interrupted ==
  /\ stage \in {"waiting", "recording"} /\ ~Going
  /\ \/ stage' = IF stage = "recording" THEN "recorded" ELSE "between"
     \/ ~context /\ stage' = "ended"
  /\ Keeps /\ UNCHANGED <<recorder, file>>

Save ==
  /\ stage = "recorded"
  /\ IF stop THEN stage' = "between" /\ UNCHANGED file
     ELSE stage' = "transcribing" /\ file' = TRUE
  /\ Cleared /\ Keeps

\* The microphone fails: the exception ends the worker, and the node goes on
\* without it.
MicrophoneFails ==
  /\ stage \in {"calibrating", "waiting", "recording"}
  /\ stage' = "ended" /\ Cleared
  /\ Keeps /\ UNCHANGED file

-----------------------------------------------------------------------------
(* _run_loop.  Nothing can be published once the context is shut down: the     *)
(* attempt raises an exception, and so does the report of that exception.      *)

\* _load_whisper_model, between two reports: it may find no model to load.
LoadModel(loaded) ==
  /\ stage = "loading"
  /\ stage' = IF loaded /\ context THEN "between" ELSE "ended"
  /\ Keeps /\ UNCHANGED <<recorder, file>>

Transcribe(text) ==
  /\ stage = "transcribing"
  /\ file' = FALSE
  /\ CASE text = NoText -> /\ stage' = IF context THEN "between" ELSE "ended"
                           /\ spoken' = NoText /\ UNCHANGED context
       [] text # NoText /\ ~context ->
            stage' = "ended" /\ spoken' = NoText /\ UNCHANGED context
       [] text = "exit" /\ context ->
            /\ stage' = IF ExitShutsDown THEN "ended" ELSE "between"
            /\ context' = ~ExitShutsDown /\ spoken' = NoText
       [] OTHER -> stage' = "between" /\ spoken' = text /\ UNCHANGED context
  /\ UNCHANGED <<recorder, stop, main>>

Between ==
  /\ stage = "between"
  /\ stage' = IF Going THEN "calibrating" ELSE "ended"
  /\ Keeps /\ UNCHANGED <<recorder, file>>

-----------------------------------------------------------------------------
(* Main thread *)

\* Ctrl-C shuts the context down.
Interrupt ==
  /\ context /\ main = "spins"
  /\ context' = FALSE /\ spoken' = NoText
  /\ UNCHANGED <<stage, recorder, file, stop, main>>

\* spin has returned: destroy_node asks the worker to stop, and waits.
DestroyNode ==
  /\ ~context /\ main = "spins"
  /\ stop' = TRUE /\ main' = "joins" /\ spoken' = NoText
  /\ UNCHANGED <<stage, recorder, file, context>>

Joined ==
  /\ main = "joins" /\ stage = "ended"
  /\ main' = "ended" /\ spoken' = NoText
  /\ UNCHANGED <<stage, recorder, file, context, stop>>

\* join gives up after two seconds, which only the model takes, to be loaded or
\* to transcribe; the worker ends with the process, and its file stays.
JoinTimesOut ==
  /\ main = "joins" /\ stage \in {"loading", "transcribing"}
  /\ main' = "ended" /\ stage' = "ended" /\ spoken' = NoText
  /\ UNCHANGED <<recorder, file, context, stop>>

VoiceInit ==
  /\ stage = "loading" /\ trigger = 0 /\ head = 0 /\ silence = 0 /\ elapsed = 0
  /\ file = FALSE /\ spoken = NoText /\ context = TRUE /\ stop = FALSE /\ main = "spins"

Energies == {"quiet", "level", "loud"}
Listens == Calibrate \/ (\E energy \in Energies : Hear(energy) \/ Record(energy)) \/ Interrupted
WorkerSteps ==
  \/ \E loaded \in BOOLEAN : LoadModel(loaded)
  \/ Listens \/ Save \/ (\E text \in Texts : Transcribe(text)) \/ Between
MainSteps == DestroyNode \/ Joined

VoiceNext == WorkerSteps \/ MicrophoneFails \/ Interrupt \/ MainSteps \/ JoinTimesOut

-----------------------------------------------------------------------------
(* Properties *)

\* Whatever is heard, a recording ends and is judged: the worker listens again
\* or has ended.  And once the context is gone the process ends.
VoiceNeverHangs ==
  /\ stage = "recording" ~> stage \in {"calibrating", "ended"}
  /\ ~context ~> main = "ended"

=============================================================================
