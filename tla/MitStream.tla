------------------------------ MODULE MitStream ------------------------------
(***************************************************************************)
(* mit_stream and stream_state: test tools that stream commands to motors, *)
(* and the file in which they tell the diagnosis monitor about it.         *)
(*                                                                         *)
(* A stream sets the control gate, publishes its motors with the time, and *)
(* does so again every second; when it is interrupted it takes its motors  *)
(* out of the file and clears the gate.  Every change of the file is a     *)
(* read, a change and a replacement, without a lock.                       *)
(*                                                                         *)
(* The motors of a stream are one entry.  Time is kept as the age of       *)
(* entries; one that is too old to count is the same as none.              *)
(***************************************************************************)
EXTENDS ControlGate, Integers

CONSTANTS
  Streams,  \* mit_stream processes, each for motors of its own
  MaxAge    \* max_age_sec of the monitor

ASSUME StreamAssumption == MaxAge \in Nat

VARIABLES
  file,     \* per stream: the age of its entry in the file
  stage,    \* per stream: where it is
  copy,     \* per stream: the entries it has read
  last,     \* history, per stream: the time since it last wrote its entry
  killed    \* history: a stream was killed while it held the gate

streamVars == <<file, stage, copy, last, killed>>

None == MaxAge + 1
Ages == 0 .. None
NoEntries == [s \in Streams |-> None]

StreamInit ==
  /\ file = NoEntries
  /\ stage = [s \in Streams |-> "off"]
  /\ copy = [s \in Streams |-> NoEntries]
  /\ last = NoEntries
  /\ killed = FALSE

MovesOn(s, from, to) ==
  /\ stage[s] = from
  /\ stage' = [stage EXCEPT ![s] = to]

\* _load_state.
Loads(s, from, to) ==
  /\ MovesOn(s, from, to)
  /\ copy' = [copy EXCEPT ![s] = file]
  /\ UNCHANGED <<gate, file, last, killed>>

\* What was read is of no use once it is written.
Forgets(s) == copy' = [copy EXCEPT ![s] = NoEntries]

Replaces(s, from, to, age) ==
  /\ MovesOn(s, from, to)
  /\ file' = [copy[s] EXCEPT ![s] = age]
  /\ Forgets(s)

-----------------------------------------------------------------------------
(* mit_stream *)

\* control_session is entered.
Open(s) ==
  /\ MovesOn(s, "off", "opened")
  /\ SetControlActive(TRUE)
  /\ UNCHANGED <<file, copy, last, killed>>

\* publish_mit_stream, before the loop and every second in it.
LoadFirst(s) == Loads(s, "opened", "announcing")

LoadBeat(s) == Loads(s, "running", "beating")

Publish(s) ==
  /\ \/ Replaces(s, "announcing", "running", 0)
     \/ Replaces(s, "beating", "running", 0)
  /\ last' = [last EXCEPT ![s] = 0]
  /\ UNCHANGED <<gate, killed>>

\* An interrupt, or a send or a write that fails.  The loop clears the entry on
\* its way out; the first publish and the clearing itself are left as they are.
Interrupt(s) ==
  /\ \/ MovesOn(s, "opened", "closing") \/ MovesOn(s, "announcing", "closing")
     \/ MovesOn(s, "running", "clearing") \/ MovesOn(s, "beating", "clearing")
     \/ MovesOn(s, "clearing", "closing") \/ MovesOn(s, "removing", "closing")
  /\ Forgets(s)
  /\ UNCHANGED <<gate, file, last, killed>>

\* clear_mit_stream.
LoadClear(s) == Loads(s, "clearing", "removing")
Clear(s) ==
  /\ Replaces(s, "removing", "closing", None)
  /\ UNCHANGED <<gate, last, killed>>

\* control_session is left.
Close(s) ==
  /\ MovesOn(s, "closing", "off")
  /\ SetControlActive(FALSE)
  /\ UNCHANGED <<file, copy, last, killed>>

\* The process is killed: nothing of the above is done.
Kill(s) ==
  /\ stage[s] # "off"
  /\ stage' = [stage EXCEPT ![s] = "off"]
  /\ Forgets(s)
  /\ killed' = TRUE
  /\ UNCHANGED <<gate, file, last>>

Older(entries) == [s \in Streams |-> IF entries[s] < None THEN entries[s] + 1 ELSE None]

\* A second passes.
Tick ==
  /\ file' = Older(file)
  /\ copy' = [s \in Streams |-> Older(copy[s])]
  /\ last' = Older(last)
  /\ UNCHANGED <<gate, stage, killed>>

StreamMoves(s) ==
  LoadFirst(s) \/ LoadBeat(s) \/ Publish(s) \/ LoadClear(s) \/ Clear(s) \/ Close(s)

-----------------------------------------------------------------------------
(* diag_monitor *)

\* load_expected_hz_map: the streams the monitor expects feedback from.
Expected == {s \in Streams : file[s] <= MaxAge}

-----------------------------------------------------------------------------
(* Properties *)

InSession(s) == stage[s] # "off"

StreamTypeOK ==
  /\ gate \in BOOLEAN /\ killed \in BOOLEAN
  /\ file \in [Streams -> Ages] /\ last \in [Streams -> Ages]
  /\ stage \in [Streams -> {"off", "opened", "announcing", "running", "beating",
                           "clearing", "removing", "closing"}]
  /\ copy \in [Streams -> [Streams -> Ages]]

\* What ExpectedHasPublished rests on: no copy of an entry is younger than the
\* last write of the stream it is of.
CopiesAreOld ==
  \A r \in Streams : /\ file[r] >= last[r]
                    /\ \A s \in Streams : copy[s][r] >= last[r]

\* The monitor expects feedback only of a stream that has written its entry
\* within max_age_sec: however the streams overwrite each other's changes, an
\* entry that is brought back is brought back with its old time.
ExpectedHasPublished == \A s \in Expected : last[s] <= MaxAge

\* Parameter tools are refused only while a stream runs, unless one was killed.
GateClosesWithTheLast ==
  gate => killed \/ \E s \in Streams : InSession(s)

=============================================================================
