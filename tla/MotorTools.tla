------------------------------ MODULE MotorTools ------------------------------
(***************************************************************************)
(* Processes on one machine that share files: tools that save parameters,  *)
(* threads of nodes that look them up, and streams that hold the control   *)
(* gate the tools look at.                                                 *)
(*                                                                         *)
(* Which of them are there is chosen at the start.                         *)
(***************************************************************************)
EXTENDS ParamStore, MitStream

CONSTANT Crews  \* sets of processes that are there together

ASSUME CrewsAssumption == Crews \subseteq SUBSET (Tuners \cup Readers \cup Streams)

VARIABLE crew

toolVars == <<crew, gate, storeVars, streamVars>>

ToolsInit == crew \in Crews /\ GateInit /\ StoreInit /\ StreamInit

Tool(t) ==
  /\ t \in crew
  /\ TunerStep(t)
  /\ UNCHANGED <<crew, gate, streamVars>>

ToolStops(t) ==
  /\ t \in crew
  /\ GiveUp(t)
  /\ UNCHANGED <<crew, gate, streamVars>>

Node(r) ==
  /\ r \in crew
  /\ ReaderStep(r)
  /\ UNCHANGED <<crew, gate, streamVars>>

Stream(s) ==
  /\ s \in crew
  /\ StreamMoves(s)
  /\ UNCHANGED <<crew, storeVars>>

StreamChanges(s) ==
  /\ s \in crew
  /\ Open(s) \/ Interrupt(s) \/ Kill(s)
  /\ UNCHANGED <<crew, storeVars>>

Second ==
  /\ crew \cap Streams # {}
  /\ Tick
  /\ UNCHANGED <<crew, storeVars>>

ToolsNext ==
  \/ \E t \in Tuners : Tool(t) \/ ToolStops(t)
  \/ \E r \in Readers : Node(r)
  \/ \E s \in Streams : Stream(s) \/ StreamChanges(s)
  \/ Second

ToolsSpec == ToolsInit /\ [][ToolsNext]_toolVars

\* Every process goes on with what it has begun; nothing is asked of the time
\* at which streams start, end or are killed.
ToolsFairSpec ==
  /\ ToolsSpec
  /\ \A t \in Tuners : WF_toolVars(Tool(t))
  /\ \A r \in Readers : WF_toolVars(Node(r))
  /\ \A s \in Streams : WF_toolVars(Stream(s))
  /\ WF_toolVars(Second)

-----------------------------------------------------------------------------
(* Properties *)

\* "Control is active: stop control before modifying/saving parameters": no
\* tool is let through while a stream is in its session.
NoToolPassesASession ==
  [][\A t \in Tuners, s \in Streams :
       CheckGate(t) /\ InSession(s) => step'[t] = "refused"]_step

=============================================================================
