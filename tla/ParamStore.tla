------------------------------ MODULE ParamStore ------------------------------
(***************************************************************************)
(* control_tuning and param_store: processes that save control tuning, and *)
(* nodes that look it up.                                                  *)
(*                                                                         *)
(* A tool (control_param_set, control_param_save) is one process that runs *)
(* once.  It looks at the gate, creates the tuned file from the original   *)
(* one if there is none, and reads, changes and replaces it under flock.   *)
(* A reader is a thread of a node.  The threads of a node share one cache, *)
(* which keeps what was loaded for as long as the modification time of the *)
(* file stays the same; nothing orders what they do with it.               *)
(*                                                                         *)
(* A document maps entries (a motor and a key) to the tool that set them.  *)
(***************************************************************************)
EXTENDS ControlGate, Integers

CONSTANTS
  Tuners,    \* invocations of the tools
  Readers,   \* threads that look parameters up
  Nodes,     \* the processes these threads are of
  NodeOf,    \* per thread: its process
  Entries,   \* entries of the document
  Updates,   \* the entries each tool sets; none for control_param_save
  Original,  \* the value of an entry in the original file
  Missing,   \* no file, or nothing loaded yet
  NoOne      \* nobody holds the lock

Doc == [Entries -> Tuners \cup {Original}]

ASSUME StoreAssumption ==
  /\ NodeOf \in [Readers -> Nodes]
  /\ Updates \in [Tuners -> SUBSET Entries]
  /\ Original \notin Tuners /\ NoOne \notin Tuners /\ Missing \notin Doc

VARIABLES
  tuned,      \* tuned/control_params.yaml
  mtime,      \* its modification time; 0 while there is no file
  lock,       \* who holds the flock of tuned/control_params.yaml.lock
  step,       \* per tool: what it does next, or how it has ended
  draft,      \* per tool: the document it has read
  cache,      \* per node: the document it keeps, and the time it keeps it under
  reader,     \* per thread: where it is, the time it has seen, what it has loaded
  shipped,    \* history: the file was there from the start
  rewritten,  \* history: a write kept the modification time of the one before
  crossed     \* history: per node, the latest document came into the cache while
              \* another thread had still to remember the time of its own

storeVars ==
  <<tuned, mtime, lock, step, draft, cache, reader, shipped, rewritten, crossed>>
readerVars == <<cache, reader, crossed>>

OriginalDoc == [e \in Entries |-> Original]

\* load_control_effective: the original document under the tuned one.
Effective == IF tuned = Missing THEN OriginalDoc ELSE tuned

Idle == [at |-> "idle", seen |-> 0, loaded |-> Missing]

StoreInit ==
  /\ tuned \in {OriginalDoc, Missing}
  /\ shipped = (tuned # Missing)
  /\ mtime = IF shipped THEN 1 ELSE 0
  /\ lock = NoOne
  /\ step = [t \in Tuners |-> "start"]
  /\ draft = [t \in Tuners |-> Missing]
  /\ cache = [n \in Nodes |-> [doc |-> Missing, mtime |-> 0]]
  /\ reader = [r \in Readers |-> Idle]
  /\ rewritten = FALSE
  /\ crossed = [n \in Nodes |-> FALSE]

-----------------------------------------------------------------------------
(* Tools *)

Goes(t, from, to) ==
  /\ step[t] = from
  /\ step' = [step EXCEPT ![t] = to]

\* atomic_write_yaml: the file is replaced as a whole.  Modification times are
\* coarse: two writes in a row may carry the same one.
Replace(doc) ==
  /\ tuned' = doc
  /\ mtime' \in {mtime + 1} \cup ({mtime} \ {0})
  /\ rewritten' = (rewritten \/ mtime' = mtime)

\* assert_control_inactive, before anything is locked.
CheckGate(t) ==
  /\ Goes(t, "start", IF gate THEN "refused" ELSE "allowed")
  /\ UNCHANGED <<tuned, mtime, lock, draft, readerVars, shipped, rewritten>>

\* initialize_tuned_from_original_if_missing, in two steps and without lock.
CheckFile(t) ==
  /\ Goes(t, "allowed", IF tuned = Missing THEN "creating" ELSE "waiting")
  /\ UNCHANGED <<tuned, mtime, lock, draft, readerVars, shipped, rewritten>>

Create(t) ==
  /\ Goes(t, "creating", "waiting")
  /\ Replace(OriginalDoc)
  /\ UNCHANGED <<lock, draft, readerVars, shipped>>

\* Mutant: the lock is not taken.
Lock_Shared(t) ==
  /\ Goes(t, "waiting", "locked")
  /\ lock' = t
  /\ UNCHANGED <<tuned, mtime, draft, readerVars, shipped, rewritten>>

Lock(t) ==
  /\ lock = NoOne
  /\ Goes(t, "waiting", "locked")
  /\ lock' = t
  /\ UNCHANGED <<tuned, mtime, draft, readerVars, shipped, rewritten>>

Read(t) ==
  /\ Goes(t, "locked", "read")
  /\ draft' = [draft EXCEPT ![t] = Effective]
  /\ UNCHANGED <<tuned, mtime, lock, readerVars, shipped, rewritten>>

Updated(doc, t) == [e \in Entries |-> IF e \in Updates[t] THEN t ELSE doc[e]]

Write(t) ==
  /\ Goes(t, "read", "written")
  /\ Replace(Updated(draft[t], t))
  /\ UNCHANGED <<lock, draft, readerVars, shipped>>

Unlock(t) ==
  /\ Goes(t, "written", "done")
  /\ lock' = NoOne
  /\ UNCHANGED <<tuned, mtime, draft, readerVars, shipped, rewritten>>

Over == {"refused", "done", "failed"}

\* Mutant: the lock outlives its holder.
GiveUp_KeepsLock(t) ==
  /\ step[t] \notin Over
  /\ step' = [step EXCEPT ![t] = "failed"]
  /\ UNCHANGED <<tuned, mtime, lock, draft, readerVars, shipped, rewritten>>

\* A value that does not validate, a failed write, or the end of the process:
\* the kernel frees the lock.
GiveUp(t) ==
  /\ step[t] \notin Over
  /\ step' = [step EXCEPT ![t] = "failed"]
  /\ lock' = IF lock = t THEN NoOne ELSE lock
  /\ UNCHANGED <<tuned, mtime, draft, readerVars, shipped, rewritten>>

TunerStep(t) ==
  CheckGate(t) \/ CheckFile(t) \/ Create(t) \/ Lock(t) \/ Read(t) \/ Write(t)
    \/ Unlock(t)

-----------------------------------------------------------------------------
(* _get_cached_effective *)

Moves(r, from, to) ==
  /\ reader[r].at = from
  /\ reader' = [reader EXCEPT ![r] = to]
  /\ UNCHANGED <<tuned, mtime, lock, step, draft, shipped, rewritten>>

\* The modification time is looked at first.
Stat(r) ==
  /\ Moves(r, "idle", [at |-> "seen", seen |-> mtime, loaded |-> Missing])
  /\ UNCHANGED <<cache, crossed>>

\* Nothing more to do if it is the one the cache knows.
Compare(r) ==
  LET kept == cache[NodeOf[r]] IN
  /\ Moves(r, "seen", IF kept.doc = Missing \/ kept.mtime # reader[r].seen
                      THEN [reader[r] EXCEPT !.at = "loading"] ELSE Idle)
  /\ UNCHANGED <<cache, crossed>>

Load(r) ==
  /\ Moves(r, "loading", [reader[r] EXCEPT !.at = "loaded", !.loaded = Effective])
  /\ UNCHANGED <<cache, crossed>>

\* A thread that has put its document into the cache, and not yet its time.
HalfKept(r, n) == NodeOf[r] = n /\ reader[r].at = "stored"

\* What was loaded goes into the cache, ...
Store(r) ==
  LET n == NodeOf[r] IN
  /\ Moves(r, "loaded", [reader[r] EXCEPT !.at = "stored"])
  /\ cache' = [cache EXCEPT ![n].doc = reader[r].loaded]
  /\ crossed' = [crossed EXCEPT ![n] = \E q \in Readers : HalfKept(q, n)]

\* Mutant: the modification time is looked at again after the load.
Remember_StatsAgain(r) ==
  /\ Moves(r, "stored", Idle)
  /\ cache' = [cache EXCEPT ![NodeOf[r]].mtime = mtime]
  /\ UNCHANGED crossed

\* ... and then, in a statement of its own, the time looked at before the load.
Remember(r) ==
  /\ Moves(r, "stored", Idle)
  /\ cache' = [cache EXCEPT ![NodeOf[r]].mtime = reader[r].seen]
  /\ UNCHANGED crossed

ReaderStep(r) == Stat(r) \/ Compare(r) \/ Load(r) \/ Store(r) \/ Remember(r)

-----------------------------------------------------------------------------
(* Properties *)

Places == {"start", "allowed", "creating", "waiting", "locked", "read", "written"}
            \cup Over
Holds(t) == step[t] \in {"locked", "read", "written"}

StoreTypeOK ==
  /\ tuned \in Doc \cup {Missing} /\ mtime \in Nat
  /\ shipped \in BOOLEAN /\ rewritten \in BOOLEAN
  /\ lock \in Tuners \cup {NoOne}
  /\ step \in [Tuners -> Places] /\ draft \in [Tuners -> Doc \cup {Missing}]
  /\ cache \in [Nodes -> [doc : Doc \cup {Missing}, mtime : Nat]]
  /\ reader \in [Readers -> [at : {"idle", "seen", "loading", "loaded", "stored"},
                             seen : Nat, loaded : Doc \cup {Missing}]]
  /\ crossed \in [Nodes -> BOOLEAN]
  /\ \A t \in Tuners : lock = t <=> Holds(t)
  /\ \A t \in Tuners : step[t] = "read" => draft[t] # Missing

\* What SavesAddUp rests on.
SavesInv ==
  shipped =>
    /\ tuned # Missing
    /\ \A t \in Tuners : /\ step[t] # "creating"
                         /\ step[t] = "read" => draft[t] = tuned

\* Saves add up: while the file is there from the start, every write of it is
\* one tool's change to what the file holds at that moment, so no tool undoes
\* what another one has saved, whatever tools run at once, fail or are killed.
SavesAddUp ==
  [][shipped => \E t \in Tuners : tuned' = Updated(tuned, t)]_tuned

\* What CacheIsCurrent rests on.
CacheInv ==
  /\ \A r \in Readers :
       /\ reader[r].seen <= mtime
       /\ reader[r].at \in {"loaded", "stored"} /\ reader[r].seen = mtime /\ ~rewritten
            => reader[r].loaded = Effective
  /\ \A n \in Nodes : cache[n].mtime <= mtime
  /\ \A r \in Readers :
       HalfKept(r, NodeOf[r]) /\ ~crossed[NodeOf[r]] =>
         /\ cache[NodeOf[r]].doc = reader[r].loaded
         /\ \A q \in Readers : HalfKept(q, NodeOf[r]) => q = r

\* A node that finds the modification time it knows keeps the document the
\* file holds, however writes and the looks and loads of its threads fall among
\* each other: unless two writes carried the same modification time, or the
\* document was put into the cache between the two assignments of another thread
\* (control_tuning.py:209 and 210, under no lock), which may then put an older
\* document under the current time, until the next save.
CacheIsCurrent ==
  \A n \in Nodes :
    /\ cache[n].doc # Missing /\ cache[n].mtime = mtime /\ ~rewritten
    /\ ~crossed[n] /\ \A r \in Readers : ~HalfKept(r, n)
    => cache[n].doc = Effective

\* Every tool ends, also when the holder of the lock fails or is killed.
ToolsEnd == \A t \in Tuners : step[t] = "allowed" ~> step[t] \in Over

=============================================================================
