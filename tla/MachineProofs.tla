------------------------------ MODULE MachineProofs ------------------------------
(***************************************************************************)
(* Proofs about the programs of one machine, which share files there.      *)
(* MotorTools, for any tools, threads, streams and crews: saves add up, the*)
(* monitor expects only streams that have published, and the gate refuses  *)
(* tools only while a stream runs.  LearningFiles, for any trainings,      *)
(* evaluations, ablations and commands: what was trained together is       *)
(* judged together.  SimDataset and ContactEvaluation, for any dataset,    *)
(* detector and way to evaluate: labels agree with events, and the metrics *)
(* of an evaluation with each other.                                       *)
(***************************************************************************)
EXTENDS MotorTools, ContactEvaluation, LearningFiles, OrderLemmas

-----------------------------------------------------------------------------
(* ParamStore *)

LEMMA OriginalDocType == OriginalDoc \in Doc
  BY DEF OriginalDoc, Doc

LEMMA EffectiveType == ASSUME tuned \in Doc \cup {Missing} PROVE Effective \in Doc
  BY OriginalDocType DEF Effective

LEMMA UpdatedType ==
  ASSUME NEW t \in Tuners, NEW doc \in Doc PROVE Updated(doc, t) \in Doc
  BY DEF Updated, Doc

LEMMA ReplaceType ==
  ASSUME StoreTypeOK, NEW doc \in Doc, Replace(doc)
  PROVE tuned' \in Doc \cup {Missing} /\ mtime' \in Nat /\ rewritten' \in BOOLEAN
<1>1. rewritten' \in BOOLEAN
  BY Zenon DEF Replace
<1>2. mtime' \in Nat
  BY DEF Replace, StoreTypeOK
<1>3. tuned' \in Doc \cup {Missing}
  BY DEF Replace
<1> QED BY <1>1, <1>2, <1>3

\* A tool that neither takes the lock nor gives it back.
LEMMA KeepsLock ==
  ASSUME StoreTypeOK, NEW t \in Tuners, NEW from, NEW to \in Places,
         Goes(t, from, to), UNCHANGED lock,
         from \in {"locked", "read", "written"} <=> to \in {"locked", "read", "written"},
         to # "read" /\ UNCHANGED draft
  PROVE /\ step' \in [Tuners -> Places]
        /\ lock' \in Tuners \cup {NoOne}
        /\ \A u \in Tuners : lock' = u <=> Holds(u)'
        /\ \A u \in Tuners : step'[u] = "read" => draft'[u] # Missing
  BY DEF StoreTypeOK, Goes, Holds

LEMMA StoreTypeInit == ASSUME StoreInit PROVE StoreTypeOK
<1>1. tuned \in Doc \cup {Missing} /\ lock \in Tuners \cup {NoOne}
  BY OriginalDocType DEF StoreInit
<1>2. mtime \in Nat
  BY DEF StoreInit
<1>3. shipped \in BOOLEAN /\ rewritten \in BOOLEAN
  BY Zenon DEF StoreInit
<1>4. step \in [Tuners -> Places] /\ draft \in [Tuners -> Doc \cup {Missing}]
  BY DEF StoreInit, Places
<1>5. /\ cache \in [Nodes -> [doc : Doc \cup {Missing}, mtime : Nat]]
      /\ reader \in [Readers -> [at : {"idle", "seen", "loading", "loaded", "stored"},
                                seen : Nat, loaded : Doc \cup {Missing}]]
      /\ crossed \in [Nodes -> BOOLEAN]
  BY DEF StoreInit, Idle
<1>6. \A t \in Tuners : lock = t <=> Holds(t)
  BY StoreAssumption DEF StoreInit, Holds
<1>7. \A t \in Tuners : step[t] = "read" => draft[t] # Missing
  BY DEF StoreInit
<1> QED BY <1>1, <1>2, <1>3, <1>4, <1>5, <1>6, <1>7 DEF StoreTypeOK

LEMMA TunerStepType ==
  ASSUME StoreTypeOK, NEW t \in Tuners, TunerStep(t) \/ GiveUp(t)
  PROVE StoreTypeOK'
<1> DEFINE Locks == {"locked", "read", "written"}
<1>0. /\ {"refused", "allowed", "creating", "waiting", "locked", "read", "written",
          "done", "failed"} \subseteq Places
  BY DEF Places, Over
<1>1. CASE CheckGate(t)
  <2> DEFINE to == IF gate THEN "refused" ELSE "allowed"
  <2>1. Goes(t, "start", to) /\ to \in Places \ Locks /\ UNCHANGED <<lock, draft>>
    BY <1>0, <1>1 DEF CheckGate
  <2> HIDE DEF to
  <2> QED BY <1>1, <2>1, KeepsLock DEF CheckGate, StoreTypeOK, readerVars
<1>2. CASE CheckFile(t)
  <2> DEFINE to == IF tuned = Missing THEN "creating" ELSE "waiting"
  <2>1. Goes(t, "allowed", to) /\ to \in Places \ Locks /\ UNCHANGED <<lock, draft>>
    BY <1>0, <1>2 DEF CheckFile
  <2> HIDE DEF to
  <2> QED BY <1>2, <2>1, KeepsLock DEF CheckFile, StoreTypeOK, readerVars
<1>3. CASE Create(t)
  <2>1. /\ Goes(t, "creating", "waiting") /\ UNCHANGED <<lock, draft>>
        /\ Replace(OriginalDoc)
    BY <1>3 DEF Create
  <2> QED BY <1>0, <1>3, <2>1, KeepsLock, ReplaceType, OriginalDocType
          DEF Create, StoreTypeOK, readerVars
<1>4. CASE Lock(t)
  <2>1. /\ step' = [step EXCEPT ![t] = "locked"] /\ lock = NoOne /\ lock' = t
    BY <1>4 DEF Lock, Goes
  <2>2. \A u \in Tuners : lock' = u <=> Holds(u)'
    BY <2>1, StoreAssumption DEF StoreTypeOK, Holds
  <2>3. step' \in [Tuners -> Places]
    BY <1>0, <2>1 DEF StoreTypeOK
  <2> QED BY <1>4, <2>1, <2>2, <2>3 DEF StoreTypeOK, Lock, readerVars
<1>5. CASE Read(t)
  <2>1. /\ step[t] = "locked" /\ step' = [step EXCEPT ![t] = "read"]
        /\ draft' = [draft EXCEPT ![t] = Effective] /\ UNCHANGED lock
    BY <1>5 DEF Read, Goes
  <2>2. Effective \in Doc
    BY EffectiveType DEF StoreTypeOK
  <2>3. step' \in [Tuners -> Places] /\ draft' \in [Tuners -> Doc \cup {Missing}]
    BY <1>0, <2>1, <2>2 DEF StoreTypeOK
  <2>4. \A u \in Tuners : step'[u] = "read" => draft'[u] # Missing
    BY <2>1, <2>2, StoreAssumption DEF StoreTypeOK
  <2>5. \A u \in Tuners : lock' = u <=> Holds(u)'
    BY <2>1 DEF StoreTypeOK, Holds
  <2> QED BY <1>5, <2>3, <2>4, <2>5 DEF Read, StoreTypeOK, readerVars
<1>6. CASE Write(t)
  <2>1. /\ Goes(t, "read", "written") /\ UNCHANGED <<lock, draft>>
        /\ Replace(Updated(draft[t], t))
    BY <1>6 DEF Write
  <2>2. draft[t] \in Doc
    BY <2>1 DEF StoreTypeOK, Goes
  <2>3. Updated(draft[t], t) \in Doc
    BY <2>2, UpdatedType
  <2> QED BY <1>0, <1>6, <2>1, <2>3, KeepsLock, ReplaceType
          DEF Write, StoreTypeOK, readerVars
<1>7. CASE Unlock(t)
  <2>1. /\ step[t] = "written" /\ step' = [step EXCEPT ![t] = "done"] /\ lock' = NoOne
    BY <1>7 DEF Unlock, Goes
  <2>2. \A u \in Tuners : lock' = u <=> Holds(u)'
    BY <2>1, StoreAssumption DEF StoreTypeOK, Holds
  <2>3. step' \in [Tuners -> Places]
    BY <1>0, <2>1 DEF StoreTypeOK
  <2> QED BY <1>7, <2>1, <2>2, <2>3 DEF StoreTypeOK, Unlock, readerVars
<1>8. CASE GiveUp(t)
  <2>1. /\ step' = [step EXCEPT ![t] = "failed"]
        /\ lock' = IF lock = t THEN NoOne ELSE lock
    BY <1>8 DEF GiveUp
  <2>2. \A u \in Tuners : lock' = u <=> Holds(u)'
    BY <2>1, StoreAssumption DEF StoreTypeOK, Holds
  <2>3. step' \in [Tuners -> Places] /\ lock' \in Tuners \cup {NoOne}
    BY <1>0, <2>1 DEF StoreTypeOK
  <2> QED BY <1>8, <2>1, <2>2, <2>3 DEF StoreTypeOK, GiveUp, readerVars
<1> QED BY <1>1, <1>2, <1>3, <1>4, <1>5, <1>6, <1>7, <1>8 DEF TunerStep

ReaderRec ==
  [at : {"idle", "seen", "loading", "loaded", "stored"}, seen : Nat,
   loaded : Doc \cup {Missing}]
CacheRec == [doc : Doc \cup {Missing}, mtime : Nat]

\* What a step of a thread does: it goes on, and the cache takes what it says.
LEMMA ReaderEffect ==
  ASSUME StoreTypeOK, NEW r \in Readers, ReaderStep(r)
  PROVE /\ UNCHANGED <<tuned, mtime, lock, step, draft, shipped, rewritten>>
        /\ \E rec \in ReaderRec : reader' = [reader EXCEPT ![r] = rec]
        /\ \E kept \in CacheRec : cache' = [cache EXCEPT ![NodeOf[r]] = kept]
        /\ \E b \in BOOLEAN : crossed' = [crossed EXCEPT ![NodeOf[r]] = b]
<1>0. /\ reader \in [Readers -> ReaderRec] /\ reader[r] \in ReaderRec /\ mtime \in Nat
      /\ NodeOf[r] \in Nodes /\ cache \in [Nodes -> CacheRec]
      /\ cache[NodeOf[r]] \in CacheRec
      /\ crossed \in [Nodes -> BOOLEAN] /\ Idle \in ReaderRec /\ Effective \in Doc
  BY StoreAssumption, EffectiveType DEF StoreTypeOK, ReaderRec, CacheRec, Idle
<1>1. UNCHANGED <<tuned, mtime, lock, step, draft, shipped, rewritten>>
  BY DEF ReaderStep, Stat, Compare, Load, Store, Remember, Moves
<1>2. cache = [cache EXCEPT ![NodeOf[r]] = cache[NodeOf[r]]]
  BY <1>0
<1>3. crossed = [crossed EXCEPT ![NodeOf[r]] = crossed[NodeOf[r]]]
  BY <1>0
<1>4. crossed[NodeOf[r]] \in BOOLEAN
  BY <1>0
<1>5. CASE Stat(r)
  <2>1. [at |-> "seen", seen |-> mtime, loaded |-> Missing] \in ReaderRec
    BY <1>0 DEF ReaderRec
  <2>2. /\ UNCHANGED <<cache, crossed>>
        /\ reader' = [reader EXCEPT ![r] =
                       [at |-> "seen", seen |-> mtime, loaded |-> Missing]]
    BY <1>5 DEF Stat, Moves
  <2> QED BY <1>0, <1>1, <1>2, <1>3, <1>4, <2>1, <2>2
<1>6. CASE Compare(r)
  <2>1. PICK rec : /\ rec = IF cache[NodeOf[r]].doc = Missing
                                \/ cache[NodeOf[r]].mtime # reader[r].seen
                             THEN [reader[r] EXCEPT !.at = "loading"] ELSE Idle
                   /\ reader' = [reader EXCEPT ![r] = rec]
    BY <1>6 DEF Compare, Moves
  <2>2. rec \in ReaderRec
    BY <1>0, <2>1 DEF ReaderRec
  <2>3. UNCHANGED <<cache, crossed>>
    BY <1>6 DEF Compare
  <2> QED BY <1>0, <1>1, <1>2, <1>3, <1>4, <2>1, <2>2, <2>3
<1>7. CASE Load(r)
  <2>1. PICK rec : /\ rec = [reader[r] EXCEPT !.at = "loaded", !.loaded = Effective]
                   /\ reader' = [reader EXCEPT ![r] = rec]
    BY <1>7 DEF Load, Moves
  <2>2. rec \in ReaderRec
    BY <1>0, <2>1 DEF ReaderRec
  <2>3. UNCHANGED <<cache, crossed>>
    BY <1>7 DEF Load
  <2> QED BY <1>0, <1>1, <1>2, <1>3, <1>4, <2>1, <2>2, <2>3
<1>8. CASE Store(r)
  <2>1. PICK rec : /\ rec = [reader[r] EXCEPT !.at = "stored"]
                   /\ reader' = [reader EXCEPT ![r] = rec]
    BY <1>8 DEF Store, Moves
  <2>2. rec \in ReaderRec
    BY <1>0, <2>1 DEF ReaderRec
  <2>3. PICK kept : /\ kept = [cache[NodeOf[r]] EXCEPT !.doc = reader[r].loaded]
                    /\ cache' = [cache EXCEPT ![NodeOf[r]] = kept]
    BY <1>0, <1>8 DEF Store
  <2>4. kept \in CacheRec
    BY <1>0, <2>3 DEF CacheRec, ReaderRec
  <2>5. PICK b : /\ b = (\E q \in Readers : HalfKept(q, NodeOf[r]))
                 /\ crossed' = [crossed EXCEPT ![NodeOf[r]] = b]
    BY <1>8, Zenon DEF Store
  <2>6. b \in BOOLEAN
    BY <2>5, Zenon
  <2> QED BY <1>0, <1>1, <2>1, <2>2, <2>3, <2>4, <2>5, <2>6
<1>9. CASE Remember(r)
  <2>1. reader' = [reader EXCEPT ![r] = Idle] /\ UNCHANGED crossed
    BY <1>9 DEF Remember, Moves
  <2>2. PICK kept : /\ kept = [cache[NodeOf[r]] EXCEPT !.mtime = reader[r].seen]
                    /\ cache' = [cache EXCEPT ![NodeOf[r]] = kept]
    BY <1>0, <1>9 DEF Remember
  <2>3. kept \in CacheRec
    BY <1>0, <2>2 DEF CacheRec, ReaderRec
  <2> QED BY <1>0, <1>1, <1>3, <1>4, <2>1, <2>2, <2>3
<1> QED BY <1>5, <1>6, <1>7, <1>8, <1>9 DEF ReaderStep

LEMMA ReaderStepType ==
  ASSUME StoreTypeOK, NEW r \in Readers, ReaderStep(r) PROVE StoreTypeOK'
<1>1. UNCHANGED <<tuned, mtime, lock, step, draft, shipped, rewritten>>
  BY ReaderEffect
<1>2. reader' \in [Readers -> ReaderRec]
  BY ReaderEffect DEF StoreTypeOK, ReaderRec
<1>3. cache' \in [Nodes -> CacheRec]
  BY ReaderEffect DEF StoreTypeOK, CacheRec
<1>4. crossed' \in [Nodes -> BOOLEAN]
  BY ReaderEffect DEF StoreTypeOK
<1> QED BY <1>1, <1>2, <1>3, <1>4 DEF StoreTypeOK, ReaderRec, CacheRec, Holds

-----------------------------------------------------------------------------
(* Saves add up *)

LEMMA SavesInit == ASSUME StoreInit PROVE SavesInv
  BY DEF StoreInit, SavesInv

\* Only the tool that holds the lock writes, and while the file is there no
\* tool creates it.
LEMMA TunerStepSaves ==
  ASSUME StoreTypeOK, SavesInv, NEW t \in Tuners, TunerStep(t) \/ GiveUp(t)
  PROVE /\ SavesInv'
        /\ shipped => tuned' = tuned \/ tuned' = Updated(tuned, t)
<1> SUFFICES ASSUME shipped
             PROVE SavesInv' /\ (tuned' = tuned \/ tuned' = Updated(tuned, t))
  <2>1. shipped' = shipped
    BY DEF TunerStep, CheckGate, CheckFile, Create, Lock, Read, Write, Unlock, GiveUp
  <2> QED BY <2>1 DEF SavesInv
<1>0. /\ tuned # Missing /\ tuned \in Doc
      /\ \A u \in Tuners : /\ step[u] # "creating"
                           /\ step[u] = "read" => draft[u] = tuned
      /\ step \in [Tuners -> Places] /\ draft \in [Tuners -> Doc \cup {Missing}]
  BY DEF SavesInv, StoreTypeOK
<1>1. CASE CheckGate(t)
  BY <1>0, <1>1 DEF CheckGate, Goes, SavesInv
<1>2. CASE CheckFile(t)
  BY <1>0, <1>2 DEF CheckFile, Goes, SavesInv
<1>3. CASE Create(t)
  BY <1>0, <1>3 DEF Create, Goes
<1>4. CASE Lock(t)
  BY <1>0, <1>4 DEF Lock, Goes, SavesInv
<1>5. CASE Read(t)
  <2>1. Effective = tuned
    BY <1>0 DEF Effective
  <2> QED BY <1>0, <1>5, <2>1 DEF Read, Goes, SavesInv
<1>6. CASE Write(t)
  <2>1. /\ step[t] = "read" /\ step' = [step EXCEPT ![t] = "written"]
        /\ tuned' = Updated(draft[t], t) /\ UNCHANGED <<draft, lock>>
    BY <1>6 DEF Write, Goes, Replace
  <2>2. tuned' = Updated(tuned, t)
    BY <1>0, <2>1
  <2>3. tuned' # Missing
    BY <1>0, <2>2, UpdatedType, StoreAssumption
  <2>4. \A u \in Tuners : step[u] = "read" => u = t
    BY <2>1 DEF StoreTypeOK, Holds
  <2>5. \A u \in Tuners : step'[u] # "read" /\ step'[u] # "creating"
    BY <1>0, <2>1, <2>4
  <2> QED BY <2>2, <2>3, <2>5 DEF SavesInv
<1>7. CASE Unlock(t)
  BY <1>0, <1>7 DEF Unlock, Goes, SavesInv
<1>8. CASE GiveUp(t)
  BY <1>0, <1>8 DEF GiveUp, SavesInv
<1> QED BY <1>1, <1>2, <1>3, <1>4, <1>5, <1>6, <1>7, <1>8 DEF TunerStep

\* A step that leaves the file, the tools and the nodes alone.
LEMMA StoreStutters ==
  ASSUME StoreTypeOK, SavesInv, UNCHANGED storeVars
  PROVE StoreTypeOK' /\ SavesInv' /\ tuned' = tuned
<1>1. StoreTypeOK'
  BY DEF StoreTypeOK, storeVars, Holds
<1> QED BY <1>1 DEF SavesInv, storeVars

LEMMA StoreStep ==
  ASSUME StoreTypeOK, SavesInv, [ToolsNext]_toolVars
  PROVE /\ StoreTypeOK' /\ SavesInv'
        /\ shipped => tuned' = tuned \/ \E t \in Tuners : tuned' = Updated(tuned, t)
<1>1. CASE \E t \in Tuners : Tool(t) \/ ToolStops(t)
  <2> PICK t \in Tuners : Tool(t) \/ ToolStops(t)
    BY <1>1
  <2>1. TunerStep(t) \/ GiveUp(t)
    BY DEF Tool, ToolStops
  <2> QED BY <2>1, TunerStepType, TunerStepSaves
<1>2. CASE \E r \in Readers : Node(r)
  <2> PICK r \in Readers : Node(r)
    BY <1>2
  <2>1. ReaderStep(r)
    BY DEF Node
  <2>2. UNCHANGED <<tuned, step, draft, shipped>>
    BY <2>1, ReaderEffect
  <2> QED BY <2>1, <2>2, ReaderStepType DEF SavesInv
<1>3. CASE UNCHANGED storeVars
  BY <1>3, StoreStutters
<1> QED BY <1>1, <1>2, <1>3
        DEF ToolsNext, Stream, StreamChanges, Second, toolVars

\* Type correctness of the files, the lock and the tools.
THEOREM StoreTypeCorrect == ToolsSpec => [](StoreTypeOK /\ SavesInv)
<1>1. ToolsInit => StoreTypeOK /\ SavesInv
  BY StoreTypeInit, SavesInit DEF ToolsInit
<1>2. StoreTypeOK /\ SavesInv /\ [ToolsNext]_toolVars => StoreTypeOK' /\ SavesInv'
  BY StoreStep
<1> QED BY <1>1, <1>2, PTL DEF ToolsSpec

\* No tool undoes what another one has saved while the file is there from the
\* start, for any number of tools, whatever fails or is killed.
THEOREM SavesAreKept == ToolsSpec => SavesAddUp
<1>1. StoreTypeOK /\ SavesInv /\ [ToolsNext]_toolVars
        => [shipped => \E t \in Tuners : tuned' = Updated(tuned, t)]_tuned
  BY StoreStep
<1> QED BY <1>1, StoreTypeCorrect, PTL DEF ToolsSpec, SavesAddUp

-----------------------------------------------------------------------------
(* The cache of the nodes *)

LEMMA CacheInit == ASSUME StoreInit PROVE CacheInv /\ CacheIsCurrent
  BY StoreAssumption DEF StoreInit, Idle, CacheInv, CacheIsCurrent, HalfKept

\* A write either is later than all that was looked at or is marked.
LEMMA ReplaceKeepsCache ==
  ASSUME StoreTypeOK, CacheInv, CacheIsCurrent, NEW doc, Replace(doc),
         UNCHANGED readerVars
  PROVE CacheInv' /\ CacheIsCurrent'
<1>1. mtime' = mtime + 1 \/ (mtime' = mtime /\ rewritten')
  BY DEF Replace, StoreTypeOK
<1>2. UNCHANGED <<cache, reader, crossed>> /\ mtime \in Nat
  BY DEF StoreTypeOK, readerVars
<1>3. ASSUME NEW r \in Readers
      PROVE reader'[r].seen <= mtime' /\ (rewritten' \/ reader'[r].seen # mtime')
  <2>1. reader[r].seen \in Nat /\ reader[r].seen <= mtime
    BY DEF StoreTypeOK, CacheInv
  <2> QED BY <1>1, <1>2, <2>1
<1>4. ASSUME NEW n \in Nodes
      PROVE cache'[n].mtime <= mtime' /\ (rewritten' \/ cache'[n].mtime # mtime')
  <2>1. cache[n].mtime \in Nat /\ cache[n].mtime <= mtime
    BY DEF StoreTypeOK, CacheInv
  <2> QED BY <1>1, <1>2, <2>1
<1>5. CacheInv'
  BY <1>2, <1>3, <1>4 DEF CacheInv, HalfKept
<1> QED BY <1>4, <1>5 DEF CacheIsCurrent

LEMMA TunerStepCache ==
  ASSUME StoreTypeOK, CacheInv, CacheIsCurrent,
         NEW t \in Tuners, TunerStep(t) \/ GiveUp(t)
  PROVE CacheInv' /\ CacheIsCurrent'
<1>1. UNCHANGED readerVars
  BY DEF TunerStep, CheckGate, CheckFile, Create, Lock, Read, Write, Unlock, GiveUp
<1>2. (\E doc : Replace(doc)) \/ UNCHANGED <<tuned, mtime, rewritten>>
  BY DEF TunerStep, CheckGate, CheckFile, Create, Lock, Read, Write, Unlock, GiveUp
<1>3. CASE UNCHANGED <<tuned, mtime, rewritten>>
  BY <1>1, <1>3 DEF readerVars, CacheInv, CacheIsCurrent, Effective, HalfKept
<1> QED BY <1>1, <1>2, <1>3, ReplaceKeepsCache

\* A thread that neither has put a document into the cache nor does so now.
LEMMA CacheIsLeft ==
  ASSUME StoreTypeOK, CacheInv, CacheIsCurrent, NEW r \in Readers,
         UNCHANGED <<tuned, mtime, rewritten, cache, crossed>>,
         NEW rec \in ReaderRec, reader' = [reader EXCEPT ![r] = rec],
         reader[r].at # "stored", rec.at # "stored", rec.seen <= mtime,
         rec.at = "loaded" /\ rec.seen = mtime /\ ~rewritten => rec.loaded = Effective
  PROVE CacheInv' /\ CacheIsCurrent'
<1>1. /\ reader'[r] = rec /\ \A q \in Readers : q # r => reader'[q] = reader[q]
      /\ Effective' = Effective
  BY DEF StoreTypeOK, Effective
<1>2. \A q \in Readers, n \in Nodes : HalfKept(q, n)' <=> HalfKept(q, n)
  BY <1>1 DEF HalfKept
<1>3. \A q \in Readers : HalfKept(q, NodeOf[q])' => q # r /\ reader'[q] = reader[q]
  BY <1>1 DEF HalfKept
<1>4. \A q \in Readers : NodeOf[q] \in Nodes
  BY StoreAssumption
<1>5. \A q \in Readers :
        /\ reader'[q].seen <= mtime'
        /\ reader'[q].at \in {"loaded", "stored"} /\ reader'[q].seen = mtime' /\ ~rewritten'
             => reader'[q].loaded = Effective'
  BY <1>1 DEF CacheInv
<1>6. CacheInv'
  BY <1>2, <1>3, <1>4, <1>5 DEF CacheInv
<1> QED BY <1>1, <1>2, <1>6 DEF CacheIsCurrent

LEMMA ReaderStepCache ==
  ASSUME StoreTypeOK, CacheInv, CacheIsCurrent, NEW r \in Readers, ReaderStep(r)
  PROVE CacheInv' /\ CacheIsCurrent'
<1>0. /\ reader \in [Readers -> ReaderRec] /\ reader[r] \in ReaderRec /\ mtime \in Nat
      /\ NodeOf \in [Readers -> Nodes] /\ NodeOf[r] \in Nodes
      /\ cache \in [Nodes -> CacheRec] /\ cache[NodeOf[r]] \in CacheRec
      /\ crossed \in [Nodes -> BOOLEAN] /\ Idle \in ReaderRec
      /\ reader[r].seen <= mtime /\ Idle.seen = 0 /\ Idle.at = "idle"
  BY StoreAssumption DEF StoreTypeOK, ReaderRec, CacheRec, CacheInv, Idle
<1>1. UNCHANGED <<tuned, mtime, rewritten>> /\ Effective' = Effective
  BY ReaderEffect DEF Effective
<1>2. CASE Stat(r)
  <2>1. PICK rec \in ReaderRec : /\ rec = [at |-> "seen", seen |-> mtime, loaded |-> Missing]
                                 /\ reader' = [reader EXCEPT ![r] = rec]
    BY <1>0, <1>2 DEF Stat, Moves, ReaderRec
  <2>2. rec.at = "seen" /\ rec.seen <= mtime /\ reader[r].at = "idle"
    BY <1>0, <1>2, <2>1 DEF Stat, Moves
  <2> QED BY <1>1, <1>2, <2>1, <2>2, CacheIsLeft DEF Stat
<1>3. CASE Compare(r)
  <2>1. PICK rec : /\ rec = [reader[r] EXCEPT !.at = "loading"] \/ rec = Idle
                   /\ reader' = [reader EXCEPT ![r] = rec]
    BY <1>3 DEF Compare, Moves
  <2>2. rec \in ReaderRec /\ rec.at \in {"idle", "loading"} /\ rec.seen <= mtime
    BY <1>0, <2>1 DEF ReaderRec
  <2>3. reader[r].at = "seen" /\ UNCHANGED <<cache, crossed>>
    BY <1>3 DEF Compare, Moves
  <2> QED BY <1>1, <2>1, <2>2, <2>3, CacheIsLeft
<1>4. CASE Load(r)
  <2>1. PICK rec : /\ rec = [reader[r] EXCEPT !.at = "loaded", !.loaded = Effective]
                   /\ reader' = [reader EXCEPT ![r] = rec]
    BY <1>4 DEF Load, Moves
  <2>2. Effective \in Doc
    BY EffectiveType DEF StoreTypeOK
  <2>3. rec \in ReaderRec /\ rec.at = "loaded" /\ rec.seen <= mtime /\ rec.loaded = Effective
    BY <1>0, <2>1, <2>2 DEF ReaderRec
  <2>4. reader[r].at = "loading" /\ UNCHANGED <<cache, crossed>>
    BY <1>4 DEF Load, Moves
  <2> QED BY <1>1, <2>1, <2>3, <2>4, CacheIsLeft
<1>5. CASE Store(r)
  <2>1. PICK n : n = NodeOf[r]
    OBVIOUS
  <2>2. PICK rec : /\ rec = [reader[r] EXCEPT !.at = "stored"]
                   /\ reader' = [reader EXCEPT ![r] = rec]
    BY <1>5 DEF Store, Moves
  <2>3. rec.at = "stored" /\ rec.seen = reader[r].seen /\ rec.loaded = reader[r].loaded
    BY <1>0, <2>2 DEF ReaderRec
  <2>4. reader'[r] = rec /\ \A q \in Readers : q # r => reader'[q] = reader[q]
    BY <1>0, <2>2
  <2>5. reader[r].at = "loaded" /\ cache' = [cache EXCEPT ![n].doc = reader[r].loaded]
    BY <1>5, <2>1 DEF Store, Moves
  <2>6. /\ cache'[n].doc = rec.loaded
        /\ \A m \in Nodes : cache'[m].mtime = cache[m].mtime /\ (m # n => cache'[m] = cache[m])
    BY <1>0, <2>1, <2>3, <2>5 DEF CacheRec
  <2>7. /\ \A m \in Nodes : m # n => crossed'[m] = crossed[m]
        /\ ~crossed'[n] => \A q \in Readers : ~HalfKept(q, n)
    BY <1>0, <1>5, <2>1 DEF Store
  <2>8. /\ HalfKept(r, n)' /\ (\A m \in Nodes : m # n => ~HalfKept(r, m)')
        /\ \A q \in Readers, m \in Nodes : q # r => (HalfKept(q, m)' <=> HalfKept(q, m))
    BY <2>1, <2>3, <2>4 DEF HalfKept
  <2>9. \A q \in Readers :
          /\ reader'[q].seen <= mtime'
          /\ reader'[q].at \in {"loaded", "stored"} /\ reader'[q].seen = mtime' /\ ~rewritten'
               => reader'[q].loaded = Effective'
    BY <1>0, <1>1, <2>3, <2>4, <2>5 DEF CacheInv
  <2>10. ASSUME NEW q \in Readers, HalfKept(q, NodeOf[q])', ~crossed'[NodeOf[q]]
         PROVE /\ cache'[NodeOf[q]].doc = reader'[q].loaded
               /\ \A p \in Readers : HalfKept(p, NodeOf[q])' => p = q
    <3>1. CASE NodeOf[q] = n
      <4>1. HalfKept(q, n)' /\ ~crossed'[n]
        BY <2>10, <3>1 DEF HalfKept
      <4>2. \A p \in Readers : HalfKept(p, n)' => p = r
        BY <1>0, <2>1, <2>7, <2>8, <4>1
      <4>3. \A p \in Readers : HalfKept(p, NodeOf[q])' => HalfKept(p, n)'
        BY <3>1 DEF HalfKept
      <4>4. q = r
        BY <4>1, <4>2
      <4> QED BY <2>3, <2>4, <2>6, <3>1, <4>2, <4>3, <4>4
    <3>2. CASE NodeOf[q] # n
      <4>1. NodeOf[q] \in Nodes /\ q # r
        BY <1>0, <2>1, <3>2
      <4>2. HalfKept(q, NodeOf[q]) /\ ~crossed[NodeOf[q]]
        BY <2>7, <2>8, <2>10, <3>2, <4>1
      <4> QED BY <2>4, <2>6, <2>8, <3>2, <4>1, <4>2 DEF CacheInv
    <3> QED BY <3>1, <3>2
  <2>11. \A m \in Nodes : cache'[m].mtime <= mtime'
    BY <1>1, <2>6 DEF CacheInv
  <2>12. CacheInv'
    BY <2>9, <2>10, <2>11 DEF CacheInv
  <2>13. ASSUME NEW m \in Nodes, cache'[m].doc # Missing, cache'[m].mtime = mtime', ~rewritten',
                ~crossed'[m], \A q \in Readers : ~HalfKept(q, m)'
         PROVE cache'[m].doc = Effective'
    <3>1. m # n
      BY <2>8, <2>13
    <3>2. \A q \in Readers : ~HalfKept(q, m)
      BY <2>1, <2>5, <2>8, <2>13 DEF HalfKept
    <3> QED BY <1>1, <2>6, <2>7, <2>13, <3>1, <3>2 DEF CacheIsCurrent
  <2> QED BY <2>12, <2>13 DEF CacheIsCurrent
<1>6. CASE Remember(r)
  <2>1. PICK n : n = NodeOf[r]
    OBVIOUS
  <2>2. reader' = [reader EXCEPT ![r] = Idle] /\ reader[r].at = "stored"
    BY <1>6 DEF Remember, Moves
  <2>3. reader'[r] = Idle /\ \A q \in Readers : q # r => reader'[q] = reader[q]
    BY <1>0, <2>2
  <2>4. cache' = [cache EXCEPT ![n].mtime = reader[r].seen] /\ crossed' = crossed
    BY <1>6, <2>1 DEF Remember
  <2>5. /\ cache'[n].mtime = reader[r].seen
        /\ \A m \in Nodes : cache'[m].doc = cache[m].doc /\ (m # n => cache'[m] = cache[m])
    BY <1>0, <2>1, <2>4 DEF CacheRec
  <2>6. HalfKept(r, n)
    BY <2>1, <2>2 DEF HalfKept
  <2>7. /\ \A m \in Nodes : ~HalfKept(r, m)'
        /\ \A q \in Readers, m \in Nodes : q # r => (HalfKept(q, m)' <=> HalfKept(q, m))
    BY <1>0, <2>3 DEF HalfKept
  <2>8. \A q \in Readers :
          /\ reader'[q].seen <= mtime'
          /\ reader'[q].at \in {"loaded", "stored"} /\ reader'[q].seen = mtime' /\ ~rewritten'
               => reader'[q].loaded = Effective'
    BY <1>0, <1>1, <2>3 DEF CacheInv
  <2>9. ASSUME NEW q \in Readers, HalfKept(q, NodeOf[q])', ~crossed'[NodeOf[q]]
        PROVE /\ cache'[NodeOf[q]].doc = reader'[q].loaded
              /\ \A p \in Readers : HalfKept(p, NodeOf[q])' => p = q
    <3>1. NodeOf[q] \in Nodes /\ q # r
      BY <1>0, <2>7, <2>9
    <3>2. HalfKept(q, NodeOf[q]) /\ ~crossed[NodeOf[q]]
      BY <2>4, <2>7, <2>9, <3>1
    <3>3. \A p \in Readers : HalfKept(p, NodeOf[q])' => HalfKept(p, NodeOf[q])
      BY <2>7, <3>1
    <3> QED BY <2>3, <2>5, <3>1, <3>2, <3>3 DEF CacheInv
  <2>10. \A m \in Nodes : cache'[m].mtime <= mtime'
    BY <1>0, <1>1, <2>5 DEF CacheInv
  <2>11. CacheInv'
    BY <2>8, <2>9, <2>10 DEF CacheInv
  <2>12. ASSUME NEW m \in Nodes, cache'[m].doc # Missing, cache'[m].mtime = mtime', ~rewritten',
                ~crossed'[m], \A q \in Readers : ~HalfKept(q, m)'
         PROVE cache'[m].doc = Effective'
    <3>1. CASE m = n
      <4>1. cache[n].doc = reader[r].loaded
        BY <2>1, <2>4, <2>6, <2>12, <3>1 DEF CacheInv
      <4>2. reader[r].loaded = Effective
        BY <1>1, <2>2, <2>5, <2>12, <3>1 DEF CacheInv
      <4> QED BY <1>1, <2>5, <3>1, <4>1, <4>2
    <3>2. CASE m # n
      <4>1. \A q \in Readers : ~HalfKept(q, m)
        BY <2>1, <2>7, <2>12, <3>2 DEF HalfKept
      <4> QED BY <1>1, <2>4, <2>5, <2>12, <3>2, <4>1 DEF CacheIsCurrent
    <3> QED BY <3>1, <3>2
  <2> QED BY <2>11, <2>12 DEF CacheIsCurrent
<1> QED BY <1>2, <1>3, <1>4, <1>5, <1>6 DEF ReaderStep

LEMMA CacheStep ==
  ASSUME StoreTypeOK, CacheInv, CacheIsCurrent, [ToolsNext]_toolVars
  PROVE CacheInv' /\ CacheIsCurrent'
<1>1. CASE \E t \in Tuners : Tool(t) \/ ToolStops(t)
  BY <1>1, TunerStepCache DEF Tool, ToolStops
<1>2. CASE \E r \in Readers : Node(r)
  BY <1>2, ReaderStepCache DEF Node
<1>3. CASE UNCHANGED storeVars
  BY <1>3 DEF storeVars, CacheInv, CacheIsCurrent, Effective, HalfKept
<1> QED BY <1>1, <1>2, <1>3
        DEF ToolsNext, Stream, StreamChanges, Second, toolVars

\* What a node keeps is what the file holds, as long as the modification time
\* is the one it knows, no two writes in a row carried the same and no two
\* threads of the node were between their two assignments at once: for any
\* number of tools, nodes and threads, which look up and load in any order.
THEOREM CacheCorrect == ToolsSpec => []CacheIsCurrent
<1>1. ToolsInit => CacheInv /\ CacheIsCurrent
  BY CacheInit DEF ToolsInit
<1>2. StoreTypeOK /\ CacheInv /\ CacheIsCurrent /\ [ToolsNext]_toolVars
        => CacheInv' /\ CacheIsCurrent'
  BY CacheStep
<1> QED BY <1>1, <1>2, StoreTypeCorrect, PTL DEF ToolsSpec

-----------------------------------------------------------------------------
(* MitStream *)

StageNames == {"off", "opened", "announcing", "running", "beating", "clearing",
               "removing", "closing"}

LEMMA AgeFacts == None \in Nat /\ None = MaxAge + 1 /\ Ages = 0 .. None
                    /\ NoEntries \in [Streams -> Ages]
  BY StreamAssumption DEF None, Ages, NoEntries

LEMMA OlderType ==
  ASSUME NEW entries \in [Streams -> Ages] PROVE Older(entries) \in [Streams -> Ages]
  BY AgeFacts DEF Older

\* Aging keeps the order of ages.
LEMMA OlderKeepsOrder ==
  ASSUME NEW young \in [Streams -> Ages], NEW old \in [Streams -> Ages],
         NEW s \in Streams, old[s] >= young[s]
  PROVE Older(old)[s] >= Older(young)[s]
  BY AgeFacts DEF Older

LEMMA StreamTypeInit ==
  ASSUME StreamInit, GateInit PROVE StreamTypeOK /\ CopiesAreOld /\ GateClosesWithTheLast
<1>1. gate \in BOOLEAN /\ killed \in BOOLEAN
  BY Zenon DEF StreamInit, GateInit
<1>2. StreamTypeOK
  BY <1>1, AgeFacts DEF StreamInit, StreamTypeOK
<1>3. CopiesAreOld
  BY AgeFacts DEF StreamInit, CopiesAreOld, NoEntries
<1> QED BY <1>2, <1>3 DEF GateInit, GateClosesWithTheLast

\* What a stream does to the file, to its own copy and to the history: it
\* writes its entry, removes it, copies the file, forgets the copy, or none.
LEMMA StreamEffect ==
  ASSUME StreamTypeOK, NEW s \in Streams,
         StreamMoves(s) \/ Open(s) \/ Interrupt(s) \/ Kill(s)
  PROVE /\ \/ file' = [copy[s] EXCEPT ![s] = 0] /\ last' = [last EXCEPT ![s] = 0]
           \/ file' = [copy[s] EXCEPT ![s] = None] /\ last' = last
           \/ file' = file /\ last' = last
        /\ \/ copy' = [copy EXCEPT ![s] = file]
           \/ copy' = [copy EXCEPT ![s] = NoEntries]
           \/ copy' = copy
        /\ \E to \in StageNames : stage' = [stage EXCEPT ![s] = to]
<1>1. CASE Publish(s)
  BY <1>1 DEF Publish, Replaces, MovesOn, Forgets, StageNames
<1>2. CASE Clear(s)
  BY <1>2 DEF Clear, Replaces, MovesOn, Forgets, StageNames
<1>3. CASE LoadFirst(s) \/ LoadBeat(s) \/ LoadClear(s)
  BY <1>3 DEF LoadFirst, LoadBeat, LoadClear, Loads, MovesOn, StageNames
<1>4. CASE Open(s) \/ Close(s)
  BY <1>4 DEF Open, Close, MovesOn, StageNames
<1>5. CASE Interrupt(s)
  BY <1>5 DEF Interrupt, MovesOn, Forgets, StageNames
<1>6. CASE Kill(s)
  BY <1>6 DEF Kill, Forgets, StageNames
<1> QED BY <1>1, <1>2, <1>3, <1>4, <1>5, <1>6 DEF StreamMoves

LEMMA StreamStepInv ==
  ASSUME StreamTypeOK, CopiesAreOld, NEW s \in Streams,
         StreamMoves(s) \/ Open(s) \/ Interrupt(s) \/ Kill(s)
  PROVE StreamTypeOK' /\ CopiesAreOld'
<1> USE AgeFacts
<1>0. /\ file \in [Streams -> Ages] /\ last \in [Streams -> Ages]
      /\ copy \in [Streams -> [Streams -> Ages]] /\ stage \in [Streams -> StageNames]
  BY DEF StreamTypeOK, StageNames
<1>1. gate' \in BOOLEAN /\ killed' \in BOOLEAN
  <2>1. gate \in BOOLEAN /\ killed \in BOOLEAN
    BY Zenon DEF StreamTypeOK
  <2> QED BY <2>1, Zenon
       DEF StreamMoves, LoadFirst, LoadBeat, LoadClear, Loads, Publish, Clear, Close,
           Open, Interrupt, Kill, SetControlActive
<1>5. \/ file' = [copy[s] EXCEPT ![s] = 0] /\ last' = [last EXCEPT ![s] = 0]
      \/ file' = [copy[s] EXCEPT ![s] = None] /\ last' = last
      \/ file' = file /\ last' = last
  BY StreamEffect
<1>2. /\ file' \in [Streams -> Ages] /\ last' \in [Streams -> Ages]
      /\ copy' \in [Streams -> [Streams -> Ages]] /\ stage' \in [Streams -> StageNames]
  <2>1. 0 \in Ages /\ None \in Ages /\ copy[s] \in [Streams -> Ages]
    BY <1>0
  <2>2. file' \in [Streams -> Ages]
    BY <1>0, <1>5, <2>1
  <2>3. last' \in [Streams -> Ages]
    BY <1>0, <2>1, StreamEffect
  <2>4. copy' \in [Streams -> [Streams -> Ages]]
    BY <1>0, StreamEffect
  <2>5. stage' \in [Streams -> StageNames]
    BY <1>0, StreamEffect
  <2> QED BY <2>2, <2>3, <2>4, <2>5
<1>3. ASSUME NEW r \in Streams, NEW q \in Streams
      PROVE file'[r] >= last'[r] /\ copy'[q][r] >= last'[r]
  <2>0. copy[s] \in [Streams -> Ages]
    BY <1>0
  <2>1. /\ file[r] \in Nat /\ last[r] \in Nat /\ last[r] <= None
        /\ copy[q][r] \in Nat /\ copy[s][r] \in Nat
        /\ file[r] >= last[r] /\ copy[q][r] >= last[r] /\ copy[s][r] >= last[r]
    BY <1>0 DEF CopiesAreOld
  <2>2. last'[r] \in Nat /\ last'[r] <= last[r] /\ (r = s => file'[r] >= last'[r])
    <3>1. CASE file' = [copy[s] EXCEPT ![s] = 0] /\ last' = [last EXCEPT ![s] = 0]
      <4>1. last'[r] = IF r = s THEN 0 ELSE last[r]
        BY <1>0, <3>1
      <4>2. r = s => file'[r] = 0
        BY <2>0, <3>1
      <4> QED BY <2>1, <4>1, <4>2
    <3>2. CASE file' = [copy[s] EXCEPT ![s] = None] /\ last' = last
      BY <2>0, <2>1, <3>2
    <3>3. CASE file' = file /\ last' = last
      BY <2>1, <3>3
    <3> QED BY <1>5, <3>1, <3>2, <3>3
  <2>3. r # s => file'[r] \in {file[r], copy[s][r]}
    BY <1>0, <1>5, <2>0
  <2>4. copy'[q][r] \in {file[r], NoEntries[r], copy[q][r]}
    BY <1>0, StreamEffect
  <2>5. NoEntries[r] = None
    BY DEF NoEntries
  <2> QED BY <2>1, <2>2, <2>3, <2>4, <2>5
<1>4. StreamTypeOK'
  BY <1>1, <1>2 DEF StreamTypeOK, StageNames
<1> QED BY <1>3, <1>4 DEF CopiesAreOld

LEMMA TickInv ==
  ASSUME StreamTypeOK, CopiesAreOld, Tick PROVE StreamTypeOK' /\ CopiesAreOld'
<1>0. /\ file \in [Streams -> Ages] /\ last \in [Streams -> Ages]
      /\ copy \in [Streams -> [Streams -> Ages]]
  BY DEF StreamTypeOK
<1>1. /\ file' \in [Streams -> Ages] /\ last' \in [Streams -> Ages]
      /\ copy' \in [Streams -> [Streams -> Ages]]
  BY <1>0, OlderType DEF Tick
<1>2. StreamTypeOK'
  BY <1>1 DEF Tick, StreamTypeOK
<1>3. ASSUME NEW r \in Streams, NEW s \in Streams
      PROVE file'[r] >= last'[r] /\ copy'[s][r] >= last'[r]
  <2>1. file[r] >= last[r] /\ copy[s][r] >= last[r] /\ copy[s] \in [Streams -> Ages]
    BY <1>0 DEF CopiesAreOld
  <2>2. copy'[s] = Older(copy[s]) /\ file' = Older(file) /\ last' = Older(last)
    BY DEF Tick
  <2> QED BY <1>0, <2>1, <2>2, OlderKeepsOrder
<1> QED BY <1>2, <1>3 DEF CopiesAreOld

LEMMA StreamsStep ==
  ASSUME StreamTypeOK, CopiesAreOld, [ToolsNext]_toolVars
  PROVE StreamTypeOK' /\ CopiesAreOld'
<1>1. CASE \E s \in Streams : Stream(s) \/ StreamChanges(s)
  BY <1>1, StreamStepInv DEF Stream, StreamChanges
<1>2. CASE Second
  BY <1>2, TickInv DEF Second
<1>3. CASE UNCHANGED <<gate, streamVars>>
  BY <1>3 DEF streamVars, StreamTypeOK, CopiesAreOld
<1> QED BY <1>1, <1>2, <1>3
        DEF ToolsNext, Tool, ToolStops, Node, toolVars

\* Type correctness of the stream file, and no copy of an entry is younger
\* than the last write of its stream.
THEOREM StreamTypeCorrect == ToolsSpec => [](StreamTypeOK /\ CopiesAreOld)
<1>1. ToolsInit => StreamTypeOK /\ CopiesAreOld
  BY StreamTypeInit DEF ToolsInit
<1>2. StreamTypeOK /\ CopiesAreOld /\ [ToolsNext]_toolVars
        => StreamTypeOK' /\ CopiesAreOld'
  BY StreamsStep
<1> QED BY <1>1, <1>2, PTL DEF ToolsSpec

\* The monitor expects feedback only of a stream that has published within
\* max_age_sec.
THEOREM ExpectedCorrect == ToolsSpec => []ExpectedHasPublished
<1>1. StreamTypeOK /\ CopiesAreOld => ExpectedHasPublished
  BY AgeFacts, StreamAssumption
     DEF StreamTypeOK, CopiesAreOld, ExpectedHasPublished, Expected
<1> QED BY <1>1, StreamTypeCorrect, PTL

LEMMA GateStep ==
  ASSUME StreamTypeOK, GateClosesWithTheLast, [ToolsNext]_toolVars
  PROVE GateClosesWithTheLast'
<1>1. CASE \E s \in Streams : Stream(s) \/ StreamChanges(s)
  <2> PICK s \in Streams : Stream(s) \/ StreamChanges(s)
    BY <1>1
  <2>1. CASE Close(s) \/ Kill(s)
    BY <2>1 DEF Close, Kill, SetControlActive, GateClosesWithTheLast
  <2>2. CASE LoadFirst(s) \/ LoadBeat(s) \/ Publish(s) \/ LoadClear(s) \/ Clear(s)
               \/ Open(s) \/ Interrupt(s)
    <3>1. stage'[s] # "off" /\ s \in Streams
      BY <2>2 DEF LoadFirst, LoadBeat, LoadClear, Loads, Publish, Clear, Replaces,
                  Open, Interrupt, MovesOn, StreamTypeOK
    <3> QED BY <3>1 DEF GateClosesWithTheLast, InSession
  <2> QED BY <2>1, <2>2 DEF Stream, StreamChanges, StreamMoves
<1>2. CASE UNCHANGED <<gate, stage, killed>>
  BY <1>2 DEF GateClosesWithTheLast, InSession
<1> QED BY <1>1, <1>2
        DEF ToolsNext, Tool, ToolStops, Node, Second, Tick, toolVars, streamVars

\* The gate refuses tools only while a stream is in its session, unless one
\* was killed in it.
THEOREM GateCorrect == ToolsSpec => []GateClosesWithTheLast
<1>1. ToolsInit => GateClosesWithTheLast
  BY StreamTypeInit DEF ToolsInit
<1>2. StreamTypeOK /\ GateClosesWithTheLast /\ [ToolsNext]_toolVars
        => GateClosesWithTheLast'
  BY GateStep
<1> QED BY <1>1, <1>2, StreamTypeCorrect, PTL DEF ToolsSpec

-----------------------------------------------------------------------------
(* LearningFiles *)

LEMMA FileNames ==
  /\ MetricsFiles = {"validation", "test", "validation_final", "test_final", "validation_named", "test_named"}
  /\ Files = Trained \cup MetricsFiles /\ Trained \cap MetricsFiles = {}
  /\ Models \subseteq Trained /\ EvaluatedSplits \cap Roles = {} /\ EvaluatedSplits \subseteq MetricsFiles
  /\ RunFiles \subseteq Files /\ Early \subseteq Trained /\ EvaluatedSplits \subseteq RunFiles
  /\ \A variant \in Variants :
       /\ \A role \in Roles : FileOf(role, variant) \in Models
       /\ \A split \in EvaluatedSplits, suffix \in BOOLEAN : Output(split, variant, suffix) \in MetricsFiles
<1>1. MetricsFiles = {"validation", "test", "validation_final", "test_final", "validation_named", "test_named"}
  <2>1. \A split \in EvaluatedSplits, variant \in Variants, suffix \in BOOLEAN :
          Output(split, variant, suffix) \in
            {"validation", "test", "validation_final", "test_final", "validation_named", "test_named"}
    BY DEF Output, EvaluatedSplits, Variants
  <2>2. /\ Output("validation", "best", FALSE) = "validation" /\ Output("test", "best", FALSE) = "test"
        /\ Output("validation", "trainval_final", FALSE) = "validation_final"
        /\ Output("test", "trainval_final", FALSE) = "test_final"
        /\ Output("validation", "best", TRUE) = "validation_named" /\ Output("test", "best", TRUE) = "test_named"
    BY DEF Output
  <2>3. /\ "validation" \in EvaluatedSplits /\ "test" \in EvaluatedSplits
        /\ "best" \in Variants /\ "trainval_final" \in Variants
    BY DEF EvaluatedSplits, Variants
  <2>4. \A split \in EvaluatedSplits, variant \in Variants, suffix \in BOOLEAN :
          Output(split, variant, suffix) \in MetricsFiles
    BY DEF MetricsFiles
  <2>5. {"validation", "test", "validation_final", "test_final", "validation_named", "test_named"}
          \subseteq MetricsFiles
    <3>1. /\ Output("validation", "best", FALSE) \in MetricsFiles /\ Output("test", "best", FALSE) \in MetricsFiles
          /\ Output("validation", "trainval_final", FALSE) \in MetricsFiles
          /\ Output("test", "trainval_final", FALSE) \in MetricsFiles
          /\ Output("validation", "best", TRUE) \in MetricsFiles /\ Output("test", "best", TRUE) \in MetricsFiles
      BY <2>3, <2>4, Zenon
    <3>2. QED
      BY <2>2, <3>1
  <2>6. MetricsFiles \subseteq
          {"validation", "test", "validation_final", "test_final", "validation_named", "test_named"}
    BY <2>1 DEF MetricsFiles
  <2>7. QED
    BY <2>5, <2>6
<1>2. \A variant \in Variants : \A role \in Roles : FileOf(role, variant) \in Models
  BY DEF Variants, Roles, Models, FileOf
<1>3. \A variant \in Variants : \A split \in EvaluatedSplits, suffix \in BOOLEAN :
        Output(split, variant, suffix) \in MetricsFiles
  BY DEF MetricsFiles
<1>4. Models \subseteq Trained /\ EvaluatedSplits \cap Roles = {} /\ EvaluatedSplits \subseteq MetricsFiles
      /\ EvaluatedSplits \subseteq RunFiles
  BY <1>1 DEF Trained, Models, Roles, EvaluatedSplits, RunFiles
<1>5. Files = Trained \cup MetricsFiles /\ Trained \cap MetricsFiles = {}
  BY <1>1 DEF Files, Trained, Models
<1>6. RunFiles \subseteq Files /\ Early \subseteq Trained
  BY <1>1 DEF Files, Trained, Models, RunFiles, Early
<1>7. QED
  BY <1>1, <1>2, <1>3, <1>4, <1>5, <1>6

LEMMA ProgramStates ==
  /\ Ready.does = "starts" /\ Ended.does = "nothing" /\ Killed.does = "was killed"
  /\ Ready # Ended /\ Ready # Killed /\ Ended # Killed
<1>1. Ready.does = "starts" /\ Ended.does = "nothing" /\ Killed.does = "was killed"
  BY DEF Ready, Ended, Killed
<1>2. QED
  BY <1>1

\* A file that is written replaces what was at its place, and nothing else.
LEMMA SavesEffect ==
  ASSUME LearningTypeOK, NEW d \in Directories, NEW f \in Files, NEW made, Saves(d, f, made)
  PROVE  /\ DOMAIN disk' = Directories /\ \A e \in Directories : DOMAIN disk'[e] = Files
         /\ disk'[d][f] = made
         /\ \A e \in Directories, g \in Files : e # d \/ g # f => disk'[e][g] = disk[e][g]
  BY DEF LearningTypeOK, Saves

\* What is left of a sequence of files when the first is done.
LEMMA Shrinks ==
  ASSUME NEW S, NEW todo \in Seq(S), todo # <<>>
  PROVE  /\ Head(todo) \in S /\ Tail(todo) \in Seq(S)
         /\ Members(todo) = {Head(todo)} \cup Members(Tail(todo))
<1>1. Head(todo) \in S /\ Tail(todo) \in Seq(S)
  OBVIOUS
<1>2. /\ DOMAIN todo = 1 .. Len(todo) /\ DOMAIN Tail(todo) = 1 .. Len(todo) - 1
      /\ Len(todo) \in Nat \ {0} /\ Head(todo) = todo[1]
  OBVIOUS
<1>3. \A i \in 1 .. Len(todo) - 1 : Tail(todo)[i] = todo[i + 1]
  OBVIOUS
<1>4. \A i \in 2 .. Len(todo) : todo[i] = Tail(todo)[i - 1] /\ i - 1 \in 1 .. Len(todo) - 1
  BY <1>2, <1>3
<1>5. \A x : x \in {todo[i] : i \in DOMAIN todo} =>
               x = Head(todo) \/ x \in {Tail(todo)[i] : i \in DOMAIN Tail(todo)}
  <2> TAKE x
  <2> HAVE x \in {todo[i] : i \in DOMAIN todo}
  <2>1. PICK i \in 1 .. Len(todo) : x = todo[i]
    BY <1>2
  <2>2. CASE i = 1
    BY <1>2, <2>1, <2>2
  <2>3. CASE i # 1
    <3>1. i \in 2 .. Len(todo)
      BY <1>2, <2>3
    <3>2. QED
      BY <1>2, <1>4, <2>1, <3>1
  <2>4. QED
    BY <2>2, <2>3
<1>6. \A i \in 1 .. Len(todo) - 1 : Tail(todo)[i] \in {todo[j] : j \in DOMAIN todo}
  <2> TAKE i \in 1 .. Len(todo) - 1
  <2>1. i + 1 \in DOMAIN todo
    BY <1>2
  <2>2. QED
    BY <1>3, <2>1
<1>7. Members(todo) \subseteq {Head(todo)} \cup Members(Tail(todo))
  BY <1>5 DEF Members
<1>8. Head(todo) \in Members(todo) /\ Members(Tail(todo)) \subseteq Members(todo)
  BY <1>2, <1>6 DEF Members
<1>9. QED
  BY <1>1, <1>7, <1>8

LEMMA RemainingAreTrained ==
  ASSUME NEW p \in Programs, TrainerOK(p), Does(p, "trains") PROVE Remaining(p) \subseteq Trained
<1>1. \A i \in DOMAIN program[p].todo : program[p].todo[i] \in Trained
  BY DEF TrainerOK
<1>2. QED
  BY <1>1 DEF Remaining, Members

LEMMA MadeIsAFile ==
  /\ NoFile # Broken
  /\ \A training, data : Made(training, data) \notin {NoFile, Broken}
  /\ \A training, source : FixedEpochs(training, source) \notin {NoFile, Broken}
<1>1. NoFile # Broken
  <2>1. NoFile.is = "missing" /\ Broken.is = "broken"
    BY DEF NoFile, Broken
  <2>2. QED
    BY <2>1
<1>2. DOMAIN NoFile = {"is"} /\ DOMAIN Broken = {"is"}
  BY DEF NoFile, Broken
<1>3. \A training, data : DOMAIN Made(training, data) = {"training", "data"}
  BY DEF Made
<1>4. \A training, source : DOMAIN FixedEpochs(training, source) = {"training", "data", "threshold"}
  BY DEF FixedEpochs
<1>5. QED
  BY <1>1, <1>2, <1>3, <1>4

\* What every step leaves: a training is begun once, a file that is there is replaced
\* at most, and where the last training was alone and is over nothing is written, unless
\* another is begun.
Leaves(d) ==
  /\ \A f \in Files : disk[d][f] # NoFile => disk'[d][f] # NoFile
  /\ \/ lately'[d] = lately[d]
     \/ program[lately'[d].by] = Ready
     \/ lately'[d].by = lately[d].by /\ Does(lately[d].by, "trains")
  /\ lately'[d] = lately[d] /\ lately[d] # Untrained /\ lately[d].alone /\ ~Does(lately[d].by, "trains") =>
       \A f \in Trained : disk'[d][f] = disk[d][f]
StepLeaves ==
  /\ \A t \in Trainers : program[t] # Ready =>
       program'[t] # Ready /\ (Does(t, "trains")' => Does(t, "trains"))
  /\ \A d \in Directories : Leaves(d)

\* Metrics stay what they are of.
LEMMA MetricsStay ==
  ASSUME StepLeaves, NEW d \in Directories, NEW path, NEW m, MetricsAre(d, path, m)
  PROVE  MetricsAre(d, path, m)'
<1>1. SUFFICES ASSUME m.settled
               PROVE  /\ program'[m.since.by] # Ready
                      /\ lately'[d].by = m.since.by =>
                           /\ lately'[d] = m.since /\ ~Does(m.since.by, "trains")'
                           /\ \A role \in Roles : m.from[role] = disk'[d][FileOf(role, m.variant)]
  BY DEF MetricsAre
<1>2. /\ m.variant \in Variants /\ m.since \in Start /\ m.since.alone /\ program[m.since.by] # Ready
      /\ lately[d].by = m.since.by =>
           /\ lately[d] = m.since /\ ~Does(m.since.by, "trains")
           /\ \A role \in Roles : m.from[role] = disk[d][FileOf(role, m.variant)]
  BY <1>1 DEF MetricsAre
<1>3. m.since.by \in Trainers /\ m.since # Untrained
  BY <1>2, FilesAssumption DEF Start, Untrained
<1>4. program'[m.since.by] # Ready
  BY <1>2, <1>3 DEF StepLeaves
<1>5. ASSUME lately'[d].by = m.since.by
      PROVE  /\ lately'[d] = m.since /\ ~Does(m.since.by, "trains")'
             /\ \A role \in Roles : m.from[role] = disk'[d][FileOf(role, m.variant)]
  <2>1. Leaves(d)
    BY DEF StepLeaves
  <2>2. lately'[d] = lately[d]
    BY <1>2, <1>5, <2>1 DEF Leaves
  <2>3. lately[d] = m.since /\ ~Does(m.since.by, "trains")
    BY <1>2, <1>5, <2>2
  <2>4. \A f \in Trained : disk'[d][f] = disk[d][f]
    BY <1>2, <1>3, <2>1, <2>2, <2>3 DEF Leaves
  <2>5. \A role \in Roles : FileOf(role, m.variant) \in Trained
    BY <1>2, FileNames
  <2>6. ~Does(m.since.by, "trains")'
    BY <1>2, <1>3, <2>3 DEF StepLeaves
  <2>7. QED
    BY <1>2, <1>5, <2>2, <2>3, <2>4, <2>5, <2>6
<1>6. QED
  BY <1>4, <1>5

LEMMA RecallsStay ==
  ASSUME StepLeaves, NEW since, NEW quiet, Recalls(since, quiet)
  PROVE  Recalls(since, quiet)'
<1>1. since # Untrained => since.by \in Trainers
  BY DEF Recalls, Start
<1>2. QED
  BY <1>1 DEF Recalls, StepLeaves

\* What is recalled of a directory is as it was, if it still is.
LEMMA RecalledFiles ==
  ASSUME StepLeaves, NEW d \in Directories, NEW since, NEW quiet, Recalls(since, quiet),
         quiet, since.alone, lately'[d] = since, since # Untrained
  PROVE  lately[d] = since /\ \A f \in Trained : disk'[d][f] = disk[d][f]
<1>1. Leaves(d) /\ program[since.by] # Ready /\ ~Does(since.by, "trains")
  BY DEF StepLeaves, Recalls
<1>2. lately[d] = since
  BY <1>1 DEF Leaves
<1>3. QED
  BY <1>1, <1>2 DEF Leaves

LEMMA UntrainedIsNotAlone == Untrained.alone = FALSE
  BY DEF Untrained

\* What does not take the step is as it was: an evaluation ...
LEMMA EvaluatorStays ==
  ASSUME StepLeaves, NEW q \in Programs, program'[q] = program[q], EvaluatorOK(q)
  PROVE  EvaluatorOK(q)'
<1>1. SUFFICES ASSUME Does(q, "evaluates")
               PROVE  EvaluatorOK(q)'
  BY DEF EvaluatorOK, Does
<1>2. PICK e : e = program[q]
  OBVIOUS
<1>4. /\ e.in \in Directories /\ e.variant \in Variants
      /\ e.places \in [Roles -> [in : Directories, file : Models]] /\ Recalls(e.since, e.quiet)
      /\ \A role \in Remaining(q) \cap Roles : disk[e.places[role].in][e.places[role].file] # NoFile
      /\ Roles \subseteq Remaining(q) \cup DOMAIN e.loaded
      /\ OfItsOwn(e) /\ e.quiet /\ e.since.alone /\ lately[e.in] = e.since =>
           \A role \in DOMAIN e.loaded : e.loaded[role] = disk[e.in][FileOf(role, e.variant)]
  BY <1>1, <1>2 DEF EvaluatorOK
<1>5. Remaining(q)' = Remaining(q)
  BY DEF Remaining
<1>6. \A role \in Remaining(q) \cap Roles : disk'[e.places[role].in][e.places[role].file] # NoFile
  <2> TAKE role \in Remaining(q) \cap Roles
  <2>1. e.places[role].in \in Directories /\ e.places[role].file \in Files
    BY <1>4, FileNames
  <2>2. QED
    BY <1>4, <2>1 DEF StepLeaves, Leaves
<1>7. Recalls(e.since, e.quiet)'
  BY <1>4, RecallsStay
<1>8. ASSUME OfItsOwn(e), e.quiet, e.since.alone, lately'[e.in] = e.since, NEW role \in DOMAIN e.loaded \cap Roles
      PROVE  e.loaded[role] = disk'[e.in][FileOf(role, e.variant)]
  <2>1. e.since # Untrained
    BY <1>8, UntrainedIsNotAlone
  <2>2. lately[e.in] = e.since /\ \A f \in Trained : disk'[e.in][f] = disk[e.in][f]
    BY <1>4, <1>8, <2>1, RecalledFiles
  <2>3. FileOf(role, e.variant) \in Trained
    BY <1>4, <1>8, FileNames
  <2>4. QED
    BY <1>4, <1>8, <2>2, <2>3
<1>9. DOMAIN e.loaded \subseteq Roles
  BY <1>1, <1>2 DEF EvaluatorOK
<1>10. /\ q \in Evaluators
       /\ DOMAIN e = {"does", "in", "variant", "suffix", "places", "todo", "loaded", "since", "quiet"}
       /\ e.suffix \in BOOLEAN
       /\ \/ e.todo \in Seq(Roles) /\ e.todo # <<>>
          \/ e.todo \in Seq(EvaluatedSplits) /\ Remaining(q) \cap Roles = {}
       /\ \A role \in DOMAIN e.loaded : e.loaded[role] \notin {NoFile, Broken}
       /\ OfItsOwn(e) /\ e.variant = "best" /\ "mlp" \in DOMAIN e.loaded => e.loaded["mlp"].data = "train"
  BY <1>1, <1>2 DEF EvaluatorOK
<1>11. OfItsOwn(e) /\ e.quiet /\ e.since.alone /\ lately'[e.in] = e.since =>
         \A role \in DOMAIN e.loaded : e.loaded[role] = disk'[e.in][FileOf(role, e.variant)]
  BY <1>8, <1>9
<1>12. program'[q] = e
  BY <1>2
<1>13. QED
  BY <1>4, <1>5, <1>6, <1>7, <1>9, <1>10, <1>11, <1>12 DEF EvaluatorOK

\* ... and a scan.
LEMMA ScannerStays ==
  ASSUME StepLeaves, NEW q \in Programs, program'[q] = program[q], ScannerOK(q)
  PROVE  ScannerOK(q)'
<1>1. SUFFICES ASSUME Does(q, "scans")
               PROVE  ScannerOK(q)'
  BY DEF ScannerOK, Does
<1>2. PICK s, d : s = program[q] /\ d = Head(s.todo)
  OBVIOUS
<1>3. /\ Recalls(s.since, s.quiet) /\ s.todo \in Seq(Ablations)
      /\ \A row \in s.rows : IsOfItsCheckpoints(row)
  BY <1>1, <1>2 DEF ScannerOK
<1>4. Recalls(s.since, s.quiet)'
  BY <1>3, RecallsStay
<1>5. ASSUME s.next # <<>> \/ DOMAIN s.found # {}
      PROVE  /\ \A f \in Members(s.next) : disk'[d][f] # NoFile
             /\ \A split \in EvaluatedSplits \cap DOMAIN s.found : MetricsAre(d, split, s.found[split])'
             /\ s.quiet /\ s.since.alone /\ lately'[d] = s.since /\ "checkpoints" \in DOMAIN s.found =>
                  s.found["checkpoints"] = disk'[d]["checkpoints"]
  <2>1. /\ s.todo # <<>> /\ s.next \in Seq(RunFiles)
        /\ \A f \in Members(s.next) : disk[d][f] # NoFile
        /\ \A split \in EvaluatedSplits \cap DOMAIN s.found : MetricsAre(d, split, s.found[split])
        /\ s.quiet /\ s.since.alone /\ lately[d] = s.since /\ "checkpoints" \in DOMAIN s.found =>
             s.found["checkpoints"] = disk[d]["checkpoints"]
    BY <1>1, <1>2, <1>5 DEF ScannerOK
  <2>2. d \in Directories
    BY <1>2, <1>3, <2>1, Shrinks DEF Directories
  <2>3. Members(s.next) \subseteq Files
    <3>1. \A i \in DOMAIN s.next : s.next[i] \in RunFiles
      BY <2>1
    <3>2. QED
      BY <3>1, FileNames DEF Members
  <2>4. \A f \in Members(s.next) : disk'[d][f] # NoFile
    BY <2>1, <2>2, <2>3 DEF StepLeaves, Leaves
  <2>5. \A split \in EvaluatedSplits \cap DOMAIN s.found : MetricsAre(d, split, s.found[split])'
    BY <2>1, <2>2, MetricsStay
  <2>6. ASSUME s.quiet, s.since.alone, lately'[d] = s.since, "checkpoints" \in DOMAIN s.found
        PROVE  s.found["checkpoints"] = disk'[d]["checkpoints"]
    <3>1. s.since # Untrained
      BY <2>6, UntrainedIsNotAlone
    <3>2. lately[d] = s.since /\ \A f \in Trained : disk'[d][f] = disk[d][f]
      BY <1>3, <2>2, <2>6, <3>1, RecalledFiles
    <3>3. "checkpoints" \in Trained
      BY DEF Trained
    <3>4. QED
      BY <2>1, <2>6, <3>2, <3>3
  <2>7. QED
    BY <2>4, <2>5, <2>6
<1>6. QED
  BY <1>1, <1>2, <1>3, <1>4, <1>5 DEF ScannerOK, Does, IsOfItsCheckpoints

LEMMA BegunStays ==
  ASSUME StepLeaves, NEW content, Begun(content) PROVE Begun(content)'
  BY DEF StepLeaves, Begun

\* A step of an evaluation, which changes no file of a training.
LEMMA EvaluatorLeaves ==
  ASSUME LearningInv, NEW p \in Evaluators,
         LearningTypeOK', lately' = lately,
         \A q \in Programs : q # p => program'[q] = program[q],
         \A d \in Directories, f \in Trained : disk'[d][f] = disk[d][f],
         \A d \in Directories, f \in MetricsFiles : disk'[d][f] = disk[d][f] \/ disk'[d][f] # NoFile
  PROVE  StepLeaves
<1>1. \A t \in Trainers : program'[t] = program[t]
  BY FilesAssumption DEF Programs
<1>2. \A d \in Directories : Leaves(d)
  BY FileNames DEF Leaves
<1>3. QED
  BY <1>1, <1>2 DEF StepLeaves, Does

LEMMA EvaluatorFrame ==
  ASSUME LearningInv, NEW p \in Evaluators,
         LearningTypeOK', lately' = lately,
         \A q \in Programs : q # p => program'[q] = program[q],
         program'[p].does # "trains",
         \A d \in Directories, f \in Trained : disk'[d][f] = disk[d][f],
         \A d \in Directories, f \in MetricsFiles :
           disk'[d][f] = disk[d][f] \/ (disk'[d][f] # NoFile /\ MetricsOK(d, f)'),
         EvaluatorOK(p)', ScannerOK(p)', RowsAreOfTheirCheckpoints'
  PROVE  LearningInv'
<1>1. p \in Programs /\ p \notin Trainers
  BY FilesAssumption DEF Programs
<1>2. StepLeaves
  BY EvaluatorLeaves
<1>3. \A q \in Programs : TrainerOK(q)'
  <2> TAKE q \in Programs
  <2>1. CASE q = p
    BY <2>1 DEF TrainerOK, Does
  <2>2. CASE q # p
    <3>1. program'[q] = program[q] /\ TrainerOK(q)
      BY <2>2 DEF LearningInv
    <3>2. QED
      BY <3>1 DEF TrainerOK, Does
  <2>3. QED
    BY <2>1, <2>2
<1>4. \A q \in Programs : EvaluatorOK(q)' /\ ScannerOK(q)'
  <2> TAKE q \in Programs
  <2>1. CASE q = p
    BY <2>1
  <2>2. CASE q # p
    <3>1. program'[q] = program[q] /\ EvaluatorOK(q) /\ ScannerOK(q)
      BY <2>2 DEF LearningInv
    <3>2. QED
      BY <1>2, <3>1, EvaluatorStays, ScannerStays
  <2>3. QED
    BY <2>1, <2>2
<1>5. \A q \in Trainers : program'[q] = program[q]
  BY <1>1 DEF Programs
<1>6. \A d \in Directories : disk'[d]["gru"] = disk[d]["gru"] /\ disk'[d]["mlp"] = disk[d]["mlp"]
  BY DEF Trained, Models
<1>7. ASSUME NEW d \in Directories PROVE TrainingOK(d)'
  <2>1. TrainingOK(d)
    BY DEF LearningInv
  <2>2. SUFFICES ASSUME lately[d] # Untrained PROVE TrainingOK(d)'
    BY <2>1 DEF TrainingOK
  <2>3. lately[d].by \in Trainers
    BY <2>2 DEF LearningInv, LearningTypeOK, Start
  <2>4. program'[lately[d].by] = program[lately[d].by]
    BY <1>5, <2>3
  <2>5. Remaining(lately[d].by)' = Remaining(lately[d].by)
    BY <2>4 DEF Remaining
  <2>6. \A q \in Trainers : Does(q, "trains")' <=> Does(q, "trains")
    BY <1>5 DEF Does
  <2>7. \A f \in Trained : IsWritten(d, f)' <=> IsWritten(d, f)
    BY <2>3, <2>5, <2>6 DEF IsWritten
  <2>8. InOrder(d, lately[d].by)' <=> InOrder(d, lately[d].by)
    BY FileNames DEF InOrder
  <2>9. Does(lately[d].by, "trains") => Remaining(lately[d].by) \subseteq Trained
    BY <2>3, RemainingAreTrained DEF LearningInv, Programs
  <2>10. QED
    BY <1>5, <1>6, <2>1, <2>2, <2>3, <2>4, <2>5, <2>6, <2>7, <2>8, <2>9 DEF TrainingOK
<1>8. ASSUME NEW d \in Directories
      PROVE  /\ disk'[d]["mlp"] \in {NoFile, Broken} \/ disk'[d]["mlp"].data = "train"
             /\ \A f \in Trained : Begun(disk[d][f])'
  <2>1. disk'[d]["mlp"] \in {NoFile, Broken} \/ disk'[d]["mlp"].data = "train"
    BY <1>6 DEF LearningInv
  <2>2. ASSUME NEW f \in Trained PROVE Begun(disk[d][f])'
    <3>1. PICK content : content = disk[d][f] /\ content = disk'[d][f]
      OBVIOUS
    <3>2. Begun(content)
      BY <3>1 DEF LearningInv
    <3>3. QED
      BY <1>2, <3>1, <3>2, BegunStays
  <2>3. QED
    BY <2>1, <2>2
<1>9. ASSUME NEW d \in Directories, NEW f \in MetricsFiles PROVE MetricsOK(d, f)'
  <2>1. CASE MetricsOK(d, f)'
    BY <2>1
  <2>2. CASE disk'[d][f] = disk[d][f]
    <3>1. PICK m : m = disk[d][f]
      OBVIOUS
    <3>2. m \notin {NoFile, Broken} => MetricsAre(d, f, m)
      BY <3>1 DEF LearningInv, MetricsOK
    <3>3. m \notin {NoFile, Broken} => MetricsAre(d, f, m)'
      BY <1>2, <3>2, MetricsStay
    <3>4. QED
      BY <2>2, <3>1, <3>3 DEF MetricsOK
  <2>3. QED
    BY <2>1, <2>2
<1>10. QED
  BY <1>3, <1>4, <1>7, <1>8, <1>9 DEF LearningInv

\* A step of a program changes what that program does.
LEMMA ProgramEffect ==
  ASSUME LearningTypeOK, NEW p \in Programs, NEW does, program' = [program EXCEPT ![p] = does]
  PROVE  /\ DOMAIN program' = Programs /\ program'[p] = does
         /\ \A q \in Programs : q # p => program'[q] = program[q]
  BY DEF LearningTypeOK

\* A step that changes no file and only what an evaluator does.
LEMMA EvaluatorMoves ==
  ASSUME LearningInv, NEW p \in Evaluators, NEW does, program' = [program EXCEPT ![p] = does],
         does.does # "trains", UNCHANGED <<disk, lately>>,
         EvaluatorOK(p)', ScannerOK(p)', RowsAreOfTheirCheckpoints'
  PROVE  LearningInv'
<1>1. LearningTypeOK /\ p \in Programs
  BY DEF LearningInv, Programs
<1>2. DOMAIN program' = Programs /\ program'[p] = does /\ \A q \in Programs : q # p => program'[q] = program[q]
  BY <1>1, ProgramEffect
<1>3. LearningTypeOK'
  BY <1>1, <1>2 DEF LearningTypeOK
<1>4. \A d \in Directories, f \in Files : disk'[d][f] = disk[d][f]
  OBVIOUS
<1>5. program'[p].does # "trains"
  BY <1>2
<1>6. QED
  BY <1>2, <1>3, <1>4, <1>5, FileNames, EvaluatorFrame

\* What an evaluator knows of the last training of a directory when it looks there.
LEMMA RecallsNow ==
  ASSUME LearningInv, NEW d \in Directories, NEW quiet, quiet = Quiet(d)
  PROVE  Recalls(lately[d], quiet)
<1>1. lately[d] \in Start \cup {Untrained} /\ TrainingOK(d)
  BY DEF LearningInv, LearningTypeOK
<1>2. SUFFICES ASSUME lately[d] # Untrained
               PROVE  program[lately[d].by] # Ready /\ (quiet => ~Does(lately[d].by, "trains"))
  BY <1>1 DEF Recalls
<1>3. lately[d].by \in Trainers
  BY <1>1, <1>2 DEF Start
<1>4. Does(lately[d].by, "trains") => program[lately[d].by].in = d
  BY <1>1, <1>2 DEF TrainingOK
<1>5. QED
  BY <1>1, <1>2, <1>3, <1>4 DEF TrainingOK, Quiet

\* It is not changed by what an evaluator does itself.
LEMMA RecallsAfter ==
  ASSUME LearningTypeOK, NEW p \in Evaluators, NEW does, program' = [program EXCEPT ![p] = does],
         NEW since, NEW quiet, Recalls(since, quiet)
  PROVE  Recalls(since, quiet)'
<1>1. \A t \in Trainers : program'[t] = program[t]
  BY FilesAssumption DEF LearningTypeOK, Programs
<1>2. since # Untrained => since.by \in Trainers
  BY DEF Recalls, Start
<1>3. QED
  BY <1>1, <1>2 DEF Recalls, Does

LEMMA StartEvaluationStep ==
  ASSUME LearningInv, NEW p \in Programs, StartEvaluation(p) PROVE LearningInv'
<1>1. PICK d \in Directories, variant \in Variants, option \in Options :
        /\ \A role \in Roles : disk[PathsOf(d, variant, option.given)[role].in]
                                   [PathsOf(d, variant, option.given)[role].file] # NoFile
        /\ program' = [program EXCEPT ![p] =
             [does |-> "evaluates", in |-> d, variant |-> variant, suffix |-> option.suffix,
              places |-> PathsOf(d, variant, option.given), todo |-> <<"threshold", "scaler", "mlp", "gru">>,
              loaded |-> <<>>, since |-> lately[d], quiet |-> Quiet(d)]]
  BY DEF StartEvaluation
<1>2. /\ p \in Evaluators /\ program[p] = Ready
      /\ disk' = disk /\ ablations' = ablations /\ lately' = lately
  BY DEF StartEvaluation
<1>3. LearningTypeOK /\ RowsAreOfTheirCheckpoints'
  BY <1>2 DEF LearningInv, RowsAreOfTheirCheckpoints
<1>4. PICK todo : todo = <<"threshold", "scaler", "mlp", "gru">>
  OBVIOUS
<1>5. PICK places : places = PathsOf(d, variant, option.given)
  OBVIOUS
<1>6. PICK quiet : quiet = Quiet(d)
  OBVIOUS
<1>7. PICK does :
        does = [does |-> "evaluates", in |-> d, variant |-> variant, suffix |-> option.suffix,
                places |-> places, todo |-> todo, loaded |-> <<>>, since |-> lately[d], quiet |-> quiet]
  OBVIOUS
<1>8. program' = [program EXCEPT ![p] = does]
  BY <1>1, <1>4, <1>5, <1>6, <1>7
<1>9. /\ does.does = "evaluates" /\ does.in = d /\ does.variant = variant /\ does.suffix = option.suffix
      /\ does.places = places /\ does.todo = todo /\ does.loaded = <<>> /\ does.since = lately[d]
      /\ does.quiet = quiet
      /\ DOMAIN does = {"does", "in", "variant", "suffix", "places", "todo", "loaded", "since", "quiet"}
  BY <1>7
<1>10. program'[p] = does
  BY <1>3, <1>8, ProgramEffect DEF Programs
<1>11. todo \in Seq(Roles) /\ todo # <<>> /\ Members(todo) = Roles
  <2>1. /\ todo[1] = "threshold" /\ todo[2] = "scaler" /\ todo[3] = "mlp" /\ todo[4] = "gru"
        /\ DOMAIN todo = {1, 2, 3, 4} /\ todo \in Seq(Roles) /\ todo # <<>>
    <3>1. DOMAIN todo = 1 .. 4
      BY <1>4
    <3>2. QED
      BY <1>4, <3>1 DEF Roles
  <2>2. QED
    BY <2>1 DEF Members, Roles
<1>12. places \in [Roles -> [in : Directories, file : Models]]
  <2>1. \A role \in Roles : places[role] \in [in : Directories, file : Models]
    BY <1>5, FilesAssumption, FileNames DEF PathsOf, OwnPlaces
  <2>2. places = [role \in Roles |-> places[role]]
    BY <1>5 DEF PathsOf
  <2>3. QED
    BY <2>1, <2>2
<1>13. Recalls(lately[d], quiet)'
  <2>1. PICK since : since = lately[d]
    OBVIOUS
  <2>2. Recalls(since, quiet)
    BY <1>6, <2>1, RecallsNow
  <2>3. Recalls(since, quiet)'
    BY <1>2, <1>3, <1>8, <2>2, RecallsAfter
  <2>4. QED
    BY <1>2, <2>1, <2>3
<1>14. EvaluatorOK(p)'
  <2>1. Remaining(p)' = Roles
    BY <1>9, <1>10, <1>11 DEF Remaining
  <2>2. DOMAIN <<>> = {}
    OBVIOUS
  <2>3. \A role \in Roles : disk'[places[role].in][places[role].file] # NoFile
    BY <1>1, <1>2, <1>5
  <2>4. option.suffix \in BOOLEAN
    BY FilesAssumption
  <2>5. Recalls(does.since, does.quiet)'
    BY <1>2, <1>9, <1>13
  <2>6. QED
    BY <1>2, <1>9, <1>10, <1>11, <1>12, <2>1, <2>2, <2>3, <2>4, <2>5 DEF EvaluatorOK
<1>15. ScannerOK(p)' /\ does.does # "trains"
  BY <1>9, <1>10 DEF ScannerOK, Does
<1>16. QED
  BY <1>2, <1>3, <1>8, <1>14, <1>15, EvaluatorMoves

\* An evaluator that ends.
LEMMA EvaluatorEnds ==
  ASSUME LearningInv, NEW p \in Evaluators, NEW does \in {Ended, Killed}, program' = [program EXCEPT ![p] = does],
         UNCHANGED <<disk, lately>>, RowsAreOfTheirCheckpoints'
  PROVE  LearningInv'
<1>1. program'[p] = does
  BY ProgramEffect DEF LearningInv, Programs
<1>2. EvaluatorOK(p)' /\ ScannerOK(p)' /\ does.does # "trains"
  BY <1>1, ProgramStates DEF EvaluatorOK, ScannerOK, Does
<1>3. QED
  BY <1>2, EvaluatorMoves

LEMMA EndEvaluationStep ==
  ASSUME LearningInv, NEW p \in Evaluators, EndEvaluation(p) PROVE LearningInv'
<1>1. program' = [program EXCEPT ![p] = Ended]
      /\ disk' = disk /\ ablations' = ablations /\ lately' = lately
  BY DEF EndEvaluation, Ends
<1>2. RowsAreOfTheirCheckpoints'
  BY <1>1 DEF LearningInv, RowsAreOfTheirCheckpoints
<1>3. QED
  BY <1>1, <1>2, EvaluatorEnds

LEMMA StartScanStep ==
  ASSUME LearningInv, NEW p \in Evaluators, StartScan(p) PROVE LearningInv'
<1>1. PICK does :
        does = [does |-> "scans", todo |-> Tags, next |-> <<>>, found |-> <<>>, rows |-> {},
                since |-> Untrained, quiet |-> FALSE]
  OBVIOUS
<1>2. program' = [program EXCEPT ![p] = does]
      /\ disk' = disk /\ ablations' = ablations /\ lately' = lately
  BY <1>1 DEF StartScan
<1>3. program'[p] = does
  BY <1>2, ProgramEffect DEF LearningInv, Programs
<1>4. /\ does.does = "scans" /\ does.todo = Tags /\ does.next = <<>> /\ does.found = <<>> /\ does.rows = {}
      /\ does.since = Untrained
      /\ DOMAIN does = {"does", "todo", "next", "found", "rows", "since", "quiet"}
  BY <1>1
<1>5. <<>> \in Seq(RunFiles) /\ DOMAIN <<>> = {} /\ Tags \in Seq(Ablations)
  BY FilesAssumption
<1>6. Recalls(Untrained, does.quiet)'
  BY DEF Recalls
<1>7. ScannerOK(p)'
  BY <1>3, <1>4, <1>5, <1>6 DEF ScannerOK
<1>8. EvaluatorOK(p)' /\ RowsAreOfTheirCheckpoints'
  BY <1>2, <1>3, <1>4 DEF EvaluatorOK, Does, LearningInv, RowsAreOfTheirCheckpoints
<1>9. QED
  BY <1>2, <1>4, <1>7, <1>8, EvaluatorMoves

LEMMA SaveAblationsStep ==
  ASSUME LearningInv, NEW p \in Evaluators, SaveAblations(p) PROVE LearningInv'
<1>1. program' = [program EXCEPT ![p] = Ended] /\ Does(p, "scans")
      /\ disk' = disk /\ ablations' = program[p].rows /\ lately' = lately
  BY DEF SaveAblations, Ends
<1>2. ScannerOK(p)
  BY DEF LearningInv, Programs
<1>3. RowsAreOfTheirCheckpoints'
  BY <1>1, <1>2 DEF ScannerOK, RowsAreOfTheirCheckpoints
<1>4. QED
  BY <1>1, <1>3, EvaluatorEnds

\* A scan comes to a directory, and leaves it or begins to read there.
LEMMA FindRunStep ==
  ASSUME LearningInv, NEW p \in Evaluators, FindRun(p) PROVE LearningInv'
<1>1. /\ Does(p, "scans") /\ program[p].todo # <<>>
      /\ program[p].next = <<>> /\ DOMAIN program[p].found = {}
      /\ disk' = disk /\ ablations' = ablations /\ lately' = lately
  BY DEF FindRun
<1>2. LearningTypeOK /\ RowsAreOfTheirCheckpoints' /\ p \in Programs /\ DOMAIN program = Programs
  BY <1>1 DEF LearningInv, RowsAreOfTheirCheckpoints, Programs, LearningTypeOK
<1>3. PICK s : s = program[p]
  OBVIOUS
<1>4. /\ DOMAIN s = {"does", "todo", "next", "found", "rows", "since", "quiet"} /\ s.does = "scans"
      /\ s.todo \in Seq(Ablations) /\ Recalls(s.since, s.quiet)
      /\ \A row \in s.rows : IsOfItsCheckpoints(row)
  BY <1>1, <1>2, <1>3 DEF LearningInv, ScannerOK, Does
<1>5. PICK d \in Directories : d = Head(s.todo)
  BY <1>1, <1>3, <1>4, Shrinks DEF Directories
<1>6. Tail(s.todo) \in Seq(Ablations)
  BY <1>1, <1>3, <1>4, Shrinks
<1>7. PICK next, since, quiet :
        next = <<"checkpoints", "validation", "test">> /\ since = lately[d] /\ quiet = Quiet(d)
  OBVIOUS
<1>8. CASE \E f \in RunFiles : disk[d][f] = NoFile
  <2>1. PICK does : does = [s EXCEPT !.todo = Tail(s.todo)]
    OBVIOUS
  <2>2. program' = [program EXCEPT ![p] = does]
    BY <1>1, <1>3, <1>5, <1>8, <2>1 DEF FindRun, Remains
  <2>3. /\ does.does = "scans" /\ does.todo = Tail(s.todo) /\ does.next = <<>> /\ DOMAIN does.found = {}
        /\ does.rows = s.rows /\ does.since = s.since /\ does.quiet = s.quiet
        /\ DOMAIN does = {"does", "todo", "next", "found", "rows", "since", "quiet"}
    BY <1>1, <1>3, <1>4, <2>1
  <2>4. program'[p] = does
    BY <1>2, <2>2
  <2>5. Recalls(does.since, does.quiet)'
    <3>1. PICK old, was : old = s.since /\ was = s.quiet
      OBVIOUS
    <3>2. Recalls(old, was)'
      BY <1>2, <1>4, <2>2, <3>1, RecallsAfter
    <3>3. QED
      BY <2>3, <3>1, <3>2
  <2>6. <<>> \in Seq(RunFiles)
    OBVIOUS
  <2>7. ScannerOK(p)'
    BY <1>4, <1>6, <2>3, <2>4, <2>5, <2>6 DEF ScannerOK, IsOfItsCheckpoints
  <2>8. EvaluatorOK(p)'
    BY <2>3, <2>4 DEF EvaluatorOK, Does
  <2>9. QED
    BY <1>1, <1>2, <2>2, <2>3, <2>7, <2>8, EvaluatorMoves
<1>9. CASE ~\E f \in RunFiles : disk[d][f] = NoFile
  <2>1. PICK does : does = [s EXCEPT !.next = next, !.since = since, !.quiet = quiet]
    OBVIOUS
  <2>2. program' = [program EXCEPT ![p] = does]
    BY <1>1, <1>3, <1>5, <1>7, <1>9, <2>1 DEF FindRun
  <2>3. /\ does.does = "scans" /\ does.todo = s.todo /\ does.next = next /\ DOMAIN does.found = {}
        /\ does.rows = s.rows /\ does.since = since /\ does.quiet = quiet
        /\ DOMAIN does = {"does", "todo", "next", "found", "rows", "since", "quiet"}
    BY <1>1, <1>3, <1>4, <2>1
  <2>4. program'[p] = does
    BY <1>2, <2>2
  <2>5. Recalls(does.since, does.quiet)'
    <3>1. Recalls(since, quiet)
      BY <1>7, RecallsNow
    <3>2. Recalls(since, quiet)'
      BY <1>2, <2>2, <3>1, RecallsAfter
    <3>3. QED
      BY <2>3, <3>2
  <2>6. next \in Seq(RunFiles) /\ Members(next) = RunFiles
    <3>1. /\ next[1] = "checkpoints" /\ next[2] = "validation" /\ next[3] = "test"
          /\ DOMAIN next = 1 .. 3 /\ next \in Seq(RunFiles)
      BY <1>7 DEF RunFiles
    <3>2. 1 .. 3 = {1, 2, 3}
      OBVIOUS
    <3>3. QED
      BY <3>1, <3>2 DEF Members, RunFiles
  <2>7. ScannerOK(p)'
    <3>1. /\ s.todo # <<>> /\ RunFiles \subseteq Members(does.next)
          /\ \A f \in Members(does.next) : disk'[d][f] # NoFile
      BY <1>1, <1>3, <1>9, <2>3, <2>6
    <3>2. QED
      BY <1>4, <1>5, <2>3, <2>4, <2>5, <2>6, <3>1 DEF ScannerOK, IsOfItsCheckpoints
  <2>8. EvaluatorOK(p)'
    BY <2>3, <2>4 DEF EvaluatorOK, Does
  <2>9. QED
    BY <1>1, <1>2, <2>2, <2>3, <2>7, <2>8, EvaluatorMoves
<1>10. QED
  BY <1>8, <1>9

\* Metrics that are read stay what they are of while an evaluator goes on.
LEMMA MoveLeaves ==
  ASSUME LearningInv, NEW p \in Evaluators, NEW does, program' = [program EXCEPT ![p] = does],
         UNCHANGED <<disk, lately>>
  PROVE  LearningTypeOK' /\ StepLeaves
<1>1. LearningTypeOK /\ p \in Programs
  BY DEF LearningInv, Programs
<1>2. DOMAIN program' = Programs /\ \A q \in Programs : q # p => program'[q] = program[q]
  BY <1>1, ProgramEffect
<1>3. LearningTypeOK'
  BY <1>1, <1>2 DEF LearningTypeOK
<1>4. \A d \in Directories, f \in Files : disk'[d][f] = disk[d][f]
  OBVIOUS
<1>5. QED
  BY <1>2, <1>3, <1>4, FileNames, EvaluatorLeaves

LEMMA ReadRunStep ==
  ASSUME LearningInv, NEW p \in Evaluators, ReadRun(p) PROVE LearningInv'
<1>1. /\ Does(p, "scans") /\ program[p].next # <<>>
      /\ disk' = disk /\ ablations' = ablations /\ lately' = lately
  BY DEF ReadRun
<1>2. LearningTypeOK /\ RowsAreOfTheirCheckpoints' /\ p \in Programs /\ DOMAIN program = Programs
  BY <1>1 DEF LearningInv, RowsAreOfTheirCheckpoints, Programs, LearningTypeOK
<1>3. PICK s : s = program[p]
  OBVIOUS
<1>4. PICK d, next, content : d = Head(s.todo) /\ next = Head(s.next) /\ content = disk[d][next]
  OBVIOUS
<1>5. /\ DOMAIN s = {"does", "todo", "next", "found", "rows", "since", "quiet"} /\ s.does = "scans"
      /\ s.todo \in Seq(Ablations) /\ s.next \in Seq(RunFiles) /\ Recalls(s.since, s.quiet)
      /\ s.next # <<>> /\ s.todo # <<>> /\ RunFiles \subseteq Members(s.next) \cup DOMAIN s.found
      /\ \A f \in Members(s.next) : disk[d][f] # NoFile
      /\ \A split \in EvaluatedSplits \cap DOMAIN s.found : MetricsAre(d, split, s.found[split])
      /\ s.quiet /\ s.since.alone /\ lately[d] = s.since /\ "checkpoints" \in DOMAIN s.found =>
           s.found["checkpoints"] = disk[d]["checkpoints"]
      /\ \A f \in DOMAIN s.found : s.found[f] \notin {NoFile, Broken}
      /\ \A row \in s.rows : IsOfItsCheckpoints(row)
  BY <1>1, <1>2, <1>3, <1>4 DEF LearningInv, ScannerOK, Does
<1>6. /\ d \in Directories /\ next \in RunFiles /\ Tail(s.next) \in Seq(RunFiles)
      /\ Members(s.next) = {next} \cup Members(Tail(s.next))
  BY <1>4, <1>5, Shrinks DEF Directories
<1>7. content # NoFile
  BY <1>4, <1>5, <1>6
<1>8. CASE content = Broken
  <2>1. program' = [program EXCEPT ![p] = Ended]
    BY <1>3, <1>4, <1>8 DEF ReadRun, Ends
  <2>2. QED
    BY <1>1, <1>2, <2>1, EvaluatorEnds
<1>9. CASE content # Broken
  <2>1. PICK found, before : before = s.found /\ found = With(before, next, content)
    OBVIOUS
  <2>2. PICK does : does = [s EXCEPT !.next = Tail(s.next), !.found = found]
    OBVIOUS
  <2>3. program' = [program EXCEPT ![p] = does]
    BY <1>3, <1>4, <1>9, <2>1, <2>2, Zenon DEF ReadRun
  <2>4. /\ does.does = "scans" /\ does.todo = s.todo /\ does.next = Tail(s.next) /\ does.found = found
        /\ does.rows = s.rows /\ does.since = s.since /\ does.quiet = s.quiet
        /\ DOMAIN does = {"does", "todo", "next", "found", "rows", "since", "quiet"}
    BY <1>5, <2>2
  <2>5. program'[p] = does
    BY <1>2, <2>3
  <2>6. /\ DOMAIN found = DOMAIN s.found \cup {next} /\ found[next] = content
        /\ \A f \in DOMAIN s.found : f # next => found[f] = s.found[f]
    <3>1. /\ DOMAIN found = DOMAIN before \cup {next} /\ found[next] = content
          /\ \A f \in DOMAIN before : f # next => found[f] = before[f]
      BY <2>1 DEF With
    <3>2. QED
      BY <2>1, <3>1
  <2>7. StepLeaves
    BY <1>1, <2>3, MoveLeaves
  <2>8. Recalls(does.since, does.quiet)'
    <3>1. PICK since, quiet : since = s.since /\ quiet = s.quiet
      OBVIOUS
    <3>2. Recalls(since, quiet)'
      BY <1>5, <2>7, <3>1, RecallsStay
    <3>3. QED
      BY <2>4, <3>1, <3>2
  <2>9. ASSUME NEW split \in EvaluatedSplits \cap DOMAIN found PROVE MetricsAre(d, split, found[split])'
    <3>1. PICK m : m = found[split]
      OBVIOUS
    <3>2. MetricsAre(d, split, m)
      <4>1. CASE split = next
        <5>1. split \in MetricsFiles /\ disk[d][split] = m /\ m \notin {NoFile, Broken}
          BY <1>4, <1>7, <1>9, <2>6, <3>1, <4>1, FileNames
        <5>2. QED
          BY <1>6, <5>1 DEF LearningInv, MetricsOK
      <4>2. CASE split # next
        BY <1>5, <2>6, <3>1, <4>2
      <4>3. QED
        BY <4>1, <4>2
    <3>3. MetricsAre(d, split, m)'
      BY <1>6, <2>7, <3>2, MetricsStay
    <3>4. QED
      BY <3>1, <3>3
  <2>10. s.quiet /\ s.since.alone /\ lately'[d] = s.since /\ "checkpoints" \in DOMAIN found =>
           found["checkpoints"] = disk'[d]["checkpoints"]
    BY <1>1, <1>4, <1>5, <2>6
  <2>11. /\ \A f \in Members(Tail(s.next)) : disk'[d][f] # NoFile
         /\ RunFiles \subseteq Members(Tail(s.next)) \cup DOMAIN found
         /\ \A f \in DOMAIN found : found[f] \notin {NoFile, Broken}
    BY <1>1, <1>5, <1>6, <1>7, <1>9, <2>6
  <2>12. ScannerOK(p)'
    BY <1>4, <1>5, <1>6, <2>4, <2>5, <2>8, <2>9, <2>10, <2>11 DEF ScannerOK, IsOfItsCheckpoints
  <2>13. EvaluatorOK(p)'
    BY <2>4, <2>5 DEF EvaluatorOK, Does
  <2>14. QED
    BY <1>1, <1>2, <2>3, <2>4, <2>12, <2>13, EvaluatorMoves
<1>10. QED
  BY <1>8, <1>9

\* A row: the summary and the metrics that were read are of one training, unless another
\* was begun, or unless the last one did not end.
LEMMA RowIsRight ==
  ASSUME LearningInv, NEW p \in Evaluators, Does(p, "scans"), program[p].next = <<>>,
         DOMAIN program[p].found # {}
  PROVE  IsOfItsCheckpoints(Row(p))
<1>1. PICK s, d : s = program[p] /\ d = Head(s.todo)
  OBVIOUS
<1>2. ScannerOK(p)
  BY DEF LearningInv, Programs
<1>3. /\ s.todo \in Seq(Ablations) /\ s.todo # <<>> /\ RunFiles \subseteq Members(s.next) \cup DOMAIN s.found
      /\ Recalls(s.since, s.quiet)
      /\ \A split \in EvaluatedSplits \cap DOMAIN s.found : MetricsAre(d, split, s.found[split])
      /\ s.quiet /\ s.since.alone /\ lately[d] = s.since /\ "checkpoints" \in DOMAIN s.found =>
           s.found["checkpoints"] = disk[d]["checkpoints"]
      /\ \A f \in DOMAIN s.found : s.found[f] \notin {NoFile, Broken}
  BY <1>1, <1>2 DEF ScannerOK
<1>4. RunFiles \subseteq DOMAIN s.found
  <2>1. DOMAIN s.next = {}
    <3>1. s.next = <<>>
      BY <1>1
    <3>2. QED
      BY <3>1
  <2>2. Members(s.next) = {}
    BY <2>1 DEF Members
  <2>3. QED
    BY <1>3, <2>2
<1>5. d \in Directories
  BY <1>1, <1>3, Shrinks DEF Directories
<1>6. PICK row : row = Row(p)
  OBVIOUS
<1>7. /\ row.found = s.found /\ row.since = s.since
      /\ row.settled = (s.quiet /\ s.since.alone /\ lately[d] = s.since)
  BY <1>1, <1>6 DEF Row
<1>8. "checkpoints" \in RunFiles /\ "checkpoints" \in Trained /\ EvaluatedSplits \subseteq RunFiles
  BY FileNames DEF RunFiles, Trained
<1>9. ASSUME NEW split \in EvaluatedSplits, NEW m, m = s.found[split], row.settled, m.settled, m.since = s.since
      PROVE  /\ s.since.ended => s.found["checkpoints"].training = s.since.by
             /\ s.found["checkpoints"].training = s.since.by => m.from["mlp"].training = s.since.by
  <2>1. s.quiet /\ s.since.alone /\ lately[d] = s.since
    BY <1>7, <1>9, Zenon
  <2>2. s.found["checkpoints"] = disk[d]["checkpoints"] /\ disk[d]["checkpoints"] \notin {NoFile, Broken}
    BY <1>3, <1>4, <1>8, <2>1
  <2>3. MetricsAre(d, split, m)
    BY <1>3, <1>4, <1>8, <1>9
  <2>4. /\ m.variant = "best" /\ ~Does(s.since.by, "trains")
        /\ \A role \in Roles : m.from[role] = disk[d][FileOf(role, m.variant)]
    BY <1>9, <2>1, <2>3 DEF MetricsAre
  <2>5. m.from["mlp"] = disk[d]["mlp"]
    BY <2>4 DEF Roles, FileOf
  <2>6. TrainingOK(d) /\ lately[d] # Untrained
    BY <1>5, <2>1, UntrainedIsNotAlone DEF LearningInv
  <2>7. s.since.ended => disk[d]["checkpoints"] = Made(s.since.by, "train")
    <3>1. SUFFICES ASSUME s.since.ended PROVE disk[d]["checkpoints"] = Made(s.since.by, "train")
      OBVIOUS
    <3>2. IsWritten(d, "checkpoints")
      BY <2>1, <2>4 DEF IsWritten
    <3>3. IsOf(lately[d], "checkpoints", disk[d]["checkpoints"], disk[d]["gru"])
      BY <1>8, <2>1, <2>6, <3>1, <3>2 DEF TrainingOK
    <3>4. QED
      BY <2>1, <3>3 DEF IsOf
  <2>8. disk[d]["checkpoints"].training = s.since.by => disk[d]["mlp"] = Made(s.since.by, "train")
    <3>1. SUFFICES ASSUME disk[d]["checkpoints"].training = s.since.by
                   PROVE  disk[d]["mlp"] = Made(s.since.by, "train")
      OBVIOUS
    <3>2. Is(disk[d]["checkpoints"], s.since.by)
      BY <2>2, <3>1 DEF Is
    <3>3. InOrder(d, s.since.by)
      BY <2>1, <2>6 DEF TrainingOK
    <3>4. Rank["mlp"] < Rank["checkpoints"] /\ "mlp" \in Early
      BY DEF Rank, Early
    <3>5. QED
      BY <1>8, <3>2, <3>3, <3>4 DEF InOrder
  <2>9. QED
    BY <2>2, <2>5, <2>7, <2>8 DEF Made
<1>10. ASSUME NEW split \in EvaluatedSplits, NEW m, m = s.found[split]
       PROVE  m.variant = "best" /\ (m.own => m.from["mlp"].data = "train")
  BY <1>3, <1>4, <1>8, <1>10 DEF MetricsAre
<1>11. IsOfItsCheckpoints(row)
  BY <1>7, <1>9, <1>10 DEF IsOfItsCheckpoints
<1>12. QED
  BY <1>6, <1>11

LEMMA AddRunStep ==
  ASSUME LearningInv, NEW p \in Evaluators, AddRun(p) PROVE LearningInv'
<1>1. /\ Does(p, "scans") /\ program[p].next = <<>> /\ DOMAIN program[p].found # {}
      /\ disk' = disk /\ ablations' = ablations /\ lately' = lately
  BY DEF AddRun
<1>2. LearningTypeOK /\ RowsAreOfTheirCheckpoints' /\ p \in Programs /\ DOMAIN program = Programs
  BY <1>1 DEF LearningInv, RowsAreOfTheirCheckpoints, Programs, LearningTypeOK
<1>3. PICK s, row : s = program[p] /\ row = Row(p)
  OBVIOUS
<1>4. /\ DOMAIN s = {"does", "todo", "next", "found", "rows", "since", "quiet"} /\ s.does = "scans"
      /\ s.todo \in Seq(Ablations) /\ s.todo # <<>> /\ Recalls(s.since, s.quiet)
      /\ \A r \in s.rows : IsOfItsCheckpoints(r)
  BY <1>1, <1>2, <1>3 DEF LearningInv, ScannerOK, Does
<1>5. Tail(s.todo) \in Seq(Ablations)
  BY <1>4, Shrinks
<1>6. IsOfItsCheckpoints(row)
  BY <1>1, <1>3, RowIsRight
<1>7. PICK does : does = [s EXCEPT !.todo = Tail(s.todo), !.found = <<>>, !.rows = s.rows \cup {row}]
  OBVIOUS
<1>8. program' = [program EXCEPT ![p] = does]
  BY <1>3, <1>7 DEF AddRun
<1>9. /\ does.does = "scans" /\ does.todo = Tail(s.todo) /\ does.next = <<>> /\ does.found = <<>>
      /\ does.rows = s.rows \cup {row} /\ does.since = s.since /\ does.quiet = s.quiet
      /\ DOMAIN does = {"does", "todo", "next", "found", "rows", "since", "quiet"}
  BY <1>1, <1>3, <1>4, <1>7
<1>10. program'[p] = does
  BY <1>2, <1>8
<1>11. Recalls(does.since, does.quiet)'
  <2>1. PICK since, quiet : since = s.since /\ quiet = s.quiet
    OBVIOUS
  <2>2. Recalls(since, quiet)'
    BY <1>1, <1>2, <1>4, <1>8, <2>1, RecallsAfter
  <2>3. QED
    BY <1>9, <2>1, <2>2
<1>12. \A r \in does.rows : IsOfItsCheckpoints(r)
  BY <1>4, <1>6, <1>9
<1>13. <<>> \in Seq(RunFiles) /\ DOMAIN <<>> = {}
  OBVIOUS
<1>14. ScannerOK(p)'
  BY <1>5, <1>9, <1>10, <1>11, <1>12, <1>13 DEF ScannerOK, IsOfItsCheckpoints
<1>15. EvaluatorOK(p)'
  BY <1>9, <1>10 DEF EvaluatorOK, Does
<1>16. QED
  BY <1>1, <1>2, <1>8, <1>9, <1>14, <1>15, EvaluatorMoves

\* What is loaded is what is at its place, and of an evaluation without a path that is
\* given it is what the last training has left there.
LEMMA LoadModelStep ==
  ASSUME LearningInv, NEW p \in Evaluators, LoadModel(p) PROVE LearningInv'
<1>1. PICK e, role, place, content :
        /\ e = program[p] /\ role = Head(e.todo) /\ place = e.places[role]
        /\ content = disk[place.in][place.file]
  OBVIOUS
<1>2. PICK todo : todo = IF Len(e.todo) = 1 THEN <<"validation", "test">> ELSE Tail(e.todo)
  OBVIOUS
<1>3. /\ Does(p, "evaluates") /\ e.todo # <<>> /\ role \in Roles
      /\ disk' = disk /\ ablations' = ablations /\ lately' = lately
  BY <1>1 DEF LoadModel
<1>4. p \in Programs /\ DOMAIN program = Programs /\ RowsAreOfTheirCheckpoints'
  BY <1>3 DEF LearningInv, LearningTypeOK, Programs, RowsAreOfTheirCheckpoints
<1>5. /\ p \in Evaluators /\ e.does = "evaluates"
      /\ DOMAIN e = {"does", "in", "variant", "suffix", "places", "todo", "loaded", "since", "quiet"}
      /\ e.in \in Directories /\ e.variant \in Variants /\ e.suffix \in BOOLEAN
      /\ e.places \in [Roles -> [in : Directories, file : Models]]
      /\ \/ e.todo \in Seq(Roles) /\ e.todo # <<>>
         \/ e.todo \in Seq(EvaluatedSplits) /\ Remaining(p) \cap Roles = {}
      /\ Roles \subseteq Remaining(p) \cup DOMAIN e.loaded /\ DOMAIN e.loaded \subseteq Roles
      /\ \A r \in Remaining(p) \cap Roles : disk[e.places[r].in][e.places[r].file] # NoFile
      /\ \A r \in DOMAIN e.loaded : e.loaded[r] \notin {NoFile, Broken}
      /\ OfItsOwn(e) /\ e.variant = "best" /\ "mlp" \in DOMAIN e.loaded => e.loaded["mlp"].data = "train"
      /\ Recalls(e.since, e.quiet)
      /\ OfItsOwn(e) /\ e.quiet /\ e.since.alone /\ lately[e.in] = e.since =>
           \A r \in DOMAIN e.loaded : e.loaded[r] = disk[e.in][FileOf(r, e.variant)]
  BY <1>1, <1>3, <1>4 DEF LearningInv, EvaluatorOK, Does
<1>6. IF content = Broken THEN program' = [program EXCEPT ![p] = Ended]
      ELSE program' = [program EXCEPT ![p].loaded = With(@, role, content), ![p].todo = todo]
  BY <1>1, <1>2 DEF LoadModel, LoadsFrom, Ends
<1>7. CASE content = Broken
  BY <1>3, <1>4, <1>6, <1>7, EvaluatorEnds
<1>8. CASE content # Broken
  <2>1. PICK before, loaded : before = e.loaded /\ loaded = With(before, role, content)
    OBVIOUS
  <2>2. PICK does : does = [e EXCEPT !.loaded = loaded, !.todo = todo]
    OBVIOUS
  <2>3. program' = [program EXCEPT ![p] = does]
    <3>1. program' = [program EXCEPT ![p].loaded = loaded, ![p].todo = todo]
      BY <1>1, <1>6, <1>8, <2>1
    <3>2. QED
      BY <1>1, <1>4, <2>2, <3>1
  <2>4. /\ does.does = "evaluates" /\ does.in = e.in /\ does.variant = e.variant /\ does.suffix = e.suffix
        /\ does.places = e.places /\ does.since = e.since /\ does.quiet = e.quiet
        /\ does.todo = todo /\ does.loaded = loaded
        /\ DOMAIN does = {"does", "in", "variant", "suffix", "places", "todo", "loaded", "since", "quiet"}
    BY <1>5, <2>2
  <2>5. program'[p] = does
    BY <1>4, <2>3
  <2>6. /\ DOMAIN loaded = DOMAIN e.loaded \cup {role} /\ loaded[role] = content
        /\ \A r \in DOMAIN e.loaded : r # role => loaded[r] = e.loaded[r]
    <3>1. /\ DOMAIN loaded = DOMAIN before \cup {role} /\ loaded[role] = content
          /\ \A r \in DOMAIN before : r # role => loaded[r] = before[r]
      BY <2>1 DEF With
    <3>2. QED
      BY <2>1, <3>1
  <2>7. e.todo \in Seq(Roles) /\ Remaining(p) = {role} \cup Members(Tail(e.todo))
    <3>1. e.todo \in Seq(EvaluatedSplits) => role \in EvaluatedSplits
      BY <1>1, <1>3, Shrinks
    <3>2. e.todo \in Seq(Roles)
      BY <1>3, <1>5, <3>1, FileNames
    <3>3. QED
      BY <1>1, <1>3, <3>2, Shrinks DEF Remaining
  <2>8. content # NoFile
    BY <1>1, <1>3, <1>5, <2>7
  <2>9. /\ \/ todo \in Seq(Roles) /\ todo # <<>>
           \/ todo \in Seq(EvaluatedSplits) /\ Members(todo) \cap Roles = {}
        /\ Remaining(p) \subseteq {role} \cup Members(todo) /\ Members(todo) \cap Roles \subseteq Remaining(p)
    <3>1. Tail(e.todo) \in Seq(Roles) /\ Len(Tail(e.todo)) = Len(e.todo) - 1 /\ Len(e.todo) \in Nat \ {0}
      BY <1>3, <2>7
    <3>2. CASE Len(e.todo) = 1
      <4>1. todo = <<"validation", "test">>
        BY <1>2, <3>2
      <4>2. todo \in Seq(EvaluatedSplits) /\ DOMAIN todo = 1 .. 2 /\ todo[1] = "validation" /\ todo[2] = "test"
        BY <4>1 DEF EvaluatedSplits
      <4>3. Members(todo) \cap Roles = {}
        BY <4>2 DEF Roles, Members
      <4>4. DOMAIN Tail(e.todo) = {}
        <5>1. DOMAIN Tail(e.todo) = 1 .. Len(Tail(e.todo)) /\ Len(Tail(e.todo)) = 0 /\ 1 .. 0 = {}
          BY <3>1, <3>2
        <5>2. QED
          BY <5>1
      <4>5. QED
        BY <2>7, <4>2, <4>3, <4>4 DEF Members
    <3>3. CASE Len(e.todo) # 1
      <4>1. todo = Tail(e.todo)
        BY <1>2, <3>3
      <4>2. Len(todo) # 0 /\ Len(<<>>) = 0
        BY <3>1, <3>3, <4>1
      <4>3. todo \in Seq(Roles) /\ todo # <<>>
        BY <3>1, <4>1, <4>2
      <4>4. QED
        BY <2>7, <4>1, <4>3
    <3>4. QED
      BY <3>2, <3>3
  <2>10. ASSUME OfItsOwn(e) PROVE place.in = e.in /\ place.file = FileOf(role, e.variant)
    BY <1>1, <1>3, <2>10 DEF OfItsOwn, OwnPlaces
  <2>11. ASSUME OfItsOwn(e), e.variant = "best", "mlp" \in DOMAIN loaded PROVE loaded["mlp"].data = "train"
    <3>1. CASE role = "mlp"
      <4>1. content = disk[e.in]["mlp"]
        BY <1>1, <2>10, <2>11, <3>1 DEF FileOf
      <4>2. content \in {NoFile, Broken} \/ content.data = "train"
        BY <1>5, <4>1 DEF LearningInv
      <4>3. QED
        BY <1>8, <2>6, <2>8, <3>1, <4>2
    <3>2. CASE role # "mlp"
      BY <1>5, <2>6, <2>11, <3>2
    <3>3. QED
      BY <3>1, <3>2
  <2>12. ASSUME OfItsOwn(e), e.quiet, e.since.alone, lately[e.in] = e.since, NEW r \in DOMAIN loaded
         PROVE  loaded[r] = disk'[e.in][FileOf(r, e.variant)]
    <3>1. CASE r = role
      BY <1>1, <1>3, <2>6, <2>10, <2>12, <3>1
    <3>2. CASE r # role
      BY <1>3, <1>5, <2>6, <2>12, <3>2
    <3>3. QED
      BY <3>1, <3>2
  <2>13. Recalls(does.since, does.quiet)'
    <3>1. PICK since, quiet : since = e.since /\ quiet = e.quiet
      OBVIOUS
    <3>2. LearningTypeOK /\ UNCHANGED <<disk, lately>>
      BY <1>3 DEF LearningInv
    <3>3. Recalls(since, quiet)'
      BY <1>5, <2>3, <3>1, <3>2, RecallsAfter
    <3>4. QED
      BY <2>4, <3>1, <3>3
  <2>14. OfItsOwn(does) <=> OfItsOwn(e)
    BY <2>4 DEF OfItsOwn
  <2>15. Remaining(p)' = Members(todo)
    BY <2>4, <2>5 DEF Remaining
  <2>16. EvaluatorOK(p)'
    <3>1. /\ Roles \subseteq Members(todo) \cup DOMAIN loaded /\ DOMAIN loaded \subseteq Roles
          /\ \A r \in DOMAIN loaded : loaded[r] \notin {NoFile, Broken}
      BY <1>3, <1>5, <1>8, <2>6, <2>8, <2>9
    <3>2. \A r \in Members(todo) \cap Roles : disk'[e.places[r].in][e.places[r].file] # NoFile
      BY <1>3, <1>5, <2>9
    <3>3. OfItsOwn(e) /\ e.quiet /\ e.since.alone /\ lately'[e.in] = e.since =>
            \A r \in DOMAIN loaded : loaded[r] = disk'[e.in][FileOf(r, e.variant)]
      BY <1>3, <2>12
    <3>4. QED
      BY <1>5, <2>4, <2>5, <2>9, <2>11, <2>13, <2>14, <2>15, <3>1, <3>2, <3>3 DEF EvaluatorOK
  <2>17. ScannerOK(p)'
    BY <2>4, <2>5 DEF ScannerOK, Does
  <2>18. QED
    BY <1>3, <1>4, <2>3, <2>4, <2>16, <2>17, EvaluatorMoves
<1>9. QED
  BY <1>7, <1>8

\* What a training that was alone has left, ended or not, is judged together.
LEMMA JudgedOfDisk ==
  ASSUME LearningInv, NEW d \in Directories, NEW m, m.since = lately[d], m.since # Untrained, m.since.alone,
         ~Does(m.since.by, "trains"), m.variant \in Variants,
         \A role \in Roles : m.from[role] = disk[d][FileOf(role, m.variant)] /\ m.from[role] \notin {NoFile, Broken}
  PROVE  JudgedTogether(m)
<1>1. PICK by, mlp, gru : by = m.since.by /\ mlp = FileOf("mlp", m.variant) /\ gru = FileOf("gru", m.variant)
  OBVIOUS
<1>2. TrainingOK(d) /\ \A f \in Trained : IsWritten(d, f)
  BY DEF LearningInv, IsWritten
<1>3. InOrder(d, by)
  BY <1>1, <1>2 DEF TrainingOK
<1>4. m.since.ended => \A f \in Trained : IsOf(lately[d], f, disk[d][f], disk[d]["gru"])
  BY <1>2 DEF TrainingOK
<1>5. /\ m.from["scaler"] = disk[d]["scaler"] /\ m.from["threshold"] = disk[d]["threshold"]
      /\ m.from["mlp"] = disk[d][mlp] /\ m.from["gru"] = disk[d][gru]
      /\ m.from["mlp"] \notin {NoFile, Broken} /\ m.from["gru"] \notin {NoFile, Broken}
  BY <1>1 DEF Roles, FileOf
<1>6. /\ mlp \in {"mlp", "mlp_final"} /\ gru \in {"gru", "gru_final"} /\ mlp \in Trained /\ gru \in Trained
      /\ m.variant = "best" => mlp = "mlp" /\ gru = "gru"
      /\ m.variant = "trainval_final" => mlp = "mlp_final"
  BY <1>1 DEF FileOf, Trained, Models, Variants
<1>7. /\ Rank["scaler"] < Rank[mlp] /\ Rank["threshold"] < Rank[mlp]
      /\ Rank["scaler"] < Rank[gru] /\ Rank["threshold"] < Rank[gru] /\ Rank["mlp"] < Rank[gru]
      /\ "scaler" \in Early /\ "threshold" \in Early /\ "mlp" \in Early
  BY <1>6 DEF Rank, Early
<1>8. m.from["mlp"].training = by \/ m.from["gru"].training = by =>
        m.from["scaler"] = Made(by, "train") /\ m.from["threshold"] = Made(by, "train")
  BY <1>3, <1>5, <1>6, <1>7 DEF InOrder, Is
<1>9. m.variant = "best" /\ m.from["gru"].training = by => m.from["mlp"] = Made(by, "train")
  BY <1>3, <1>5, <1>6, <1>7 DEF InOrder, Is
<1>10. ASSUME m.since.ended
       PROVE  /\ m.from["scaler"] = Made(by, "train") /\ m.from["threshold"] = Made(by, "train")
              /\ m.variant = "best" =>
                   /\ m.from["mlp"] = Made(by, "train")
                   /\ m.from["gru"] = Made(by, "train") \/ m.since.command.reuse # {}
              /\ m.variant = "trainval_final" /\ m.since.command.final =>
                   m.from["mlp"] = FixedEpochs(by, Made(by, "train"))
  <2>1. /\ IsOf(lately[d], "scaler", disk[d]["scaler"], disk[d]["gru"])
        /\ IsOf(lately[d], "threshold", disk[d]["threshold"], disk[d]["gru"])
        /\ IsOf(lately[d], mlp, disk[d][mlp], disk[d]["gru"])
        /\ IsOf(lately[d], gru, disk[d][gru], disk[d]["gru"])
    BY <1>4, <1>6, <1>10 DEF Trained, Models
  <2>2. disk[d]["scaler"] = Made(by, "train") /\ disk[d]["threshold"] = Made(by, "train")
    BY <1>1, <2>1 DEF IsOf
  <2>3. ASSUME m.variant = "best"
        PROVE  disk[d][mlp] = Made(by, "train") /\ (disk[d][gru] = Made(by, "train") \/ m.since.command.reuse # {})
    BY <1>1, <1>6, <2>1, <2>3 DEF IsOf
  <2>4. ASSUME m.variant = "trainval_final", m.since.command.final
        PROVE  disk[d][mlp] = FixedEpochs(by, Made(by, "train"))
    BY <1>1, <1>6, <2>1, <2>4 DEF IsOf
  <2>5. QED
    BY <1>5, <2>2, <2>3, <2>4
<1>11. QED
  BY <1>1, <1>8, <1>9, <1>10 DEF JudgedTogether

\* Metrics that are written are of what was loaded.
LEMMA SavesMetricsStep ==
  ASSUME LearningInv, NEW p \in Evaluators, NEW split \in EvaluatedSplits, SavesMetrics(p, split)
  PROVE  LearningInv'
<1>1. PICK e, d, path, m :
        /\ e = program[p] /\ d = e.in /\ path = Output(split, e.variant, e.suffix) /\ m = Metadata(p)
  OBVIOUS
<1>2. /\ Does(p, "evaluates") /\ e.todo # <<>> /\ Head(e.todo) = split
      /\ Saves(d, path, m) /\ program' = [program EXCEPT ![p].todo = Tail(e.todo)]
      /\ ablations' = ablations /\ lately' = lately
  BY <1>1 DEF SavesMetrics, Remains
<1>3. LearningTypeOK /\ p \in Programs /\ DOMAIN program = Programs /\ RowsAreOfTheirCheckpoints'
  BY <1>2 DEF LearningInv, LearningTypeOK, Programs, RowsAreOfTheirCheckpoints
<1>4. /\ e.does = "evaluates"
      /\ DOMAIN e = {"does", "in", "variant", "suffix", "places", "todo", "loaded", "since", "quiet"}
      /\ e.in \in Directories /\ e.variant \in Variants /\ e.suffix \in BOOLEAN
      /\ e.places \in [Roles -> [in : Directories, file : Models]]
      /\ \/ e.todo \in Seq(Roles) /\ e.todo # <<>>
         \/ e.todo \in Seq(EvaluatedSplits) /\ Remaining(p) \cap Roles = {}
      /\ Roles \subseteq Remaining(p) \cup DOMAIN e.loaded /\ DOMAIN e.loaded \subseteq Roles
      /\ \A r \in DOMAIN e.loaded : e.loaded[r] \notin {NoFile, Broken}
      /\ OfItsOwn(e) /\ e.variant = "best" /\ "mlp" \in DOMAIN e.loaded => e.loaded["mlp"].data = "train"
      /\ Recalls(e.since, e.quiet)
      /\ OfItsOwn(e) /\ e.quiet /\ e.since.alone /\ lately[e.in] = e.since =>
           \A r \in DOMAIN e.loaded : e.loaded[r] = disk[e.in][FileOf(r, e.variant)]
  BY <1>1, <1>2, <1>3 DEF LearningInv, EvaluatorOK, Does
<1>5. path \in MetricsFiles /\ path \in Files /\ path \notin Trained
  BY <1>1, <1>4, FileNames
<1>6. d \in Directories
  BY <1>1, <1>4
<1>7. /\ DOMAIN disk' = Directories /\ \A c \in Directories : DOMAIN disk'[c] = Files
      /\ disk'[d][path] = m
      /\ \A c \in Directories, g \in Files : c # d \/ g # path => disk'[c][g] = disk[c][g]
  BY <1>2, <1>3, <1>5, <1>6, SavesEffect
<1>8. /\ e.todo \in Seq(EvaluatedSplits) /\ Tail(e.todo) \in Seq(EvaluatedSplits)
      /\ Remaining(p) \cap Roles = {} /\ Members(Tail(e.todo)) \subseteq Remaining(p)
  <2>1. e.todo \in Seq(Roles) => Head(e.todo) \in Roles
    BY <1>2, Shrinks
  <2>2. e.todo \in Seq(EvaluatedSplits) /\ Remaining(p) \cap Roles = {}
    BY <1>2, <1>4, <2>1, FileNames
  <2>3. QED
    BY <1>1, <1>2, <2>2, Shrinks DEF Remaining
<1>9. DOMAIN e.loaded = Roles
  BY <1>4, <1>8
<1>10. PICK rest, does : rest = Tail(e.todo) /\ does = [e EXCEPT !.todo = rest]
  OBVIOUS
<1>11. /\ does.does = "evaluates" /\ does.in = e.in /\ does.variant = e.variant /\ does.suffix = e.suffix
       /\ does.places = e.places /\ does.since = e.since /\ does.quiet = e.quiet
       /\ does.todo = rest /\ does.loaded = e.loaded
       /\ DOMAIN does = {"does", "in", "variant", "suffix", "places", "todo", "loaded", "since", "quiet"}
  BY <1>4, <1>10
<1>12. program' = [program EXCEPT ![p] = does]
  BY <1>1, <1>2, <1>10
<1>13. program'[p] = does /\ DOMAIN program' = Programs /\ \A q \in Programs : q # p => program'[q] = program[q]
  BY <1>3, <1>12
<1>14. LearningTypeOK'
  BY <1>2, <1>3, <1>7, <1>13 DEF LearningTypeOK
<1>15. \A c \in Directories, f \in Trained : disk'[c][f] = disk[c][f]
  BY <1>5, <1>7, FileNames
<1>16. /\ m.since = e.since /\ m.from = e.loaded /\ m.variant = e.variant /\ m.own = OfItsOwn(e)
       /\ m.settled = (OfItsOwn(e) /\ e.quiet /\ e.since.alone /\ lately[d] = e.since)
       /\ m # NoFile
  <2>1. /\ m.since = e.since /\ m.from = e.loaded /\ m.variant = e.variant /\ m.own = OfItsOwn(e)
        /\ m.settled = (OfItsOwn(e) /\ e.quiet /\ e.since.alone /\ lately[d] = e.since)
    BY <1>1 DEF Metadata
  <2>2. "variant" \in DOMAIN m /\ "variant" \notin DOMAIN NoFile
    BY <1>1 DEF Metadata, NoFile
  <2>3. QED
    BY <2>1, <2>2
<1>17. StepLeaves
  BY <1>2, <1>5, <1>7, <1>13, <1>14, <1>15, <1>16, FileNames, EvaluatorLeaves
<1>18. MetricsAre(d, path, m)
  <2>1. ASSUME path \in EvaluatedSplits PROVE m.variant = "best" /\ (m.own => m.from["mlp"].data = "train")
    <3>1. e.variant = "best"
      BY <1>1, <1>4, <2>1 DEF EvaluatedSplits, Output, Variants
    <3>2. "mlp" \in Roles
      BY DEF Roles
    <3>3. QED
      BY <1>4, <1>9, <1>16, <3>1, <3>2
  <2>2. ASSUME m.settled
        PROVE  /\ m.since \in Start /\ m.since.alone /\ program[m.since.by] # Ready /\ JudgedTogether(m)
               /\ lately[d] = m.since /\ ~Does(m.since.by, "trains")
               /\ \A role \in Roles : m.from[role] = disk[d][FileOf(role, m.variant)]
    <3>1. OfItsOwn(e) /\ e.quiet /\ e.since.alone /\ lately[d] = e.since
      BY <1>16, <2>2, Zenon
    <3>2. e.since # Untrained
      BY <3>1, UntrainedIsNotAlone
    <3>3. e.since \in Start /\ program[e.since.by] # Ready /\ ~Does(e.since.by, "trains")
      BY <1>4, <3>1, <3>2 DEF Recalls
    <3>4. \A role \in Roles : m.from[role] = disk[d][FileOf(role, m.variant)]
      BY <1>1, <1>4, <1>9, <1>16, <3>1
    <3>5. \A role \in Roles : m.from[role] \notin {NoFile, Broken}
      BY <1>4, <1>9, <1>16
    <3>6. JudgedTogether(m)
      BY <1>4, <1>6, <1>16, <3>1, <3>2, <3>3, <3>4, <3>5, JudgedOfDisk
    <3>7. QED
      BY <1>16, <3>1, <3>3, <3>4, <3>6
  <2>3. QED
    BY <1>4, <1>16, <2>1, <2>2 DEF MetricsAre
<1>19. disk'[d][path] # NoFile /\ MetricsOK(d, path)'
  <2>1. MetricsAre(d, path, m)'
    BY <1>6, <1>17, <1>18, MetricsStay
  <2>2. QED
    BY <1>7, <1>16, <2>1 DEF MetricsOK
<1>20. EvaluatorOK(p)'
  <2>1. Remaining(p)' = Members(rest) /\ Members(rest) \cap Roles = {}
    BY <1>8, <1>10, <1>11, <1>13 DEF Remaining
  <2>2. Recalls(does.since, does.quiet)'
    <3>1. PICK since, quiet : since = e.since /\ quiet = e.quiet
      OBVIOUS
    <3>2. Recalls(since, quiet)'
      BY <1>4, <1>17, <3>1, RecallsStay
    <3>3. QED
      BY <1>11, <3>1, <3>2
  <2>3. OfItsOwn(does) <=> OfItsOwn(e)
    BY <1>11 DEF OfItsOwn
  <2>4. OfItsOwn(e) /\ e.quiet /\ e.since.alone /\ lately'[e.in] = e.since =>
          \A r \in DOMAIN e.loaded : e.loaded[r] = disk'[e.in][FileOf(r, e.variant)]
    BY <1>2, <1>4, <1>9, <1>15, FileNames
  <2>5. \A r \in Members(rest) \cap Roles : disk'[e.places[r].in][e.places[r].file] # NoFile
    BY <2>1
  <2>6. \/ does.todo \in Seq(Roles) /\ does.todo # <<>>
        \/ does.todo \in Seq(EvaluatedSplits) /\ Members(rest) \cap Roles = {}
    BY <1>8, <1>10, <1>11, <2>1
  <2>7. Roles \subseteq Members(rest) \cup DOMAIN e.loaded /\ DOMAIN e.loaded \subseteq Roles
    BY <1>9
  <2>8. /\ e.in \in Directories /\ e.variant \in Variants /\ e.suffix \in BOOLEAN
        /\ e.places \in [Roles -> [in : Directories, file : Models]]
        /\ \A r \in DOMAIN e.loaded : e.loaded[r] \notin {NoFile, Broken}
        /\ OfItsOwn(e) /\ e.variant = "best" /\ "mlp" \in DOMAIN e.loaded => e.loaded["mlp"].data = "train"
    BY <1>4
  <2>9. QED
    BY <1>11, <1>13, <2>1, <2>2, <2>3, <2>4, <2>5, <2>6, <2>7, <2>8 DEF EvaluatorOK
<1>21. ScannerOK(p)' /\ program'[p].does # "trains"
  BY <1>11, <1>13 DEF ScannerOK, Does
<1>22. \A c \in Directories, f \in MetricsFiles :
         disk'[c][f] = disk[c][f] \/ (disk'[c][f] # NoFile /\ MetricsOK(c, f)')
  BY <1>7, <1>19, FileNames
<1>23. QED
  BY <1>2, <1>3, <1>13, <1>14, <1>15, <1>20, <1>21, <1>22, EvaluatorFrame

\* An evaluation that is killed may leave the metrics it was writing broken.
LEMMA KillEvaluatorStep ==
  ASSUME LearningInv, NEW p \in Evaluators, KillProgram(p) PROVE LearningInv'
<1>1. /\ program[p] \notin {Ready, Ended} /\ program' = [program EXCEPT ![p] = Killed]
      /\ ablations' = ablations /\ lately' = lately
  BY DEF KillProgram
<1>2. LearningTypeOK /\ p \in Programs /\ p \notin Trainers /\ TrainerOK(p) /\ EvaluatorOK(p)
  BY FilesAssumption DEF LearningInv, Programs
<1>3. DOMAIN program' = Programs /\ program'[p] = Killed /\ \A q \in Programs : q # p => program'[q] = program[q]
  BY <1>1, <1>2, ProgramEffect
<1>4. /\ DOMAIN disk' = Directories /\ \A c \in Directories : DOMAIN disk'[c] = Files
      /\ \A c \in Directories, f \in Trained : disk'[c][f] = disk[c][f]
      /\ \A c \in Directories, f \in MetricsFiles :
           disk'[c][f] = disk[c][f] \/ (disk'[c][f] # NoFile /\ MetricsOK(c, f)')
  <2>1. CASE disk' = disk
    BY <1>2, <2>1, FileNames DEF LearningTypeOK
  <2>2. CASE disk' # disk
    <3>1. PICK e, next : e = program[p] /\ next = Head(e.todo)
      OBVIOUS
    <3>2. /\ e.todo # <<>>
          /\ IF Does(p, "trains") THEN Saves(e.in, next, Broken)
             ELSE next \notin Roles /\ Saves(e.in, Output(next, e.variant, e.suffix), Broken)
          /\ Does(p, "trains") \/ Does(p, "evaluates")
      BY <2>2, <3>1 DEF KillProgram, Does
    <3>3. ~Does(p, "trains") /\ Does(p, "evaluates")
      BY <1>2, <3>2 DEF TrainerOK
    <3>4. /\ e.variant \in Variants /\ e.in \in Directories /\ e.suffix \in BOOLEAN
          /\ \/ e.todo \in Seq(Roles) \/ e.todo \in Seq(EvaluatedSplits)
      BY <1>2, <3>1, <3>3 DEF EvaluatorOK
    <3>5. next \in EvaluatedSplits
      BY <3>1, <3>2, <3>3, <3>4, Shrinks
    <3>6. PICK d \in Directories, f \in MetricsFiles : d = e.in /\ f = Output(next, e.variant, e.suffix)
      BY <3>4, <3>5, FileNames
    <3>7. f \in Files /\ f \notin Trained /\ Saves(d, f, Broken)
      BY <3>2, <3>3, <3>6, FileNames
    <3>8. /\ DOMAIN disk' = Directories /\ \A c \in Directories : DOMAIN disk'[c] = Files
          /\ disk'[d][f] = Broken
          /\ \A c \in Directories, g \in Files : c # d \/ g # f => disk'[c][g] = disk[c][g]
      BY <1>2, <3>7, SavesEffect
    <3>9. disk'[d][f] # NoFile /\ MetricsOK(d, f)'
      BY <3>8, MadeIsAFile DEF MetricsOK
    <3>10. QED
      BY <3>7, <3>8, <3>9, FileNames
  <2>3. QED
    BY <2>1, <2>2
<1>5. LearningTypeOK'
  BY <1>1, <1>2, <1>3, <1>4 DEF LearningTypeOK
<1>6. EvaluatorOK(p)' /\ ScannerOK(p)' /\ program'[p].does # "trains"
  BY <1>3, ProgramStates DEF EvaluatorOK, ScannerOK, Does
<1>7. RowsAreOfTheirCheckpoints'
  BY <1>1 DEF LearningInv, RowsAreOfTheirCheckpoints
<1>8. QED
  BY <1>1, <1>3, <1>4, <1>5, <1>6, <1>7, EvaluatorFrame

\* What becomes of a directory in which p does not train: nothing.
LEMMA OtherDirectory ==
  ASSUME LearningInv, NEW p \in Trainers, NEW e \in Directories, lately'[e] = lately[e],
         \A q \in Programs : q # p => program'[q] = program[q],
         \A f \in Trained : disk'[e][f] = disk[e][f],
         lately[e] # Untrained => lately[e].by # p,
         ~(program'[p].does = "trains" /\ program'[p].in = e)
  PROVE  TrainingOK(e)'
<1>1. TrainingOK(e)
  BY DEF LearningInv
<1>2. SUFFICES ASSUME lately[e] # Untrained PROVE TrainingOK(e)'
  BY <1>1 DEF TrainingOK
<1>3. PICK by : by = lately[e].by
  OBVIOUS
<1>4. by \in Trainers /\ by \in Programs /\ by # p
  BY <1>2, <1>3 DEF LearningInv, LearningTypeOK, Start, Programs
<1>5. program'[by] = program[by]
  BY <1>4
<1>6. Remaining(by)' = Remaining(by) /\ (Does(by, "trains")' <=> Does(by, "trains"))
  BY <1>5 DEF Remaining, Does
<1>7. \A f \in Trained : IsWritten(e, f)' <=> IsWritten(e, f)
  BY <1>3, <1>5, <1>6 DEF IsWritten, Does, Remaining
<1>8. InOrder(e, by)' <=> InOrder(e, by)
  BY FileNames DEF InOrder
<1>9. Does(by, "trains") => Remaining(by) \subseteq Trained
  BY <1>4, RemainingAreTrained DEF LearningInv
<1>10. "gru" \in Trained
  BY DEF Trained, Models
<1>11. ASSUME lately[e].alone, NEW q \in Trainers, Does(q, "trains")', program'[q].in = e PROVE q = by
  <2>1. q # p
    BY <1>11 DEF Does
  <2>2. program'[q] = program[q]
    BY <2>1 DEF Programs
  <2>3. QED
    BY <1>1, <1>2, <1>3, <1>11, <2>2 DEF TrainingOK, Does
<1>12. /\ program[by] # Ready /\ (lately[e].ended => program[by] = Ended)
       /\ Does(by, "trains") =>
            /\ program[by].in = e /\ program[by].reuse = lately[e].command.reuse
            /\ lately[e].command.final /\ "gru" \in Remaining(by) => "gru_final" \in Remaining(by)
            /\ lately[e].alone /\ "gru" \notin Remaining(by) => program[by].gru = disk[e]["gru"]
       /\ lately[e].alone =>
            /\ Does(by, "trains") \/ lately[e].ended =>
                 \A f \in Trained : IsWritten(e, f) => IsOf(lately[e], f, disk[e][f], disk[e]["gru"])
            /\ Does(by, "trains") => \A f \in Remaining(by) : ~Is(disk[e][f], by)
            /\ InOrder(e, by)
  BY <1>1, <1>2, <1>3 DEF TrainingOK
<1>13. lately'[e].by = by /\ lately'[e] # Untrained
  BY <1>2, <1>3
<1>14. QED
  BY <1>3, <1>5, <1>6, <1>7, <1>8, <1>9, <1>10, <1>11, <1>12, <1>13 DEF TrainingOK, Does, Remaining, InOrder

\* A step of a training in d, which changes nothing but its own files there: nothing
\* that settled, and nothing of another training that is alone, is in that directory.
LEMMA TrainerFrame ==
  ASSUME LearningInv, NEW p \in Trainers, NEW d \in Directories, Does(p, "trains"), program[p].in = d,
         LearningTypeOK', ablations' = ablations,
         \A q \in Programs : q # p => program'[q] = program[q],
         TrainerOK(p)', program'[p] # Ready, program'[p].does \notin {"evaluates", "scans"},
         program'[p].does = "trains" => program'[p].in = d,
         \A e \in Directories : e # d => lately'[e] = lately[e],
         lately'[d] = lately[d] \/ (lately[d].by = p /\ lately'[d].by = p),
         \A e \in Directories, f \in Files : e # d \/ f \notin Trained => disk'[e][f] = disk[e][f],
         \A f \in Trained : disk'[d][f] = disk[d][f] \/ disk'[d][f] # NoFile,
         disk'[d]["mlp"] \in {NoFile, Broken} \/ disk'[d]["mlp"].data = "train",
         \A f \in Trained : Begun(disk[d][f])',
         TrainingOK(d)'
  PROVE  LearningInv'
<1>1. p \in Programs /\ p \notin Evaluators
  BY FilesAssumption DEF Programs
<1>2. lately[d] # Untrained /\ lately[d].alone => lately[d].by = p
  BY DEF LearningInv, TrainingOK
<1>3. StepLeaves
  <2>1. \A t \in Trainers : program[t] # Ready => program'[t] # Ready /\ (Does(t, "trains")' => Does(t, "trains"))
    BY DEF Programs, Does
  <2>2. Leaves(d)
    BY <1>2, FileNames DEF Leaves
  <2>3. \A e \in Directories : e # d => Leaves(e)
    BY FileNames DEF Leaves
  <2>4. QED
    BY <2>1, <2>2, <2>3 DEF StepLeaves
<1>4. \A q \in Programs : TrainerOK(q)' /\ EvaluatorOK(q)' /\ ScannerOK(q)'
  <2> TAKE q \in Programs
  <2>1. CASE q = p
    BY <2>1 DEF EvaluatorOK, ScannerOK, Does
  <2>2. CASE q # p
    <3>1. program'[q] = program[q] /\ TrainerOK(q) /\ EvaluatorOK(q) /\ ScannerOK(q)
      BY <2>2 DEF LearningInv
    <3>2. TrainerOK(q)'
      BY <3>1 DEF TrainerOK, Does
    <3>3. QED
      BY <1>3, <3>1, <3>2, EvaluatorStays, ScannerStays
  <2>3. QED
    BY <2>1, <2>2
<1>5. ASSUME NEW e \in Directories, e # d PROVE TrainingOK(e)'
  <2>1. lately[e] # Untrained => lately[e].by # p
    BY <1>5 DEF LearningInv, TrainingOK
  <2>2. \A f \in Trained : disk'[e][f] = disk[e][f]
    BY <1>5, FileNames
  <2>3. ~(program'[p].does = "trains" /\ program'[p].in = e)
    BY <1>5
  <2>4. QED
    BY <1>5, <2>1, <2>2, <2>3, OtherDirectory
<1>6. ASSUME NEW e \in Directories
      PROVE  /\ disk'[e]["mlp"] \in {NoFile, Broken} \/ disk'[e]["mlp"].data = "train"
             /\ \A f \in Trained : Begun(disk[e][f])'
  <2>1. CASE e = d
    BY <2>1
  <2>2. CASE e # d
    <3>1. disk'[e]["mlp"] \in {NoFile, Broken} \/ disk'[e]["mlp"].data = "train"
      BY <2>2, FileNames DEF LearningInv, Trained, Models
    <3>2. ASSUME NEW f \in Trained PROVE Begun(disk[e][f])'
      <4>1. PICK content : content = disk[e][f] /\ content = disk'[e][f]
        BY <2>2, FileNames
      <4>2. Begun(content)
        BY <4>1 DEF LearningInv
      <4>3. QED
        BY <1>3, <4>1, <4>2, BegunStays
    <3>3. QED
      BY <3>1, <3>2
  <2>3. QED
    BY <2>1, <2>2
<1>7. ASSUME NEW e \in Directories, NEW f \in MetricsFiles PROVE MetricsOK(e, f)'
  <2>1. PICK m : m = disk[e][f] /\ m = disk'[e][f]
    BY FileNames
  <2>2. m \notin {NoFile, Broken} => MetricsAre(e, f, m)
    BY <2>1 DEF LearningInv, MetricsOK
  <2>3. m \notin {NoFile, Broken} => MetricsAre(e, f, m)'
    BY <1>3, <2>2, MetricsStay
  <2>4. QED
    BY <2>1, <2>3 DEF MetricsOK
<1>8. RowsAreOfTheirCheckpoints'
  BY DEF LearningInv, RowsAreOfTheirCheckpoints
<1>9. QED
  BY <1>4, <1>5, <1>6, <1>7, <1>8 DEF LearningInv

\* The first of the files that remain has the lowest rank.
LEMMA RanksGrow ==
  ASSUME NEW todo \in Seq(Trained), todo # <<>>,
         \A i, j \in DOMAIN todo : i < j => Rank[todo[i]] < Rank[todo[j]]
  PROVE  /\ \A i, j \in DOMAIN Tail(todo) : i < j => Rank[Tail(todo)[i]] < Rank[Tail(todo)[j]]
         /\ \A f \in Members(Tail(todo)) : Rank[Head(todo)] < Rank[f]
<1>1. /\ DOMAIN todo = 1 .. Len(todo) /\ DOMAIN Tail(todo) = 1 .. Len(todo) - 1
      /\ Len(todo) \in Nat \ {0} /\ Head(todo) = todo[1]
  OBVIOUS
<1>2. \A i \in 1 .. Len(todo) - 1 : Tail(todo)[i] = todo[i + 1]
  OBVIOUS
<1>3. ASSUME NEW i \in 1 .. Len(todo) - 1, NEW j \in 1 .. Len(todo) - 1, i < j
      PROVE  Rank[Tail(todo)[i]] < Rank[Tail(todo)[j]]
  <2>1. i + 1 \in DOMAIN todo /\ j + 1 \in DOMAIN todo /\ i + 1 < j + 1
    BY <1>1, <1>3
  <2>2. QED
    BY <1>2, <2>1
<1>4. ASSUME NEW i \in 1 .. Len(todo) - 1 PROVE Rank[Head(todo)] < Rank[Tail(todo)[i]]
  <2>1. 1 \in DOMAIN todo /\ i + 1 \in DOMAIN todo /\ 1 < i + 1
    BY <1>1
  <2>2. QED
    BY <1>1, <1>2, <2>1
<1>5. QED
  BY <1>1, <1>3, <1>4 DEF Members

LEMMA RankType ==
  /\ \A f \in Trained : Rank[f] \in 1 .. 7 /\ (Rank[f] = 7 <=> f = "gru_final")
  /\ Rank["gru"] = 4
<1>1. /\ Rank["scaler"] = 1 /\ Rank["threshold"] = 2 /\ Rank["mlp"] = 3 /\ Rank["gru"] = 4
      /\ Rank["checkpoints"] = 5 /\ Rank["mlp_final"] = 6 /\ Rank["gru_final"] = 7
  BY DEF Rank
<1>2. QED
  BY <1>1 DEF Trained, Models

\* A training that goes on with its next file: what it writes is its own.
LEMMA TrainerWrites ==
  ASSUME LearningInv, NEW p \in Trainers, Does(p, "trains"), program[p].todo # <<>>,
         NEW d \in Directories, d = program[p].in,
         NEW path, path = Head(program[p].todo), NEW made, NEW gru, Saves(d, path, made),
         NEW does, program' = [program EXCEPT ![p] = does],
         does.does = "trains" /\ does.in = d /\ does.reuse = program[p].reuse,
         does.todo = Tail(program[p].todo) /\ does.gru = gru,
         DOMAIN does = {"does", "in", "reuse", "gru", "todo"},
         gru = IF path = "gru" THEN made ELSE program[p].gru,
         made # NoFile, path = "mlp" => made = Broken \/ made.data = "train", Begun(made),
         UNCHANGED <<ablations, lately>>,
         lately[d] # Untrained /\ lately[d].by = p => IsOf(lately[d], path, made, gru)
  PROVE  LearningInv'
<1>1. LearningTypeOK /\ p \in Programs /\ TrainerOK(p) /\ TrainingOK(d)
  BY DEF LearningInv, Programs
<1>2. /\ program[p].reuse \in SUBSET Directories /\ program[p].todo \in Seq(Trained)
      /\ \A i, j \in DOMAIN program[p].todo :
           i < j => Rank[program[p].todo[i]] < Rank[program[p].todo[j]]
  BY <1>1 DEF TrainerOK
<1>3. path \in Trained /\ path \in Files
  BY <1>2, Shrinks, FileNames
<1>4. /\ DOMAIN disk' = Directories /\ \A e \in Directories : DOMAIN disk'[e] = Files
      /\ disk'[d][path] = made
      /\ \A e \in Directories, g \in Files : e # d \/ g # path => disk'[e][g] = disk[e][g]
  BY <1>1, <1>3, SavesEffect
<1>5. DOMAIN program' = Programs /\ program'[p] = does /\ \A q \in Programs : q # p => program'[q] = program[q]
  BY <1>1, ProgramEffect
<1>6. LearningTypeOK'
  BY <1>1, <1>4, <1>5 DEF LearningTypeOK
<1>7. /\ Tail(program[p].todo) \in Seq(Trained)
      /\ Remaining(p) = {path} \cup Remaining(p)'
      /\ Remaining(p) \subseteq Trained
  <2>1. Remaining(p)' = Members(Tail(program[p].todo))
    BY <1>5 DEF Remaining
  <2>2. Tail(program[p].todo) \in Seq(Trained)
    BY <1>2, Shrinks
  <2>3. Members(program[p].todo) =
          {Head(program[p].todo)} \cup Members(Tail(program[p].todo))
    BY <1>2, Shrinks
  <2>4. Remaining(p) = {path} \cup Remaining(p)'
    BY <2>1, <2>3, Zenon DEF Remaining
  <2>5. \A i \in DOMAIN program[p].todo : program[p].todo[i] \in Trained
    BY <1>2
  <2>6. QED
    BY <2>2, <2>4, <2>5 DEF Remaining, Members
<1>8. \A f \in Remaining(p)' : Rank[path] < Rank[f]
  <2>1. Remaining(p)' = Members(Tail(program[p].todo))
    BY <1>5 DEF Remaining
  <2>2. QED
    BY <1>2, <2>1, RanksGrow
<1>9. TrainerOK(p)'
  <2>1. \A i, j \in DOMAIN Tail(program[p].todo) :
          i < j => Rank[Tail(program[p].todo)[i]] < Rank[Tail(program[p].todo)[j]]
    BY <1>2, RanksGrow
  <2>2. /\ does.in \in Directories /\ does.reuse \in SUBSET Directories
        /\ does.todo = Tail(program[p].todo)
    BY <1>2
  <2>3. /\ program'[p].in \in Directories /\ program'[p].reuse \in SUBSET Directories
        /\ DOMAIN program'[p] = {"does", "in", "reuse", "gru", "todo"}
        /\ program'[p].todo = Tail(program[p].todo)
    BY <1>5, <2>2
  <2>4. QED
    BY <1>7, <2>1, <2>3 DEF TrainerOK
<1>10. TrainingOK(d)'
  <2>1. SUFFICES ASSUME lately[d] # Untrained PROVE TrainingOK(d)'
    BY DEF TrainingOK
  <2>2. lately[d].by \in Trainers /\ lately[d].by \in Programs
    BY <1>1, <2>1 DEF LearningTypeOK, Start, Programs
  <2>3. CASE lately[d].by # p
    <3>1. ~lately[d].alone
      BY <1>1, <2>1, <2>3 DEF TrainingOK
    <3>2. program'[lately[d].by] = program[lately[d].by]
      BY <1>5, <2>2, <2>3
    <3>3. Remaining(lately[d].by)' = Remaining(lately[d].by)
      BY <3>2 DEF Remaining
    <3>4. QED
      BY <1>1, <2>1, <3>1, <3>2, <3>3 DEF TrainingOK, Does
  <2>4. CASE lately[d].by = p
    <3>1. program[p] # Ended /\ does # Ready
      BY ProgramStates DEF Does
    <3>2. ~lately[d].ended /\ program[p].reuse = lately[d].command.reuse
      BY <1>1, <2>1, <2>4, <3>1 DEF TrainingOK
    <3>3. path \notin Remaining(p)'
      BY <1>3, <1>8, RankType
    <3>4. "gru" \in Remaining(p)' => path # "gru_final"
      BY <1>3, <1>8, RankType
    <3>5. path = "gru_final" => "gru" \notin Remaining(p)
      BY <1>7, <3>4
    <3>6. lately[d].command.final /\ "gru" \in Remaining(p) => "gru_final" \in Remaining(p)
      BY <1>1, <2>1, <2>4 DEF TrainingOK
    <3>7. lately[d].command.final /\ "gru" \in Remaining(p)' => "gru_final" \in Remaining(p)'
      BY <1>7, <3>4, <3>6
    <3>8. "gru" \in Trained /\ "gru" \in Files
      BY FileNames DEF Trained, Models
    <3>9. ASSUME lately[d].alone, "gru" \notin Remaining(p)' PROVE gru = disk'[d]["gru"]
      <4>1. CASE path = "gru"
        BY <1>4, <4>1
      <4>2. CASE path # "gru"
        <5>1. "gru" \notin Remaining(p)
          BY <1>7, <3>9, <4>2
        <5>2. program[p].gru = disk[d]["gru"]
          BY <1>1, <2>1, <2>4, <3>9, <5>1 DEF TrainingOK
        <5>3. QED
          BY <1>4, <3>8, <4>2, <5>2
      <4>3. QED
        BY <4>1, <4>2
    <3>10. ASSUME lately[d].alone, NEW f \in Trained, f \notin Remaining(p)'
           PROVE  IsOf(lately[d], f, disk'[d][f], disk'[d]["gru"])
      <4>1. CASE f = path /\ path # "gru_final"
        <5>1. IsOf(lately[d], path, made, gru)
          BY <2>1, <2>4
        <5>2. QED
          BY <1>4, <4>1, <5>1 DEF IsOf, Trained, Models
      <4>2. CASE f = path /\ path = "gru_final"
        <5>1. "gru" \notin Remaining(p)'
          BY <1>7, <3>5, <4>2
        <5>2. gru = disk'[d]["gru"]
          BY <3>9, <3>10, <5>1
        <5>3. QED
          BY <1>4, <2>1, <2>4, <4>2, <5>2
      <4>3. CASE f # path
        <5>1. f \notin Remaining(p)
          BY <1>7, <3>10, <4>3
        <5>2. IsWritten(d, f)
          BY <2>4, <5>1 DEF IsWritten
        <5>3. IsOf(lately[d], f, disk[d][f], disk[d]["gru"])
          BY <1>1, <2>1, <2>4, <3>10, <5>2 DEF TrainingOK
        <5>4. f \in Files /\ disk'[d][f] = disk[d][f]
          BY <1>4, <4>3, FileNames
        <5>5. CASE path = "gru" /\ f = "gru_final"
          <6>1. "gru" \in Remaining(p)
            BY <1>7, <5>5
          <6>2. ~lately[d].command.final
            BY <3>6, <5>1, <5>5, <6>1
          <6>3. QED
            BY <5>5, <6>2 DEF IsOf
        <5>6. CASE f # "gru_final"
          BY <5>3, <5>4, <5>6 DEF IsOf, Trained, Models
        <5>7. CASE path # "gru"
          BY <1>4, <3>8, <5>3, <5>4, <5>7
        <5>8. QED
          BY <5>5, <5>6, <5>7
      <4>4. QED
        BY <4>1, <4>2, <4>3
    <3>11. ASSUME lately[d].alone, NEW q \in Trainers, program'[q].does = "trains", program'[q].in = d
           PROVE  q = p
      <4>1. q # p => program'[q] = program[q]
        BY <1>5 DEF Programs
      <4>2. QED
        BY <1>1, <2>1, <2>4, <3>11, <4>1 DEF TrainingOK, Does
    <3>12. ASSUME lately[d].alone, NEW f \in Remaining(p)' PROVE ~Is(disk'[d][f], p)
      <4>1. f \in Remaining(p) /\ f # path /\ f \in Files
        BY <1>7, <3>3, <3>12, FileNames
      <4>2. ~Is(disk[d][f], p)
        BY <1>1, <2>1, <2>4, <3>12, <4>1 DEF TrainingOK
      <4>3. QED
        BY <1>4, <4>1, <4>2
    <3>13. ASSUME lately[d].alone, NEW early \in Early, NEW f \in Trained, Rank[early] < Rank[f], Is(disk'[d][f], p)
           PROVE  disk'[d][early] = Made(p, "train")
      <4>1. early \in Trained /\ early \in Files /\ f \in Files /\ Rank[early] \in Int /\ Rank[f] \in Int
        BY FileNames, RankType
      <4>2. CASE f # path
        <5>1. disk'[d][f] = disk[d][f]
          BY <1>4, <4>1, <4>2
        <5>2. InOrder(d, p)
          BY <1>1, <2>1, <2>4, <3>13 DEF TrainingOK
        <5>3. disk[d][early] = Made(p, "train")
          BY <3>13, <5>1, <5>2 DEF InOrder
        <5>4. Is(Made(p, "train"), p)
          BY MadeIsAFile DEF Is, Made
        <5>5. early # path
          BY <1>1, <1>7, <2>1, <2>4, <3>13, <5>3, <5>4 DEF TrainingOK
        <5>6. QED
          BY <1>4, <4>1, <5>3, <5>5
      <4>3. CASE f = path
        <5>1. early # path /\ early \notin Remaining(p)
          BY <1>7, <1>8, <3>13, <4>1, <4>3, RankType
        <5>2. IsWritten(d, early)
          BY <2>4, <5>1 DEF IsWritten
        <5>3. IsOf(lately[d], early, disk[d][early], disk[d]["gru"])
          BY <1>1, <2>1, <2>4, <3>13, <4>1, <5>2 DEF TrainingOK
        <5>4. disk[d][early] = Made(p, "train")
          BY <2>4, <5>3 DEF IsOf, Early
        <5>5. QED
          BY <1>4, <4>1, <5>1, <5>4
      <4>4. QED
        BY <4>2, <4>3
    <3>14. \A f \in Trained : IsWritten(d, f)' => f \notin Remaining(p)'
      BY <1>5, <2>4 DEF IsWritten, Does
    <3>15. lately[d].alone => InOrder(d, p)'
      BY <3>13 DEF InOrder
    <3>16. QED
      BY <1>5, <2>1, <2>4, <3>1, <3>2, <3>7, <3>9, <3>10, <3>11, <3>12, <3>14, <3>15 DEF TrainingOK, Does
  <2>5. QED
    BY <2>3, <2>4
<1>11. /\ \A e \in Directories, f \in Files : e # d \/ f \notin Trained => disk'[e][f] = disk[e][f]
       /\ \A f \in Trained : disk'[d][f] = disk[d][f] \/ disk'[d][f] # NoFile
  BY <1>3, <1>4, FileNames
<1>12. disk'[d]["mlp"] \in {NoFile, Broken} \/ disk'[d]["mlp"].data = "train"
  <2>1. "mlp" \in Files
    BY FileNames DEF Trained, Models
  <2>2. disk[d]["mlp"] \in {NoFile, Broken} \/ disk[d]["mlp"].data = "train"
    BY DEF LearningInv
  <2>3. QED
    BY <1>4, <2>1, <2>2
<1>13. \A f \in Trained : Begun(disk[d][f])'
  <2> TAKE f \in Trained
  <2>1. PICK content : content = disk'[d][f]
    OBVIOUS
  <2>2. Begun(content)
    <3>1. content = made \/ content = disk[d][f]
      BY <1>4, <2>1, FileNames
    <3>2. QED
      BY <3>1 DEF LearningInv
  <2>3. \A q \in Programs : program[q] # Ready => program'[q] # Ready
    BY <1>5, ProgramStates
  <2>4. QED
    BY <2>1, <2>2, <2>3 DEF Begun, Programs
<1>14. program'[p] # Ready
  BY <1>5, ProgramStates
<1>15. QED
  BY <1>5, <1>6, <1>9, <1>10, <1>11, <1>12, <1>13, <1>14, TrainerFrame

\* A training that fails or is killed promises nothing of its directory.
LEMMA TrainerStops ==
  ASSUME LearningInv, NEW p \in Trainers, Does(p, "trains"),
         NEW does \in {Ended, Killed}, program' = [program EXCEPT ![p] = does],
         NEW d \in Directories, d = program[p].in,
         UNCHANGED disk \/ \E path \in Remaining(p) : Saves(d, path, Broken),
         UNCHANGED <<ablations, lately>>
  PROVE  LearningInv'
<1>1. LearningTypeOK /\ p \in Programs /\ TrainingOK(d)
  BY DEF LearningInv, Programs
<1>2. DOMAIN program' = Programs /\ program'[p] = does /\ \A q \in Programs : q # p => program'[q] = program[q]
  BY <1>1, ProgramEffect
<1>3. /\ DOMAIN disk' = Directories /\ \A e \in Directories : DOMAIN disk'[e] = Files
      /\ \A e \in Directories, f \in Files : e # d \/ f \notin Trained => disk'[e][f] = disk[e][f]
      /\ \A f \in Trained : disk'[d][f] = disk[d][f] \/ (f \in Remaining(p) /\ disk'[d][f] = Broken)
  <2>1. CASE disk' = disk
    BY <1>1, <2>1 DEF LearningTypeOK
  <2>2. CASE disk' # disk
    <3>1. PICK path \in Remaining(p) : Saves(d, path, Broken)
      BY <2>2
    <3>2. path \in Trained /\ path \in Files
      BY <1>1, RemainingAreTrained, FileNames DEF LearningInv
    <3>3. /\ DOMAIN disk' = Directories /\ \A e \in Directories : DOMAIN disk'[e] = Files
          /\ disk'[d][path] = Broken
          /\ \A e \in Directories, g \in Files : e # d \/ g # path => disk'[e][g] = disk[e][g]
      BY <1>1, <3>1, <3>2, SavesEffect
    <3>4. QED
      BY <3>1, <3>2, <3>3, FileNames
  <2>3. QED
    BY <2>1, <2>2
<1>4. does.does \notin {"trains", "evaluates", "scans"} /\ does # Ready
  BY ProgramStates
<1>5. LearningTypeOK'
  BY <1>1, <1>2, <1>3 DEF LearningTypeOK
<1>6. TrainerOK(p)'
  BY <1>2, <1>4 DEF TrainerOK, Does
<1>7. TrainingOK(d)'
  <2>1. SUFFICES ASSUME lately[d] # Untrained PROVE TrainingOK(d)'
    BY DEF TrainingOK
  <2>2. lately[d].by \in Trainers /\ lately[d].by \in Programs
    BY <1>1, <2>1 DEF LearningTypeOK, Start, Programs
  <2>3. CASE lately[d].by # p
    <3>1. ~lately[d].alone
      BY <1>1, <2>1, <2>3 DEF TrainingOK
    <3>2. program'[lately[d].by] = program[lately[d].by]
      BY <1>2, <2>2, <2>3
    <3>3. Remaining(lately[d].by)' = Remaining(lately[d].by)
      BY <3>2 DEF Remaining
    <3>4. QED
      BY <1>1, <2>1, <3>1, <3>2, <3>3 DEF TrainingOK, Does
  <2>4. CASE lately[d].by = p
    <3>1. ~lately[d].ended
      BY <1>1, <2>1, <2>4, ProgramStates DEF TrainingOK, Does
    <3>2. ASSUME lately[d].alone, NEW q \in Trainers, program'[q].does = "trains", program'[q].in = d
          PROVE  q = p
      <4>1. q # p => program'[q] = program[q]
        BY <1>2 DEF Programs
      <4>2. QED
        BY <1>1, <2>1, <2>4, <3>2, <4>1 DEF TrainingOK, Does
    <3>3. ASSUME lately[d].alone, NEW early \in Early, NEW f \in Trained, Rank[early] < Rank[f], Is(disk'[d][f], p)
          PROVE  disk'[d][early] = Made(p, "train")
      <4>1. disk'[d][f] = disk[d][f]
        BY <1>3, <3>3 DEF Is
      <4>2. InOrder(d, p)
        BY <1>1, <2>1, <2>4, <3>3 DEF TrainingOK
      <4>3. disk[d][early] = Made(p, "train")
        BY <3>3, <4>1, <4>2 DEF InOrder
      <4>4. Is(Made(p, "train"), p)
        BY MadeIsAFile DEF Is, Made
      <4>5. early \notin Remaining(p) /\ early \in Trained
        BY <1>1, <2>1, <2>4, <3>3, <4>3, <4>4, FileNames DEF TrainingOK
      <4>6. QED
        BY <1>3, <4>3, <4>5
    <3>4. lately[d].alone => InOrder(d, p)'
      BY <3>3 DEF InOrder
    <3>5. QED
      BY <1>2, <1>4, <2>1, <2>4, <3>1, <3>2, <3>4 DEF TrainingOK, Does
  <2>5. QED
    BY <2>3, <2>4
<1>8. /\ disk'[d]["mlp"] \in {NoFile, Broken} \/ disk'[d]["mlp"].data = "train"
      /\ \A f \in Trained : disk'[d][f] = disk[d][f] \/ disk'[d][f] # NoFile
  <2>1. disk[d]["mlp"] \in {NoFile, Broken} \/ disk[d]["mlp"].data = "train"
    BY DEF LearningInv
  <2>2. "mlp" \in Trained
    BY DEF Trained, Models
  <2>3. QED
    BY <1>3, <2>1, <2>2, MadeIsAFile
<1>9. \A f \in Trained : Begun(disk[d][f])'
  <2> TAKE f \in Trained
  <2>1. PICK content : content = disk'[d][f]
    OBVIOUS
  <2>2. Begun(content)
    <3>1. content = Broken \/ content = disk[d][f]
      BY <1>3, <2>1
    <3>2. QED
      BY <3>1 DEF LearningInv, Begun
  <2>3. \A q \in Programs : program[q] # Ready => program'[q] # Ready
    BY <1>2, <1>4
  <2>4. QED
    BY <2>1, <2>2, <2>3 DEF Begun, Programs
<1>10. QED
  BY <1>2, <1>3, <1>4, <1>5, <1>6, <1>7, <1>8, <1>9, TrainerFrame

LEMMA EndTrainingStep ==
  ASSUME LearningInv, NEW p \in Programs, EndTraining(p) PROVE LearningInv'
<1>1. LearningTypeOK /\ TrainerOK(p)
  BY DEF LearningInv
<1>2. Does(p, "trains") /\ program[p].todo = <<>> /\ p \in Trainers /\ program[p].in \in Directories
  BY <1>1 DEF EndTraining, TrainerOK
<1>3. PICK d \in Directories : d = program[p].in
  BY <1>2
<1>4. /\ program' = [program EXCEPT ![p] = Ended]
      /\ lately' = [lately EXCEPT ![d].ended = @ \/ lately[d].by = p]
      /\ disk' = disk /\ ablations' = ablations
  BY <1>3 DEF EndTraining, Ends
<1>5. DOMAIN program' = Programs /\ program'[p] = Ended /\ \A q \in Programs : q # p => program'[q] = program[q]
  BY <1>1, <1>4, ProgramEffect
<1>6. lately[d] \in Start \cup {Untrained} /\ TrainingOK(d)
  BY <1>1 DEF LearningInv, LearningTypeOK
<1>7. /\ \A e \in Directories : e # d => lately'[e] = lately[e]
      /\ DOMAIN lately' = Directories
      /\ lately[d].by # p => lately'[d] = lately[d]
      /\ lately[d].by = p =>
           /\ lately[d] \in Start /\ lately'[d] \in Start
           /\ lately'[d] = [lately[d] EXCEPT !.ended = TRUE]
  <2>1. \A e \in Directories : e # d => lately'[e] = lately[e]
    BY <1>1, <1>4 DEF LearningTypeOK
  <2>2. DOMAIN lately' = Directories /\ lately'[d] = [lately[d] EXCEPT !.ended = @ \/ lately[d].by = p]
    BY <1>1, <1>4 DEF LearningTypeOK
  <2>3. CASE lately[d].by # p
    <3>1. lately[d] = [lately[d] EXCEPT !.ended = @]
      BY <1>6 DEF Start, Untrained
    <3>2. lately[d].ended \in BOOLEAN
      <4>1. Untrained.ended \in BOOLEAN
        BY DEF Untrained
      <4>2. lately[d] \in Start => lately[d].ended \in BOOLEAN
        BY DEF Start
      <4>3. QED
        BY <1>6, <4>1, <4>2
    <3>3. (lately[d].ended \/ lately[d].by = p) = lately[d].ended
      BY <2>3, <3>2
    <3>4. QED
      BY <2>1, <2>2, <2>3, <3>1, <3>3
  <2>4. CASE lately[d].by = p
    <3>1. lately[d] \in Start
      BY <1>2, <1>6, <2>4, FilesAssumption DEF Untrained
    <3>2. lately'[d] = [lately[d] EXCEPT !.ended = TRUE]
      BY <2>2, <2>4
    <3>3. lately'[d] \in Start
      BY <3>1, <3>2 DEF Start
    <3>4. QED
      BY <2>1, <2>2, <2>4, <3>1, <3>2, <3>3
  <2>5. QED
    BY <2>3, <2>4
<1>8. LearningTypeOK'
  <2>1. \A e \in Directories : lately'[e] \in Start \cup {Untrained}
    BY <1>1, <1>6, <1>7 DEF LearningTypeOK
  <2>2. lately' = [e \in Directories |-> lately'[e]]
    BY <1>1, <1>4 DEF LearningTypeOK
  <2>3. lately' \in [Directories -> Start \cup {Untrained}]
    BY <2>1, <2>2
  <2>4. QED
    BY <1>1, <1>4, <1>5, <2>3 DEF LearningTypeOK
<1>9. TrainerOK(p)' /\ Ended.does \notin {"trains", "evaluates", "scans"} /\ Ended # Ready
  BY <1>5, ProgramStates DEF TrainerOK, Does
<1>10. TrainingOK(d)'
  <2>1. CASE lately[d].by # p
    <3>1. SUFFICES ASSUME lately[d] # Untrained PROVE TrainingOK(d)'
      BY <1>7, <2>1 DEF TrainingOK
    <3>2. ~lately[d].alone
      BY <1>2, <1>3, <1>6, <2>1, <3>1 DEF TrainingOK
    <3>3. lately[d].by \in Programs
      BY <1>6, <3>1 DEF Start, Programs
    <3>4. program'[lately[d].by] = program[lately[d].by]
      BY <1>5, <2>1, <3>3
    <3>5. Remaining(lately[d].by)' = Remaining(lately[d].by)
      BY <1>7, <2>1, <3>4 DEF Remaining
    <3>6. QED
      BY <1>4, <1>6, <1>7, <2>1, <3>1, <3>2, <3>4, <3>5 DEF TrainingOK, Does
  <2>2. CASE lately[d].by = p
    <3>1. lately[d] # Untrained /\ lately'[d].by = p /\ lately'[d].alone = lately[d].alone
          /\ lately'[d].command = lately[d].command
      BY <1>2, <1>7, <2>2, FilesAssumption DEF Start, Untrained
    <3>2. Remaining(p) = {}
      BY <1>2 DEF Remaining, Members
    <3>3. ASSUME lately[d].alone, NEW f \in Trained
          PROVE  IsOf(lately'[d], f, disk'[d][f], disk'[d]["gru"])
      <4>1. IsWritten(d, f)
        BY <2>2, <3>2 DEF IsWritten
      <4>2. IsOf(lately[d], f, disk[d][f], disk[d]["gru"])
        BY <1>2, <1>6, <2>2, <3>1, <3>3, <4>1 DEF TrainingOK
      <4>3. QED
        BY <1>4, <3>1, <4>2, <2>2 DEF IsOf
    <3>4. ASSUME lately[d].alone, NEW q \in Trainers, program'[q].does = "trains", program'[q].in = d
          PROVE  q = p
      <4>1. q # p => program'[q] = program[q]
        BY <1>5 DEF Programs
      <4>2. QED
        BY <1>6, <2>2, <3>1, <3>4, <4>1 DEF TrainingOK, Does
    <3>5. lately[d].alone => InOrder(d, p)'
      BY <1>2, <1>4, <1>6, <2>2, <3>1 DEF TrainingOK, InOrder
    <3>6. QED
      BY <1>5, <1>9, <3>1, <3>3, <3>4, <3>5 DEF TrainingOK, Does
  <2>3. QED
    BY <2>1, <2>2
<1>11. disk'[d]["mlp"] \in {NoFile, Broken} \/ disk'[d]["mlp"].data = "train"
  BY <1>4 DEF LearningInv
<1>12. lately'[d] = lately[d] \/ (lately[d].by = p /\ lately'[d].by = p)
  <2>1. lately[d] \in Start => DOMAIN lately[d] = {"by", "command", "ended", "alone"}
    BY DEF Start
  <2>2. QED
    BY <1>7, <2>1
<1>13. \A f \in Trained : Begun(disk[d][f])'
  <2>1. \A q \in Programs : program[q] # Ready => program'[q] # Ready
    BY <1>5, <1>9
  <2>2. QED
    BY <1>4, <2>1 DEF LearningInv, Begun, Programs
<1>14. QED
  BY <1>2, <1>3, <1>4, <1>5, <1>7, <1>8, <1>9, <1>10, <1>11, <1>12, <1>13, TrainerFrame

\* A training that begins: nobody has waited for it, and nothing of it is written.
LEMMA StartTrainingStep ==
  ASSUME LearningInv, NEW p \in Programs, StartTraining(p) PROVE LearningInv'
<1>0. PICK c \in Commands : \E todo :
        /\ todo = IF c.final
                  THEN <<"scaler", "threshold", "mlp", "gru", "checkpoints", "mlp_final", "gru_final">>
                  ELSE <<"scaler", "threshold", "mlp", "gru", "checkpoints">>
        /\ program' = [program EXCEPT ![p] =
             [does |-> "trains", in |-> c.in, reuse |-> c.reuse, gru |-> NoFile, todo |-> todo]]
        /\ lately' = [lately EXCEPT ![c.in] =
             [by |-> p, command |-> c, ended |-> FALSE,
              alone |-> ~\E other \in Trainers : Does(other, "trains") /\ program[other].in = c.in]]
  BY DEF StartTraining
<1>1. PICK todo :
        /\ todo = IF c.final
                  THEN <<"scaler", "threshold", "mlp", "gru", "checkpoints", "mlp_final", "gru_final">>
                  ELSE <<"scaler", "threshold", "mlp", "gru", "checkpoints">>
        /\ program' = [program EXCEPT ![p] =
             [does |-> "trains", in |-> c.in, reuse |-> c.reuse, gru |-> NoFile, todo |-> todo]]
        /\ lately' = [lately EXCEPT ![c.in] =
             [by |-> p, command |-> c, ended |-> FALSE,
              alone |-> ~\E other \in Trainers : Does(other, "trains") /\ program[other].in = c.in]]
  BY <1>0
<1>2. p \in Trainers /\ program[p] = Ready /\ disk' = disk /\ ablations' = ablations
  BY DEF StartTraining
<1>3. LearningTypeOK /\ p \notin Evaluators
  BY <1>2, FilesAssumption DEF LearningInv
<1>4. PICK d \in Directories : d = c.in
  BY FilesAssumption
<1>5. c.reuse \in SUBSET Directories /\ c.final \in BOOLEAN
  BY FilesAssumption
<1>6. /\ todo \in Seq(Trained)
      /\ \A i, j \in DOMAIN todo : i < j => Rank[todo[i]] < Rank[todo[j]]
      /\ \A f \in {"scaler", "threshold", "mlp", "gru", "checkpoints"} : f \in Members(todo)
      /\ c.final => "mlp_final" \in Members(todo) /\ "gru_final" \in Members(todo)
  <2>1. /\ Rank["scaler"] = 1 /\ Rank["threshold"] = 2 /\ Rank["mlp"] = 3 /\ Rank["gru"] = 4
        /\ Rank["checkpoints"] = 5 /\ Rank["mlp_final"] = 6 /\ Rank["gru_final"] = 7
    BY DEF Rank
  <2>2. CASE c.final
    <3>1. todo = <<"scaler", "threshold", "mlp", "gru", "checkpoints", "mlp_final", "gru_final">>
      BY <1>1, <2>2
    <3>2. /\ todo[1] = "scaler" /\ todo[2] = "threshold" /\ todo[3] = "mlp" /\ todo[4] = "gru"
          /\ todo[5] = "checkpoints" /\ todo[6] = "mlp_final" /\ todo[7] = "gru_final"
          /\ DOMAIN todo = 1 .. 7 /\ Len(todo) = 7
      BY <3>1
    <3>3. todo \in Seq(Trained)
      BY <3>1 DEF Trained, Models
    <3>4. \A i \in 1 .. 7 : Rank[todo[i]] = i
      BY <2>1, <3>2
    <3>5. QED
      BY <3>2, <3>3, <3>4 DEF Members
  <2>3. CASE ~c.final
    <3>1. todo = <<"scaler", "threshold", "mlp", "gru", "checkpoints">>
      BY <1>1, <2>3
    <3>2. /\ todo[1] = "scaler" /\ todo[2] = "threshold" /\ todo[3] = "mlp" /\ todo[4] = "gru"
          /\ todo[5] = "checkpoints" /\ DOMAIN todo = 1 .. 5 /\ Len(todo) = 5
      BY <3>1
    <3>3. todo \in Seq(Trained)
      BY <3>1 DEF Trained, Models
    <3>4. \A i \in 1 .. 5 : Rank[todo[i]] = i
      BY <2>1, <3>2
    <3>5. QED
      BY <2>3, <3>2, <3>3, <3>4 DEF Members
  <2>4. QED
    BY <2>2, <2>3
<1> DEFINE does == [does |-> "trains", in |-> c.in, reuse |-> c.reuse, gru |-> NoFile, todo |-> todo]
           start == [by |-> p, command |-> c, ended |-> FALSE,
                     alone |-> ~\E other \in Trainers : Does(other, "trains") /\ program[other].in = c.in]
<1>7. /\ does.does = "trains" /\ does.in = d /\ does.reuse = c.reuse /\ does.todo = todo
      /\ DOMAIN does = {"does", "in", "reuse", "gru", "todo"} /\ does # Ready
  <2>1. does.does = "trains" /\ does.in = d /\ does.reuse = c.reuse /\ does.todo = todo
    BY <1>4
  <2>2. DOMAIN does = {"does", "in", "reuse", "gru", "todo"}
    OBVIOUS
  <2>3. does # Ready
    <3>1. Ready.does = "starts"
      BY DEF Ready
    <3>2. QED
      BY <2>1, <3>1
  <2>4. QED
    BY <2>1, <2>2, <2>3
<1>8. /\ start.by = p /\ start.command = c /\ start.ended = FALSE
      /\ start.alone => \A q \in Trainers : Does(q, "trains") => program[q].in # d
  BY <1>4
<1>9. start \in Start
  <2>1. start.alone \in BOOLEAN
    BY Zenon
  <2>2. QED
    BY <1>2, <2>1 DEF Start
<1>10. DOMAIN program' = Programs /\ program'[p] = does /\ \A q \in Programs : q # p => program'[q] = program[q]
  BY <1>1, <1>3, ProgramEffect
<1>11. lately'[d] = start /\ lately' \in [Directories -> Start \cup {Untrained}]
       /\ \A e \in Directories : e # d => lately'[e] = lately[e]
  BY <1>1, <1>3, <1>4, <1>9 DEF LearningTypeOK
<1> HIDE DEF does, start
<1>12. LearningTypeOK'
  BY <1>2, <1>3, <1>10, <1>11 DEF LearningTypeOK
<1>13. \A q \in Programs : TrainerOK(q)'
  <2> TAKE q \in Programs
  <2>1. CASE q = p
    BY <1>2, <1>5, <1>6, <1>7, <1>10, <2>1 DEF TrainerOK
  <2>2. CASE q # p
    <3>1. program'[q] = program[q] /\ TrainerOK(q)
      BY <1>10, <2>2 DEF LearningInv
    <3>2. QED
      BY <3>1 DEF TrainerOK, Does
  <2>3. QED
    BY <2>1, <2>2
<1>14. StepLeaves
  <2>1. \A t \in Trainers : program[t] # Ready => program'[t] # Ready /\ (Does(t, "trains")' => Does(t, "trains"))
    BY <1>2, <1>10 DEF Programs, Does
  <2>2. \A e \in Directories : Leaves(e)
    BY <1>2, <1>8, <1>11 DEF Leaves
  <2>3. QED
    BY <2>1, <2>2 DEF StepLeaves
<1>15. \A q \in Programs : EvaluatorOK(q)' /\ ScannerOK(q)'
  <2> TAKE q \in Programs
  <2>1. CASE q = p
    BY <1>7, <1>10, <2>1 DEF EvaluatorOK, ScannerOK, Does
  <2>2. CASE q # p
    <3>1. program'[q] = program[q] /\ EvaluatorOK(q) /\ ScannerOK(q)
      BY <1>10, <2>2 DEF LearningInv
    <3>2. QED
      BY <1>14, <3>1, EvaluatorStays, ScannerStays
  <2>3. QED
    BY <2>1, <2>2
<1>16. \A e \in Directories, f \in Trained : Begun(disk[e][f])' /\ ~Is(disk[e][f], p)
  <2> TAKE e \in Directories, f \in Trained
  <2>1. PICK content : content = disk[e][f]
    OBVIOUS
  <2>2. Begun(content)
    BY <2>1 DEF LearningInv
  <2>3. Begun(content)' /\ ~Is(content, p)
    BY <1>2, <1>14, <2>2, BegunStays DEF Begun, Is
  <2>4. QED
    BY <1>2, <2>1, <2>3
<1>17. \A e \in Directories : TrainingOK(e)'
  <2> TAKE e \in Directories
  <2>1. CASE e = d
    <3>1. Remaining(p)' = Members(todo)
      BY <1>7, <1>10 DEF Remaining
    <3>2. \A f \in Trained : f \notin Members(todo) => IsOf(start, f, disk[d][f], disk[d]["gru"])
      <4> TAKE f \in Trained
      <4> HAVE f \notin Members(todo)
      <4>1. f \in {"mlp_final", "gru_final"} /\ ~c.final
        BY <1>6 DEF Trained, Models
      <4>2. QED
        BY <1>8, <4>1 DEF IsOf
    <3>3. "gru" \in Members(todo) /\ (c.final => "gru_final" \in Members(todo))
      BY <1>6
    <3>4. ASSUME start.alone, NEW q \in Trainers, program'[q].does = "trains", program'[q].in = d
          PROVE  q = p
      <4>1. q # p => program'[q] = program[q]
        BY <1>10 DEF Programs
      <4>2. QED
        BY <1>8, <3>4, <4>1 DEF Does
    <3>5. \A f \in Trained : IsWritten(d, f)' => f \notin Members(todo)
      BY <1>7, <1>8, <1>10, <1>11, <3>1 DEF IsWritten, Does
    <3>6. \A f \in Members(todo) : ~Is(disk'[d][f], p)
      <4>1. Members(todo) \subseteq Trained
        <5>1. \A i \in DOMAIN todo : todo[i] \in Trained
          BY <1>6
        <5>2. QED
          BY <5>1 DEF Members
      <4>2. QED
        BY <1>2, <1>16, <4>1
    <3>7. InOrder(d, p)'
      BY <1>2, <1>16 DEF InOrder
    <3>8. QED
      BY <1>2, <1>7, <1>8, <1>10, <1>11, <2>1, <3>1, <3>2, <3>3, <3>4, <3>5, <3>6, <3>7 DEF TrainingOK, Does
  <2>2. CASE e # d
    <3>1. lately[e] # Untrained => lately[e].by # p
      BY <1>2 DEF LearningInv, TrainingOK
    <3>2. ~(program'[p].does = "trains" /\ program'[p].in = e)
      BY <1>7, <1>10, <2>2
    <3>3. QED
      BY <1>2, <1>10, <1>11, <2>2, <3>1, <3>2, OtherDirectory
  <2>3. QED
    BY <2>1, <2>2
<1>18. ASSUME NEW e \in Directories, NEW f \in MetricsFiles PROVE MetricsOK(e, f)'
  <2>1. PICK m : m = disk[e][f] /\ m = disk'[e][f]
    BY <1>2
  <2>2. m \notin {NoFile, Broken} => MetricsAre(e, f, m)
    BY <2>1 DEF LearningInv, MetricsOK
  <2>3. m \notin {NoFile, Broken} => MetricsAre(e, f, m)'
    BY <1>14, <2>2, MetricsStay
  <2>4. QED
    BY <2>1, <2>3 DEF MetricsOK
<1>19. RowsAreOfTheirCheckpoints' /\ \A e \in Directories :
         disk'[e]["mlp"] \in {NoFile, Broken} \/ disk'[e]["mlp"].data = "train"
  BY <1>2 DEF LearningInv, RowsAreOfTheirCheckpoints
<1>20. QED
  BY <1>12, <1>13, <1>15, <1>16, <1>17, <1>18, <1>19 DEF LearningInv

\* What a training keeps of itself when it goes on to its next file.
LEMMA TrainerGoesOn ==
  ASSUME LearningInv, NEW p \in Programs, Does(p, "trains"), program[p].todo # <<>>
  PROVE  /\ p \in Trainers /\ program[p].in \in Directories
         /\ program[p].reuse \in SUBSET Directories
         /\ DOMAIN program[p] = {"does", "in", "reuse", "gru", "todo"}
         /\ Head(program[p].todo) \in Trained
         /\ \A todo, gru :
              LET does == [program[p] EXCEPT !.todo = todo, !.gru = gru]
              IN /\ does.does = "trains" /\ does.in = program[p].in /\ does.reuse = program[p].reuse
                 /\ does.todo = todo /\ does.gru = gru
                 /\ DOMAIN does = {"does", "in", "reuse", "gru", "todo"}
<1>1. TrainerOK(p)
  BY DEF LearningInv
<1>2. /\ p \in Trainers /\ program[p].in \in Directories /\ program[p].reuse \in SUBSET Directories
      /\ DOMAIN program[p] = {"does", "in", "reuse", "gru", "todo"} /\ program[p].todo \in Seq(Trained)
  BY <1>1 DEF TrainerOK
<1>3. Head(program[p].todo) \in Trained
  BY <1>2
<1>4. program[p].does = "trains"
  BY DEF Does
<1>5. QED
  BY <1>2, <1>3, <1>4

\* A training saves its next file and keeps the GRU that it has then.
WritesNext(p, path, made, gru) ==
  /\ Continues(p, path) /\ SavesNext(p, made)
  /\ program' = [program EXCEPT ![p] =
                   [program[p] EXCEPT !.todo = Tail(program[p].todo), !.gru = gru]]
  /\ gru = IF path = "gru" THEN made ELSE program[p].gru
  /\ made # NoFile /\ (path = "mlp" => made.data = "train") /\ Begun(made)
  /\ \A start : start.by = p /\ start.command.reuse = program[p].reuse => IsOf(start, path, made, gru)

LEMMA TrainerWritesNext ==
  ASSUME LearningInv, NEW p \in Programs, NEW path, NEW made, NEW gru, WritesNext(p, path, made, gru)
  PROVE  LearningInv'
<1> USE DEF WritesNext
<1>1. Does(p, "trains") /\ program[p].todo # <<>> /\ Head(program[p].todo) = path
  BY DEF Continues
<1>2. PICK d \in Directories : d = program[p].in
  BY <1>1, TrainerGoesOn
<1>3. PICK does : does = [program[p] EXCEPT !.todo = Tail(program[p].todo), !.gru = gru]
  OBVIOUS
<1>4. /\ p \in Trainers /\ DOMAIN does = {"does", "in", "reuse", "gru", "todo"}
      /\ does.does = "trains" /\ does.in = d /\ does.reuse = program[p].reuse
      /\ does.todo = Tail(program[p].todo) /\ does.gru = gru
  BY <1>1, <1>2, <1>3, TrainerGoesOn
<1>5. program' = [program EXCEPT ![p] = does]
  BY <1>3
<1>6. Saves(d, path, made) /\ UNCHANGED <<ablations, lately>>
  BY <1>1, <1>2 DEF SavesNext
<1>7. lately[d] # Untrained /\ lately[d].by = p => IsOf(lately[d], path, made, gru)
  <2>1. TrainingOK(d)
    BY DEF LearningInv
  <2>2. SUFFICES ASSUME lately[d] # Untrained, lately[d].by = p PROVE IsOf(lately[d], path, made, gru)
    OBVIOUS
  <2>3. lately[d].command.reuse = program[p].reuse
    BY <1>1, <2>1, <2>2 DEF TrainingOK
  <2>4. QED
    BY <2>2, <2>3
<1>8. path = Head(program[p].todo) /\ (path = "mlp" => made = Broken \/ made.data = "train") /\ Begun(made)
  BY <1>1
<1>9. QED
  BY <1>1, <1>2, <1>4, <1>5, <1>6, <1>7, <1>8, TrainerWrites

\* A training saves a file of its own that is not the GRU.
LEMMA TrainerSaves ==
  ASSUME LearningInv, NEW p \in Programs, NEW path \in Trained \ {"gru"}, Continues(p, path),
         NEW made, SavesNext(p, made), Remains(p, Tail(program[p].todo)),
         made # NoFile, path = "mlp" => made.data = "train", made.training = p,
         \A start : start.by = p => IsOf(start, path, made, program[p].gru)
  PROVE  LearningInv'
<1>1. PICK gru : gru = program[p].gru
  OBVIOUS
<1>2. DOMAIN program[p] = {"does", "in", "reuse", "gru", "todo"}
  BY TrainerGoesOn DEF Continues
<1>3. program' = [program EXCEPT ![p] =
                    [program[p] EXCEPT !.todo = Tail(program[p].todo), !.gru = gru]]
  BY <1>1, <1>2 DEF Remains
<1>4. gru = IF path = "gru" THEN made ELSE program[p].gru
  BY <1>1
<1>5. \A start : start.by = p /\ start.command.reuse = program[p].reuse => IsOf(start, path, made, gru)
  BY <1>1
<1>6. Begun(made)
  BY ProgramStates, TrainerGoesOn DEF Begun, Continues, Does
<1>7. QED
  <2>1. WritesNext(p, path, made, gru)
    BY <1>3, <1>4, <1>5, <1>6 DEF WritesNext
  <2>2. QED
    BY <2>1, TrainerWritesNext

LEMMA SavesOfTrainingSplit ==
  ASSUME LearningInv, NEW p \in Programs,
         FitScaler(p) \/ ChooseThreshold(p) \/ TrainMlp(p) \/ SummarizeCheckpoints(p)
  PROVE  LearningInv'
<1>1. PICK path \in {"scaler", "threshold", "mlp", "checkpoints"} :
        Continues(p, path) /\ SavesNext(p, Made(p, "train")) /\ Remains(p, Tail(program[p].todo))
  BY DEF FitScaler, ChooseThreshold, TrainMlp, SummarizeCheckpoints
<1>2. path \in Trained \ {"gru"}
  BY DEF Trained, Models
<1>3. \A start : start.by = p => IsOf(start, path, Made(p, "train"), program[p].gru)
  BY DEF IsOf
<1>4. Made(p, "train") # NoFile /\ Made(p, "train").data = "train" /\ Made(p, "train").training = p
  BY MadeIsAFile DEF Made
<1>5. PICK made : made = Made(p, "train")
  OBVIOUS
<1>6. QED
  BY <1>1, <1>2, <1>3, <1>4, <1>5, TrainerSaves

LEMMA TrainFinalStep ==
  ASSUME LearningInv, NEW p \in Programs, TrainFinal(p) PROVE LearningInv'
<1>1. Remains(p, Tail(program[p].todo))
  BY DEF TrainFinal
<1>2. "mlp_final" \in Trained \ {"gru"} /\ "gru_final" \in Trained \ {"gru"}
  BY DEF Trained, Models
<1>3. CASE Continues(p, "mlp_final") /\ SavesNext(p, FixedEpochs(p, Made(p, "train")))
  <2>1. PICK made : made = FixedEpochs(p, Made(p, "train"))
    OBVIOUS
  <2>2. \A start : start.by = p => IsOf(start, "mlp_final", made, program[p].gru)
    BY <2>1 DEF IsOf
  <2>3. made # NoFile /\ made.training = p
    BY <2>1, MadeIsAFile DEF FixedEpochs
  <2>4. QED
    BY <1>1, <1>2, <1>3, <2>1, <2>2, <2>3, TrainerSaves
<1>4. CASE Continues(p, "gru_final") /\ SavesNext(p, FixedEpochs(p, program[p].gru))
  <2>1. PICK made : made = FixedEpochs(p, program[p].gru)
    OBVIOUS
  <2>2. \A start : start.by = p => IsOf(start, "gru_final", made, program[p].gru)
    BY <2>1 DEF IsOf
  <2>3. made # NoFile /\ made.training = p
    BY <2>1, MadeIsAFile DEF FixedEpochs
  <2>4. QED
    BY <1>1, <1>2, <1>4, <2>1, <2>2, <2>3, TrainerSaves
<1>5. QED
  BY <1>3, <1>4 DEF TrainFinal

\* A training has its GRU, whether it learned it or took it over.
LEMMA GruIsKept ==
  ASSUME LearningInv, NEW p \in Programs, Continues(p, "gru"),
         NEW made, SavesNext(p, made), KeepsGru(p, made), made # NoFile, Begun(made),
         made = Made(p, "train") \/ program[p].reuse # {}
  PROVE  LearningInv'
<1>1. PICK path, gru : path = "gru" /\ gru = made
  OBVIOUS
<1>2. program' = [program EXCEPT ![p] =
                    [program[p] EXCEPT !.todo = Tail(program[p].todo), !.gru = gru]]
  BY <1>1 DEF KeepsGru
<1>3. \A start : start.by = p /\ start.command.reuse = program[p].reuse => IsOf(start, path, made, gru)
  BY <1>1 DEF IsOf
<1>4. /\ gru = IF path = "gru" THEN made ELSE program[p].gru
      /\ Continues(p, path) /\ (path = "mlp" => made.data = "train")
  BY <1>1
<1>5. QED
  <2>1. WritesNext(p, path, made, gru)
    BY <1>1, <1>2, <1>3, <1>4 DEF WritesNext
  <2>2. QED
    BY <2>1, TrainerWritesNext

LEMMA TrainGruStep ==
  ASSUME LearningInv, NEW p \in Programs, TrainGru(p) PROVE LearningInv'
<1>1. PICK made : made = Made(p, "train")
  OBVIOUS
<1>2. Continues(p, "gru") /\ SavesNext(p, made) /\ KeepsGru(p, made)
  BY <1>1 DEF TrainGru
<1>3. made # NoFile /\ made.training = p
  BY <1>1, MadeIsAFile DEF Made
<1>4. Begun(made)
  BY <1>2, <1>3, ProgramStates, TrainerGoesOn DEF Begun, Continues, Does
<1>5. QED
  BY <1>1, <1>2, <1>3, <1>4, GruIsKept

LEMMA ReuseGruStep ==
  ASSUME LearningInv, NEW p \in Programs, ReuseGru(p) PROVE LearningInv'
<1>1. Continues(p, "gru") /\ UNCHANGED <<ablations, lately>>
  BY DEF ReuseGru
<1>2. PICK e \in program[p].reuse :
        IF disk[e]["gru"] = NoFile \/ e = program[p].in
        THEN Ends(p) /\ UNCHANGED disk
        ELSE /\ Saves(program[p].in, "gru", disk[e]["gru"])
             /\ IF disk[e]["gru"] = Broken THEN Ends(p) ELSE KeepsGru(p, disk[e]["gru"])
  BY DEF ReuseGru
<1>3. Does(p, "trains") /\ program[p].todo # <<>>
  BY <1>1 DEF Continues
<1>4. p \in Trainers /\ program[p].in \in Directories
  BY <1>3, TrainerGoesOn
<1>5. PICK d \in Directories : d = program[p].in
  BY <1>4
<1>6. PICK made : made = disk[e]["gru"]
  OBVIOUS
<1>7. "gru" \in Remaining(p)
  <2>1. TrainerOK(p)
    BY DEF LearningInv
  <2>2. program[p].todo \in Seq(Trained) /\ Head(program[p].todo) = "gru"
    BY <1>1, <1>3, <2>1 DEF TrainerOK, Continues
  <2>3. QED
    BY <1>3, <2>2, Shrinks DEF Remaining
<1>8. CASE made = NoFile \/ e = d
  <2>1. program' = [program EXCEPT ![p] = Ended] /\ UNCHANGED disk
    BY <1>2, <1>5, <1>6, <1>8 DEF Ends
  <2>2. QED
    BY <1>1, <1>3, <1>4, <1>5, <2>1, TrainerStops
<1>9. CASE made = Broken /\ ~(made = NoFile \/ e = d)
  <2>1. program' = [program EXCEPT ![p] = Ended] /\ Saves(d, "gru", Broken)
    BY <1>2, <1>5, <1>6, <1>9 DEF Ends
  <2>2. QED
    BY <1>1, <1>3, <1>4, <1>5, <1>7, <2>1, TrainerStops
<1>10. CASE made # Broken /\ ~(made = NoFile \/ e = d)
  <2>1. KeepsGru(p, made) /\ SavesNext(p, made) /\ made # NoFile
    BY <1>1, <1>2, <1>5, <1>6, <1>10 DEF SavesNext, Continues
  <2>2. program[p].reuse # {}
    BY <1>2
  <2>3. Begun(made)
    <3>1. e \in Directories /\ "gru" \in Trained
      BY <1>2, <1>3, TrainerGoesOn DEF Trained, Models
    <3>2. QED
      BY <1>6, <3>1 DEF LearningInv
  <2>4. QED
    BY <1>1, <2>1, <2>2, <2>3, GruIsKept
<1>11. QED
  BY <1>8, <1>9, <1>10

\* A program that is killed while it waits for nothing changes no file.
LEMMA KillIdleStep ==
  ASSUME LearningInv, NEW p \in Trainers, ~Does(p, "trains"), KillProgram(p) PROVE LearningInv'
<1>1. /\ program[p] \notin {Ready, Ended} /\ program' = [program EXCEPT ![p] = Killed]
      /\ ablations' = ablations /\ lately' = lately
  BY DEF KillProgram
<1>2. LearningTypeOK /\ p \in Programs /\ p \notin Evaluators /\ EvaluatorOK(p)
  BY FilesAssumption DEF LearningInv, Programs
<1>3. disk' = disk
  BY <1>2 DEF KillProgram, EvaluatorOK, Does
<1>4. DOMAIN program' = Programs /\ program'[p] = Killed /\ \A q \in Programs : q # p => program'[q] = program[q]
  BY <1>1, <1>2, ProgramEffect
<1>5. LearningTypeOK'
  BY <1>1, <1>2, <1>3, <1>4 DEF LearningTypeOK
<1>6. \A q \in Programs, what \in {"trains", "evaluates", "scans"} :
        Does(q, what)' => Does(q, what) /\ q # p /\ program'[q] = program[q]
  BY <1>4, ProgramStates DEF Does
<1>7. StepLeaves
  <2>1. \A t \in Trainers : program[t] # Ready => program'[t] # Ready /\ (Does(t, "trains")' => Does(t, "trains"))
    BY <1>4, <1>6, ProgramStates DEF Programs
  <2>2. \A d \in Directories : Leaves(d)
    BY <1>1, <1>3 DEF Leaves
  <2>3. QED
    BY <2>1, <2>2 DEF StepLeaves
<1>8. \A q \in Programs : TrainerOK(q)' /\ EvaluatorOK(q)' /\ ScannerOK(q)'
  <2> TAKE q \in Programs
  <2>1. CASE q = p
    BY <1>6, <2>1 DEF TrainerOK, EvaluatorOK, ScannerOK
  <2>2. CASE q # p
    <3>1. program'[q] = program[q] /\ TrainerOK(q) /\ EvaluatorOK(q) /\ ScannerOK(q)
      BY <1>4, <2>2 DEF LearningInv
    <3>2. TrainerOK(q)'
      BY <3>1 DEF TrainerOK, Does
    <3>3. QED
      BY <1>7, <3>1, <3>2, EvaluatorStays, ScannerStays
  <2>3. QED
    BY <2>1, <2>2
<1>9. \A d \in Directories : TrainingOK(d)'
  <2> TAKE d \in Directories
  <2>1. TrainingOK(d)
    BY DEF LearningInv
  <2>2. SUFFICES ASSUME lately[d] # Untrained PROVE TrainingOK(d)'
    BY <1>1 DEF TrainingOK
  <2>3. PICK by : by = lately[d].by
    OBVIOUS
  <2>4. by \in Trainers /\ by \in Programs
    BY <1>2, <2>2, <2>3 DEF LearningTypeOK, Start, Programs
  <2>5. program'[by] # Ready /\ (lately[d].ended => program'[by] = Ended)
    BY <1>1, <1>4, <2>1, <2>2, <2>3, <2>4, ProgramStates DEF TrainingOK
  <2>6. \A q \in Trainers : Does(q, "trains")' => Does(q, "trains") /\ program'[q] = program[q]
    BY <1>6 DEF Programs
  <2>7. Does(by, "trains") => program'[by] = program[by]
    BY <1>4, <2>4
  <2>8. Does(by, "trains")' <=> Does(by, "trains")
    BY <2>4, <2>6, <2>7 DEF Does
  <2>9. Does(by, "trains") => Remaining(by)' = Remaining(by)
    BY <2>7 DEF Remaining
  <2>10. \A f \in Trained : IsWritten(d, f)' <=> IsWritten(d, f)
    BY <1>1, <2>3, <2>8, <2>9 DEF IsWritten, Does, Remaining
  <2>11. InOrder(d, by)' <=> InOrder(d, by)
    BY <1>3 DEF InOrder
  <2>12. lately'[d].by = by
    BY <1>1, <2>3
  <2>13. QED
    BY <1>1, <1>3, <2>1, <2>2, <2>3, <2>5, <2>6, <2>7, <2>8, <2>9, <2>10, <2>11, <2>12
       DEF TrainingOK, InOrder, Does, Remaining
<1>10. \A d \in Directories, f \in MetricsFiles : MetricsOK(d, f)'
  <2> TAKE d \in Directories, f \in MetricsFiles
  <2>1. PICK m : m = disk[d][f] /\ m = disk'[d][f]
    BY <1>3
  <2>2. m \notin {NoFile, Broken} => MetricsAre(d, f, m)
    BY <2>1 DEF LearningInv, MetricsOK
  <2>3. m \notin {NoFile, Broken} => MetricsAre(d, f, m)'
    BY <1>7, <2>2, MetricsStay
  <2>4. QED
    BY <2>1, <2>3 DEF MetricsOK
<1>11. \A d \in Directories, f \in Trained : Begun(disk[d][f])'
  <2> TAKE d \in Directories, f \in Trained
  <2>1. PICK content : content = disk[d][f] /\ content = disk'[d][f]
    BY <1>3
  <2>2. Begun(content)
    BY <2>1 DEF LearningInv
  <2>3. QED
    BY <1>7, <2>1, <2>2, BegunStays
<1>12. \A d \in Directories : disk'[d]["mlp"] \in {NoFile, Broken} \/ disk'[d]["mlp"].data = "train"
  BY <1>3 DEF LearningInv
<1>13. RowsAreOfTheirCheckpoints'
  BY <1>1 DEF LearningInv, RowsAreOfTheirCheckpoints
<1>14. QED
  BY <1>5, <1>8, <1>9, <1>10, <1>11, <1>12, <1>13 DEF LearningInv

LEMMA KillProgramStep ==
  ASSUME LearningInv, NEW p \in Programs, KillProgram(p) PROVE LearningInv'
<1>1. CASE p \in Evaluators
  BY <1>1, KillEvaluatorStep
<1>2. CASE p \in Trainers /\ ~Does(p, "trains")
  BY <1>2, KillIdleStep
<1>3. CASE p \in Trainers /\ Does(p, "trains")
  <2>1. program' = [program EXCEPT ![p] = Killed] /\ UNCHANGED <<ablations, lately>>
    BY DEF KillProgram
  <2>2. PICK d \in Directories : d = program[p].in
    BY <1>3 DEF LearningInv, TrainerOK
  <2>3. CASE disk' = disk
    BY <1>3, <2>1, <2>2, <2>3, TrainerStops
  <2>4. CASE disk' # disk
    <3>1. PICK path : program[p].todo # <<>> /\ path = Head(program[p].todo) /\ Saves(d, path, Broken)
      BY <1>3, <2>2, <2>4 DEF KillProgram
    <3>2. path \in Remaining(p)
      <4>1. program[p].todo \in Seq(Trained)
        BY <1>3 DEF LearningInv, TrainerOK
      <4>2. QED
        BY <3>1, <4>1, Shrinks DEF Remaining
    <3>3. QED
      BY <1>3, <2>1, <2>2, <3>1, <3>2, TrainerStops
  <2>5. QED
    BY <2>3, <2>4
<1>4. QED
  BY <1>1, <1>2, <1>3 DEF Programs

\* Only evaluators evaluate and scan.
LEMMA EvaluatorSteps ==
  ASSUME LearningInv, NEW p \in Programs,
         \/ StartEvaluation(p) \/ LoadModel(p) \/ EvaluateValidation(p) \/ EvaluateTest(p)
         \/ EndEvaluation(p) \/ StartScan(p) \/ FindRun(p) \/ ReadRun(p) \/ AddRun(p)
         \/ SaveAblations(p)
  PROVE  LearningInv'
<1>1. EvaluatorOK(p) /\ ScannerOK(p)
  BY DEF LearningInv
<1>2. Does(p, "evaluates") \/ Does(p, "scans") => p \in Evaluators
  BY <1>1 DEF EvaluatorOK, ScannerOK
<1>3. CASE StartEvaluation(p)
  BY <1>3, StartEvaluationStep
<1>4. CASE LoadModel(p)
  <2>1. p \in Evaluators
    BY <1>2, <1>4 DEF LoadModel
  <2>2. QED
    BY <1>4, <2>1, LoadModelStep
<1>5. CASE EvaluateValidation(p) \/ EvaluateTest(p)
  <2>1. PICK split \in EvaluatedSplits : SavesMetrics(p, split)
    BY <1>5 DEF EvaluateValidation, EvaluateTest, EvaluatedSplits
  <2>2. p \in Evaluators
    BY <1>2, <2>1 DEF SavesMetrics
  <2>3. QED
    BY <2>1, <2>2, SavesMetricsStep
<1>6. CASE EndEvaluation(p)
  <2>1. p \in Evaluators
    BY <1>2, <1>6 DEF EndEvaluation
  <2>2. QED
    BY <1>6, <2>1, EndEvaluationStep
<1>7. CASE StartScan(p)
  <2>1. p \in Evaluators
    BY <1>2, <1>7 DEF StartScan
  <2>2. QED
    BY <1>7, <2>1, StartScanStep
<1>8. CASE FindRun(p) \/ ReadRun(p) \/ AddRun(p)
  <2>1. p \in Evaluators
    BY <1>2, <1>8 DEF FindRun, AddRun, ReadRun
  <2>2. QED
    BY <1>8, <2>1, FindRunStep, ReadRunStep, AddRunStep
<1>9. CASE SaveAblations(p)
  <2>1. p \in Evaluators
    BY <1>2, <1>9 DEF SaveAblations
  <2>2. QED
    BY <1>9, <2>1, SaveAblationsStep
<1>10. QED
  BY <1>3, <1>4, <1>5, <1>6, <1>7, <1>8, <1>9

\* At first there are no files, and no training has been started.
LEMMA LearningStarts ==
  LearningInit => LearningInv
<1> SUFFICES ASSUME LearningInit PROVE LearningInv
  OBVIOUS
<1>1. /\ \A d \in Directories : lately[d] = Untrained /\ DOMAIN disk[d] = Files
      /\ \A d \in Directories : \A f \in Files : disk[d][f] = NoFile
      /\ \A p \in Programs : program[p] = Ready
      /\ DOMAIN program = Programs /\ DOMAIN disk = Directories
  BY DEF LearningInit
<1>2. LearningTypeOK
  BY <1>1 DEF LearningInit, LearningTypeOK
<1>3. \A p \in Programs : TrainerOK(p) /\ EvaluatorOK(p) /\ ScannerOK(p)
  BY <1>1, ProgramStates DEF TrainerOK, EvaluatorOK, ScannerOK, Does
<1>4. "mlp" \in Files /\ MetricsFiles \subseteq Files
  BY FileNames DEF Trained, Models
<1>5. \A d \in Directories : /\ TrainingOK(d) /\ disk[d]["mlp"] = NoFile
                             /\ \A f \in Trained : Begun(disk[d][f])
                             /\ \A f \in MetricsFiles : MetricsOK(d, f)
  BY <1>1, <1>4, FileNames DEF TrainingOK, MetricsOK, Begun
<1>6. RowsAreOfTheirCheckpoints
  BY DEF LearningInit, RowsAreOfTheirCheckpoints
<1>7. QED
  BY <1>2, <1>3, <1>5, <1>6 DEF LearningInv

LEMMA LearningSteps ==
  LearningInv /\ [LearningNext]_learningVars => LearningInv'
<1> SUFFICES ASSUME LearningInv, [LearningNext]_learningVars PROVE LearningInv'
  OBVIOUS
<1>1. CASE LearningNext
  <2>1. PICK p \in Programs :
          \/ StartTraining(p) \/ FitScaler(p) \/ ChooseThreshold(p) \/ TrainMlp(p) \/ TrainGru(p)
          \/ ReuseGru(p) \/ SummarizeCheckpoints(p) \/ TrainFinal(p) \/ EndTraining(p)
          \/ StartEvaluation(p) \/ LoadModel(p) \/ EvaluateValidation(p) \/ EvaluateTest(p)
          \/ EndEvaluation(p) \/ StartScan(p) \/ FindRun(p) \/ ReadRun(p) \/ AddRun(p)
          \/ SaveAblations(p) \/ KillProgram(p)
    BY <1>1 DEF LearningNext
  <2>2. CASE StartTraining(p)
    BY <2>2, StartTrainingStep
  <2>3. CASE FitScaler(p) \/ ChooseThreshold(p) \/ TrainMlp(p) \/ SummarizeCheckpoints(p)
    BY <2>3, SavesOfTrainingSplit
  <2>4. CASE TrainGru(p)
    BY <2>4, TrainGruStep
  <2>5. CASE ReuseGru(p)
    BY <2>5, ReuseGruStep
  <2>6. CASE TrainFinal(p)
    BY <2>6, TrainFinalStep
  <2>7. CASE EndTraining(p)
    BY <2>7, EndTrainingStep
  <2>8. CASE \/ StartEvaluation(p) \/ LoadModel(p) \/ EvaluateValidation(p) \/ EvaluateTest(p)
             \/ EndEvaluation(p) \/ StartScan(p) \/ FindRun(p) \/ ReadRun(p) \/ AddRun(p)
             \/ SaveAblations(p)
    BY <2>8, EvaluatorSteps
  <2>9. CASE KillProgram(p)
    BY <2>9, KillProgramStep
  <2>10. QED
    BY <2>1, <2>2, <2>3, <2>4, <2>5, <2>6, <2>7, <2>8, <2>9
<1>2. CASE UNCHANGED learningVars
  <2>1. program' = program /\ disk' = disk /\ lately' = lately /\ ablations' = ablations
    BY <1>2 DEF learningVars
  <2>2. LearningTypeOK' /\ RowsAreOfTheirCheckpoints'
    BY <2>1 DEF LearningInv, LearningTypeOK, RowsAreOfTheirCheckpoints
  <2>3. StepLeaves
    BY <2>1 DEF StepLeaves, Leaves, Does
  <2>4. \A p \in Programs : TrainerOK(p)' /\ EvaluatorOK(p)' /\ ScannerOK(p)'
    <3> TAKE p \in Programs
    <3>1. program'[p] = program[p] /\ TrainerOK(p) /\ EvaluatorOK(p) /\ ScannerOK(p)
      BY <2>1 DEF LearningInv
    <3>2. TrainerOK(p)'
      BY <3>1 DEF TrainerOK, Does
    <3>3. QED
      BY <2>3, <3>1, <3>2, EvaluatorStays, ScannerStays
  <2>5. \A d \in Directories : TrainingOK(d)'
    BY <2>1 DEF LearningInv, TrainingOK, InOrder, IsWritten, Does, Remaining
  <2>6. \A d \in Directories, f \in MetricsFiles : MetricsOK(d, f)'
    BY <2>1 DEF LearningInv, MetricsOK, MetricsAre, Does
  <2>7. \A d \in Directories :
          /\ disk'[d]["mlp"] \in {NoFile, Broken} \/ disk'[d]["mlp"].data = "train"
          /\ \A f \in Trained : Begun(disk[d][f])'
    BY <2>1 DEF LearningInv, Begun
  <2>8. QED
    BY <2>2, <2>4, <2>5, <2>6, <2>7 DEF LearningInv
<1>3. QED
  BY <1>1, <1>2

LEMMA FilesBelongTogether ==
  LearningInv => MetricsBelongTogether
<1> SUFFICES ASSUME LearningInv PROVE MetricsBelongTogether
  OBVIOUS
<1>1. ASSUME NEW d \in Directories, NEW f \in MetricsFiles, NEW m, m = disk[d][f],
             m \notin {NoFile, Broken}, m.settled
      PROVE  /\ JudgedTogether(m)
             /\ m.since.ended /\ m.variant = "trainval_final" /\ m.since.command.final /\ lately[d] = m.since =>
                  m.from["gru"] = FixedEpochs(m.since.by, disk[d]["gru"])
  <2>1. MetricsAre(d, f, m)
    BY <1>1 DEF LearningInv, MetricsOK
  <2>2. JudgedTogether(m)
    BY <1>1, <2>1 DEF MetricsAre
  <2>3. ASSUME m.since.ended, m.variant = "trainval_final", m.since.command.final, lately[d] = m.since
        PROVE  m.from["gru"] = FixedEpochs(m.since.by, disk[d]["gru"])
    <3>1. /\ m.since.alone /\ m.since \in Start /\ ~Does(m.since.by, "trains")
          /\ \A role \in Roles : m.from[role] = disk[d][FileOf(role, m.variant)]
      BY <1>1, <2>1, <2>3 DEF MetricsAre
    <3>2. m.from["gru"] = disk[d]["gru_final"]
      BY <2>3, <3>1 DEF Roles, FileOf
    <3>3. TrainingOK(d) /\ lately[d] # Untrained
      BY <2>3, <3>1, UntrainedIsNotAlone DEF LearningInv
    <3>4. IsWritten(d, "gru_final") /\ "gru_final" \in Trained
      BY <2>3, <3>1 DEF IsWritten, Trained, Models
    <3>5. IsOf(lately[d], "gru_final", disk[d]["gru_final"], disk[d]["gru"])
      BY <2>3, <3>1, <3>3, <3>4 DEF TrainingOK
    <3>6. QED
      BY <2>3, <3>2, <3>5 DEF IsOf
  <2>4. QED
    BY <2>2, <2>3
<1>2. EvaluationIsOfOneTraining
  BY <1>1 DEF EvaluationIsOfOneTraining
<1>3. QED
  BY <1>2 DEF MetricsBelongTogether, LearningInv

\* For any trainings, evaluations, ablations, commands and files that are given, and
\* whatever fails or is killed: what was trained together is judged together, a model is
\* never judged with the scaler or the threshold of a training before its own, and a row
\* whose checkpoint summary is of the last training is of models of that training.
THEOREM MetricsStayTogether == LearningSpec => []MetricsBelongTogether
<1>1. LearningInit => LearningInv
  BY LearningStarts
<1>2. LearningInv /\ [LearningNext]_learningVars => LearningInv'
  BY LearningSteps
<1>3. LearningInv => MetricsBelongTogether
  BY FilesBelongTogether
<1>4. QED
  BY <1>1, <1>2, <1>3, PTL DEF LearningSpec

-----------------------------------------------------------------------------
(* SimDataset *)

LEMMA TauIsASum ==
  ASSUME NEW plan \in Seq(Disturbance), NEW k
  PROVE  /\ TauAtStep(plan, k) \in Int
         /\ (\A i \in Active(plan, k) : plan[i].tau = 0) => TauAtStep(plan, k) = 0
<1> DEFINE S == Active(plan, k)
           g == [i \in S |-> plan[i].tau]
<1>1. IsFiniteSet(S)
  <2>1. Len(plan) \in Nat /\ S \subseteq 1 .. Len(plan)
    BY DEF Active
  <2>2. IsFiniteSet(1 .. Len(plan))
    BY <2>1, FS_Interval
  <2>3. QED
    BY <2>1, <2>2, FS_Subset
<1>2. g \in [S -> Int]
  <2>1. \A i \in S : plan[i] \in Disturbance
    BY ElementOf DEF Active
  <2>2. \A i \in S : plan[i].tau \in Int
    BY <2>1 DEF Disturbance
  <2> HIDE DEF S
  <2>3. QED
    BY <2>2
<1> HIDE DEF S
<1>3. PICK sum : AddsUp(S, g, sum)
  BY <1>1, <1>2, SumExists
<1>4. sum = [U \in SUBSET S |->
               IF U = {} THEN 0
               ELSE LET x == CHOOSE x \in U : TRUE IN sum[U \ {x}] + plan[x].tau]
  <2>1. \A U \in SUBSET S : U # {} => (CHOOSE x \in U : TRUE) \in S
    OBVIOUS
  <2>2. QED
    BY <1>3, <2>1 DEF AddsUp
<1>5. PICK iter : /\ iter = [U \in SUBSET S |->
                               IF U = {} THEN 0
                               ELSE LET x == CHOOSE x \in U : TRUE IN iter[U \ {x}] + plan[x].tau]
                  /\ TauAtStep(plan, k) = iter[S]
  BY <1>4 DEF TauAtStep, FoldSet, MapThenFoldSet, S
<1>6. AddsUp(S, g, iter)
  <2>1. \A U \in SUBSET S : U # {} => (CHOOSE x \in U : TRUE) \in S
    OBVIOUS
  <2>2. QED
    BY <1>5, <2>1 DEF AddsUp
<1>7. iter[S] \in Int /\ ((\A x \in S : g[x] = 0) => iter[S] = 0)
  <2> HIDE DEF g
  <2>1. QED
    BY <1>1, <1>2, <1>6, SumOf
<1>8. (\A x \in S : plan[x].tau = 0) => \A x \in S : g[x] = 0
  OBVIOUS
<1>9. QED
  BY <1>5, <1>7, <1>8 DEF S

LEMMA OffsetIsNatural ==
  ASSUME DatasetAssumption, saved \in Seq([samples : Seq(SampleRecord), events : Seq(EventRow)]),
         Len(saved) <= Len(Splits)
  PROVE  EpisodeOffset \in Nat
<1> DEFINE before == SubSeq(Splits, 1, Len(saved))
           S == DOMAIN before
           g == [i \in S |-> before[i].episodes]
<1>1. Len(saved) \in Nat /\ Len(Splits) \in Nat
  BY DEF DatasetAssumption
<1>2. IsFiniteSet(S)
  <2>1. S = 1 .. Len(saved)
    BY <1>1 DEF DatasetAssumption
  <2>2. QED
    BY <1>1, <2>1, FS_Interval
<1>3. g \in [S -> Nat]
  <2>1. \A i \in S : before[i] = Splits[i] /\ i \in DOMAIN Splits
    BY <1>1 DEF DatasetAssumption
  <2>2. \A i \in DOMAIN Splits :
          Splits[i] \in [episodes : Nat, disturbances : SUBSET Seq(Disturbance)]
    BY ElementOf DEF DatasetAssumption
  <2>3. \A i \in S : before[i].episodes \in Nat
    BY <2>1, <2>2
  <2> HIDE DEF before
  <2>4. QED
    BY <2>3
<1> HIDE DEF before
<1>4. PICK sum : AddsUp(S, g, sum)
  <2>1. g \in [S -> Int]
    BY <1>3
  <2> HIDE DEF g
  <2>2. QED
    BY <1>2, <2>1, SumExists
<1>5. sum = [U \in SUBSET S |->
               IF U = {} THEN 0
               ELSE LET x == CHOOSE x \in U : TRUE IN sum[U \ {x}] + before[x].episodes]
  <2>1. \A U \in SUBSET S : U # {} => (CHOOSE x \in U : TRUE) \in S
    OBVIOUS
  <2>2. QED
    BY <1>4, <2>1 DEF AddsUp
<1>6. PICK iter : /\ iter = [U \in SUBSET S |->
                               IF U = {} THEN 0
                               ELSE LET x == CHOOSE x \in U : TRUE
                                    IN iter[U \ {x}] + before[x].episodes]
                  /\ EpisodeOffset = iter[S]
  BY <1>5 DEF EpisodeOffset, FoldSeq, FoldFunction, FoldFunctionOnSet, MapThenFoldSet, before
<1>7. AddsUp(S, g, iter)
  <2>1. \A U \in SUBSET S : U # {} => (CHOOSE x \in U : TRUE) \in S
    OBVIOUS
  <2>2. QED
    BY <1>6, <2>1 DEF AddsUp
<1>8. iter[S] \in Int /\ iter[S] >= 0
  <2>1. g \in [S -> Int] /\ \A x \in S : g[x] >= 0
    BY <1>3
  <2> HIDE DEF g, S
  <2>2. QED
    BY <1>2, <1>7, <2>1, SumOf
<1>9. QED
  BY <1>6, <1>8

\* What the plan of an episode is.
LEMMA PlanFacts ==
  ASSUME DatasetAssumption, DatasetInv, Len(saved) < Len(Splits),
         NEW plan \in Splits[Len(saved) + 1].disturbances
  PROVE  /\ plan \in Seq(Disturbance)
         /\ \A i \in DOMAIN plan : /\ 0 <= plan[i].start /\ plan[i].start < plan[i].end
                                   /\ plan[i].end <= Steps
<1>1. Len(saved) + 1 \in DOMAIN Splits
  BY DEF DatasetAssumption, DatasetInv
<1>2. plan \in Seq(Disturbance)
  <2>1. Splits[Len(saved) + 1] \in [episodes : Nat, disturbances : SUBSET Seq(Disturbance)]
    BY <1>1, ElementOf DEF DatasetAssumption
  <2>2. QED
    BY <2>1
<1>3. ASSUME NEW i \in DOMAIN plan
      PROVE  0 <= plan[i].start /\ plan[i].start < plan[i].end /\ plan[i].end <= Steps
  <2>1. plan[i] \in Disturbance /\ Duration(plan[i])
    BY <1>1, <1>2, ElementOf DEF DatasetAssumption
  <2>2. plan[i].start \in Nat /\ plan[i].end \in Nat
    BY <2>1 DEF Disturbance
  <2>3. PICK duration \in Durations :
          /\ plan[i].start \in 0 .. MaxInt(0, Steps - duration)
          /\ plan[i].end = IF plan[i].start + duration <= Steps
                           THEN plan[i].start + duration ELSE Steps
    BY <2>1 DEF Duration
  <2>4. duration \in Nat /\ duration > 0 /\ Steps \in Nat /\ Steps > 0
    <3>1. Durations \subseteq Nat \ {0} /\ Steps \in Nat \ {0}
      BY DEF DatasetAssumption
    <3>2. duration \in Nat \ {0}
      BY <2>3, <3>1
    <3>3. QED
      BY <3>1, <3>2
  <2>5. QED
    BY <2>2, <2>3, <2>4 DEF MaxInt
<1>4. QED
  BY <1>2, <1>3

LEMMA NormFacts ==
  ASSUME NEW x \in Int PROVE Norm(x) \in Nat /\ (Norm(x) = 0 <=> x = 0)
  BY DEF Norm

\* What is felt has a strongest event.
LEMMA StrongestExists ==
  ASSUME NEW plan \in Seq(Disturbance), NEW k, NEW i \in Active(plan, k), plan[i].tau # 0
  PROVE  Strongest(plan, k) # {}
<1> DEFINE S == Active(plan, k)
           f == [j \in S |-> 0 - Norm(plan[j].tau)]
<1>1. IsFiniteSet(S) /\ S \subseteq Int
  <2>1. Len(plan) \in Nat /\ S \subseteq 1 .. Len(plan)
    BY DEF Active
  <2>2. IsFiniteSet(1 .. Len(plan))
    BY <2>1, FS_Interval
  <2>3. QED
    BY <2>1, <2>2, FS_Subset
<1>2. \A j \in S : plan[j].tau \in Int
  <2>1. \A j \in S : plan[j] \in Disturbance
    BY ElementOf DEF Active
  <2>2. QED
    BY <2>1 DEF Disturbance
<1>3. \A j \in S : Norm(plan[j].tau) \in Nat /\ (Norm(plan[j].tau) = 0 <=> plan[j].tau = 0)
  BY <1>2, NormFacts
<1>4. f \in [S -> Int] /\ S # {}
  BY <1>3
<1>5. PICK j \in S : \A l \in S \ {j} : Before(f, j, l)
  <2> HIDE DEF S, f
  <2>1. QED
    BY <1>1, <1>4, LeastExists
<1>6. ASSUME NEW l \in S
      PROVE  \/ Norm(plan[l].tau) < Norm(plan[j].tau)
             \/ Norm(plan[l].tau) = Norm(plan[j].tau) /\ j <= l
  <2>1. CASE l = j
    BY <1>1, <2>1
  <2>2. CASE l # j
    <3>1. Before(f, j, l) /\ f[j] = 0 - Norm(plan[j].tau) /\ f[l] = 0 - Norm(plan[l].tau)
      BY <1>5, <2>2
    <3> HIDE DEF f, S
    <3>2. QED
      BY <1>1, <1>3, <3>1 DEF Before
  <2>3. QED
    BY <2>1, <2>2
<1>7. plan[j].tau # 0
  BY <1>3, <1>6
<1>8. j \in Strongest(plan, k)
  BY <1>6, <1>7 DEF Strongest
<1>9. QED
  BY <1>8

\* A sample and the events of its plan.
LEMMA SampleFacts ==
  ASSUME DatasetAssumption, NEW plan \in Seq(Disturbance), NEW k \in Int,
         NEW mode \in TrajectoryModes, EpisodeOffset + episodes \in Int, Len(events) \in Nat
  PROVE  LET sample == Sample(plan, k, mode)
         IN /\ sample \in SampleRecord
            /\ sample.episode = EpisodeOffset + episodes /\ sample.time = k /\ sample.mode = mode
            /\ sample.label = 1 <=> Active(plan, k) # {} /\ Norm(sample.tau) > LabelEps
            /\ sample.label = 1 => \E i \in Active(plan, k) : sample.active = Len(events) + i - 1
            /\ Active(plan, k) = {} => sample.tau = 0 /\ sample.active = NoEvent
<1>1. PICK sample : sample = Sample(plan, k, mode)
  OBVIOUS
<1>2. /\ sample.episode = EpisodeOffset + episodes /\ sample.time = k /\ sample.mode = mode
      /\ sample.label = Label(plan, k) /\ sample.tau = TauAtStep(plan, k)
      /\ sample.active = IF Strongest(plan, k) = {} THEN NoEvent
                         ELSE Len(events) + (CHOOSE i \in Strongest(plan, k) : TRUE) - 1
  BY <1>1 DEF Sample
<1>3. /\ sample.tau \in Int
      /\ (\A i \in Active(plan, k) : plan[i].tau = 0) => sample.tau = 0
  BY <1>2, TauIsASum
<1>4. Label(plan, k) \in {0, 1}
  BY DEF Label
<1>5. sample.label = 1 <=> Active(plan, k) # {} /\ Norm(sample.tau) > LabelEps
  BY <1>2 DEF Label
<1>6. Strongest(plan, k) \subseteq Active(plan, k) /\ Active(plan, k) \subseteq Int
  BY DEF Strongest, Active
<1>7. Strongest(plan, k) # {} =>
        \E i \in Active(plan, k) : sample.active = Len(events) + i - 1
  BY <1>2, <1>6
<1>8. sample.active \in Int
  BY <1>2, <1>6, <1>7 DEF NoEvent
<1>9. sample.label = 1 => Strongest(plan, k) # {}
  <2>1. ASSUME sample.label = 1 PROVE \E i \in Active(plan, k) : plan[i].tau # 0
    <3>1. Norm(sample.tau) > LabelEps /\ LabelEps \in Nat
      BY <1>5, <2>1 DEF DatasetAssumption
    <3>2. Norm(sample.tau) \in Nat /\ (sample.tau = 0 => Norm(sample.tau) = 0)
      BY <1>3, NormFacts
    <3>3. QED
      BY <1>3, <3>1, <3>2
  <2>2. QED
    BY <2>1, StrongestExists
<1>10. sample \in SampleRecord
  BY <1>1, <1>2, <1>3, <1>4, <1>8 DEF SampleRecord, Sample
<1>11. Active(plan, k) = {} => sample.tau = 0 /\ sample.active = NoEvent
  BY <1>2, <1>3, <1>6
<1>12. QED
  BY <1>1, <1>2, <1>5, <1>7, <1>9, <1>10, <1>11

\* What a sequence is after others are put behind it.
LEMMA PutBehind ==
  ASSUME NEW T, NEW s \in Seq(T), NEW n \in Nat, NEW g \in [1 .. n -> T]
  PROVE  /\ s \o g \in Seq(T) /\ Len(s \o g) = Len(s) + n
         /\ \A i \in DOMAIN s : (s \o g)[i] = s[i]
         /\ \A k \in 1 .. n : (s \o g)[Len(s) + k] = g[k]
<1>1. g \in Seq(T) /\ Len(g) = n
  OBVIOUS
<1>2. QED
  BY <1>1

\* What an episode adds to its split.
EpisodeAdded(plan, mode) ==
  /\ samples' \in Seq(SampleRecord) /\ Len(samples') = Len(samples) + Steps
  /\ \A i \in DOMAIN samples : samples'[i] = samples[i]
  /\ \A k \in 1 .. Steps : samples'[Len(samples) + k] = Sample(plan, k - 1, mode)
  /\ events' \in Seq(EventRow) /\ Len(events') = Len(events) + Len(plan)
  /\ \A e \in DOMAIN events : events'[e] = events[e]
  /\ \A j \in DOMAIN plan : events'[Len(events) + j] = TableRow(plan, j, mode)

LEMMA EpisodeIsAdded ==
  ASSUME DatasetAssumption, DatasetInv, NEW plan \in Seq(Disturbance),
         NEW mode \in TrajectoryModes, EpisodeOffset \in Nat,
         samples' = samples \o [k \in 1 .. Steps |-> Sample(plan, k - 1, mode)],
         events' = events \o [i \in DOMAIN plan |-> TableRow(plan, i, mode)]
  PROVE  EpisodeAdded(plan, mode)
<1>1. /\ samples \in Seq(SampleRecord) /\ events \in Seq(EventRow) /\ episodes \in Nat
      /\ Steps \in Nat /\ Len(plan) \in Nat /\ DOMAIN plan = 1 .. Len(plan)
      /\ Len(samples) \in Nat /\ Len(events) \in Nat
  BY DEF DatasetInv, SplitOK, DatasetAssumption
<1>2. \A k \in 1 .. Steps : Sample(plan, k - 1, mode) \in SampleRecord
  <2> SUFFICES ASSUME NEW k \in 1 .. Steps PROVE Sample(plan, k - 1, mode) \in SampleRecord
    OBVIOUS
  <2>1. k - 1 \in Int /\ EpisodeOffset + episodes \in Int
    BY <1>1
  <2>2. QED
    BY <1>1, <2>1, SampleFacts
<1>3. \A j \in DOMAIN plan : TableRow(plan, j, mode) \in EventRow
  <2> SUFFICES ASSUME NEW j \in DOMAIN plan PROVE TableRow(plan, j, mode) \in EventRow
    OBVIOUS
  <2>1. plan[j] \in Disturbance
    BY ElementOf
  <2>2. plan[j].start \in Nat /\ plan[j].end \in Nat /\ plan[j].magnitude \in Nat
    BY <2>1 DEF Disturbance
  <2>3. /\ Len(events) + j - 1 \in Nat /\ EpisodeOffset + episodes \in Int
        /\ Len(samples) + plan[j].start + 1 \in Int /\ Len(samples) + plan[j].end \in Int
    <3>1. j \in Nat /\ j >= 1
      BY <1>1
    <3>2. Len(events) + j - 1 \in Nat
      BY <1>1, <3>1
    <3>3. Len(samples) + plan[j].start + 1 \in Int /\ Len(samples) + plan[j].end \in Int
      <4>1. Len(samples) \in Nat
        BY <1>1
      <4>2. QED
        BY <2>2, <4>1
    <3>4. EpisodeOffset + episodes \in Int
      BY <1>1
    <3>5. QED
      BY <3>2, <3>3, <3>4
  <2>4. QED
    BY <2>2, <2>3 DEF TableRow, EventRow
<1>4. PICK new : new = [k \in 1 .. Steps |-> Sample(plan, k - 1, mode)]
  OBVIOUS
<1>5. new \in [1 .. Steps -> SampleRecord]
  BY <1>2, <1>4
<1>6. /\ samples' \in Seq(SampleRecord) /\ Len(samples') = Len(samples) + Steps
      /\ \A i \in DOMAIN samples : samples'[i] = samples[i]
      /\ \A k \in 1 .. Steps : samples'[Len(samples) + k] = new[k]
  <2>1. samples' = samples \o new
    BY <1>4
  <2>2. /\ samples \o new \in Seq(SampleRecord) /\ Len(samples \o new) = Len(samples) + Steps
        /\ \A i \in DOMAIN samples : (samples \o new)[i] = samples[i]
        /\ \A k \in 1 .. Steps : (samples \o new)[Len(samples) + k] = new[k]
    BY <1>1, <1>5, PutBehind
  <2>3. QED
    BY <2>1, <2>2
<1>7. PICK rows : rows = [j \in 1 .. Len(plan) |-> TableRow(plan, j, mode)]
  OBVIOUS
<1>8. rows \in [1 .. Len(plan) -> EventRow]
  BY <1>1, <1>3, <1>7
<1>9. /\ events' \in Seq(EventRow) /\ Len(events') = Len(events) + Len(plan)
      /\ \A e \in DOMAIN events : events'[e] = events[e]
      /\ \A j \in 1 .. Len(plan) : events'[Len(events) + j] = rows[j]
  BY <1>1, <1>7, <1>8, PutBehind
<1>10. QED
  BY <1>1, <1>4, <1>6, <1>7, <1>9 DEF EpisodeAdded

\* The events that are in a sample: in an old one as before, in a new one those that
\* are active then.
LEMMA ThereNext ==
  ASSUME DatasetAssumption, DatasetInv, NEW plan \in Seq(Disturbance), NEW mode,
         EpisodeAdded(plan, mode)
  PROVE  /\ \A i \in DOMAIN samples : There(events', i) = There(events, i)
         /\ \A k \in 1 .. Steps :
              There(events', Len(samples) + k) = {Len(events) + j : j \in Active(plan, k - 1)}
<1>1. /\ samples \in Seq(SampleRecord) /\ events \in Seq(EventRow)
      /\ Len(plan) \in Nat /\ DOMAIN plan = 1 .. Len(plan)
      /\ Len(samples) \in Nat /\ Len(events) \in Nat
      /\ DOMAIN samples = 1 .. Len(samples) /\ DOMAIN events = 1 .. Len(events)
  BY DEF DatasetInv, SplitOK
<1>2. DOMAIN events' = 1 .. (Len(events) + Len(plan))
  BY <1>1 DEF EpisodeAdded
<1>3. ASSUME NEW j \in DOMAIN plan
      PROVE  /\ plan[j].start \in Nat /\ plan[j].end \in Nat
             /\ events'[Len(events) + j].first = Len(samples) + plan[j].start + 1
             /\ events'[Len(events) + j].last = Len(samples) + plan[j].end
  <2>1. plan[j] \in Disturbance
    BY ElementOf
  <2>2. plan[j].start \in Nat /\ plan[j].end \in Nat
    BY <2>1 DEF Disturbance
  <2>3. events'[Len(events) + j] = TableRow(plan, j, mode)
    BY DEF EpisodeAdded
  <2>4. QED
    BY <2>2, <2>3 DEF TableRow
<1>4. ASSUME NEW e \in DOMAIN events
      PROVE  /\ events'[e] = events[e] /\ e \in DOMAIN events'
             /\ events[e].first \in Int /\ events[e].last \in Int
             /\ events[e].last <= Len(samples)
  <2>1. events[e] \in EventRow
    BY <1>1, ElementOf
  <2>2. events[e].first \in Int /\ events[e].last \in Int
    BY <2>1 DEF EventRow
  <2>3. events[e].last <= Len(samples)
    BY DEF DatasetInv, SplitOK
  <2>4. events'[e] = events[e] /\ e \in DOMAIN events'
    BY <1>1, <1>2 DEF EpisodeAdded
  <2>5. QED
    BY <2>2, <2>3, <2>4
<1>5. ASSUME NEW e \in DOMAIN events'
      PROVE  e \in DOMAIN events \/ \E j \in DOMAIN plan : e = Len(events) + j
  <2>1. CASE e <= Len(events)
    BY <1>1, <1>2, <2>1
  <2>2. CASE e > Len(events)
    <3>1. e - Len(events) \in DOMAIN plan /\ e = Len(events) + (e - Len(events))
      BY <1>1, <1>2, <2>2
    <3>2. QED
      BY <3>1
  <2>3. QED
    BY <1>1, <1>2, <2>1, <2>2
<1>6. ASSUME NEW i \in DOMAIN samples PROVE There(events', i) = There(events, i)
  <2>1. ASSUME NEW e \in There(events', i) PROVE e \in There(events, i)
    <3>1. CASE e \in DOMAIN events
      BY <1>4, <2>1, <3>1 DEF There
    <3>2. ASSUME NEW j \in DOMAIN plan, e = Len(events) + j PROVE FALSE
      <4>1. /\ events'[Len(events) + j].first = Len(samples) + plan[j].start + 1
            /\ plan[j].start \in Nat
        BY <1>3
      <4>2. events'[Len(events) + j].first <= i /\ i <= Len(samples) /\ i \in Nat
        BY <1>1, <1>6, <2>1, <3>2 DEF There
      <4>3. QED
        BY <1>1, <4>1, <4>2
    <3>3. QED
      BY <1>5, <2>1, <3>1, <3>2 DEF There
  <2>2. ASSUME NEW e \in There(events, i) PROVE e \in There(events', i)
    BY <1>4, <2>2 DEF There
  <2>3. QED
    BY <2>1, <2>2
<1>7. ASSUME NEW k \in 1 .. Steps
      PROVE  There(events', Len(samples) + k) = {Len(events) + j : j \in Active(plan, k - 1)}
  <2>1. ASSUME NEW e \in There(events', Len(samples) + k)
        PROVE  \E j \in Active(plan, k - 1) : e = Len(events) + j
    <3>1. e \notin DOMAIN events
      BY <1>1, <1>4, <2>1 DEF There
    <3>2. PICK j \in DOMAIN plan : e = Len(events) + j
      BY <1>5, <2>1, <3>1 DEF There
    <3>3. j \in Active(plan, k - 1)
      BY <1>1, <1>3, <2>1, <3>2 DEF There, Active
    <3>4. QED
      BY <3>2, <3>3
  <2>2. ASSUME NEW j \in Active(plan, k - 1)
        PROVE  Len(events) + j \in There(events', Len(samples) + k)
    <3>1. j \in DOMAIN plan /\ plan[j].start <= k - 1 /\ k - 1 < plan[j].end
      BY DEF Active
    <3>2. Len(events) + j \in DOMAIN events'
      BY <1>1, <1>2, <3>1
    <3>3. QED
      BY <1>1, <1>3, <3>1, <3>2 DEF There
  <2>3. QED
    BY <2>1, <2>2
<1>8. QED
  BY <1>6, <1>7

\* An index of what has grown is an old one or a new one.
LEMMA OldOrNew ==
  ASSUME NEW old \in Nat, NEW new \in Nat, NEW i \in 1 .. (old + new)
  PROVE  i \in 1 .. old \/ \E k \in 1 .. new : i = old + k
<1>1. CASE i <= old
  BY <1>1
<1>2. CASE i > old
  <2>1. i - old \in 1 .. new /\ i = old + (i - old)
    BY <1>2
  <2>2. QED
    BY <2>1
<1>3. QED
  BY <1>1, <1>2

LEMMA StepOf ==
  ASSUME NEW n \in Nat, NEW steps \in Nat, NEW start \in Nat, NEW end \in Nat, end <= steps,
         NEW i \in n + start + 1 .. n + end
  PROVE  i - n \in 1 .. steps /\ i = n + (i - n)
  OBVIOUS

LEMMA EpisodeKeepsSplit ==
  ASSUME DatasetAssumption, DatasetInv, NEW plan \in Seq(Disturbance),
         \A i \in DOMAIN plan : /\ 0 <= plan[i].start /\ plan[i].start < plan[i].end
                                /\ plan[i].end <= Steps,
         NEW mode \in TrajectoryModes, EpisodeOffset \in Nat, EpisodeAdded(plan, mode)
  PROVE  /\ SplitOK(samples', events')
         /\ \A i \in DOMAIN samples' : samples'[i].episode - EpisodeOffset \in 0 .. episodes
<1> DEFINE n == Len(samples)
           m == Len(events)
<1>1. /\ samples \in Seq(SampleRecord) /\ events \in Seq(EventRow)
      /\ episodes \in Nat /\ Steps \in Nat
      /\ Len(plan) \in Nat /\ DOMAIN plan = 1 .. Len(plan)
      /\ n \in Nat /\ m \in Nat /\ DOMAIN samples = 1 .. n /\ DOMAIN events = 1 .. m
  BY DEF DatasetInv, SplitOK, DatasetAssumption
<1>2. DOMAIN samples' = 1 .. (n + Steps) /\ DOMAIN events' = 1 .. (m + Len(plan))
  BY <1>1 DEF EpisodeAdded
<1>3. \A i \in DOMAIN samples' : i \in DOMAIN samples \/ \E k \in 1 .. Steps : i = n + k
  <2> HIDE DEF n
  <2>1. \A i \in 1 .. (n + Steps) : i \in 1 .. n \/ \E k \in 1 .. Steps : i = n + k
    BY <1>1, OldOrNew
  <2>2. QED
    BY <1>1, <1>2, <2>1
<1>4. \A e \in DOMAIN events' : e \in DOMAIN events \/ \E j \in DOMAIN plan : e = m + j
  <2> HIDE DEF m
  <2>1. \A e \in 1 .. (m + Len(plan)) : e \in 1 .. m \/ \E j \in 1 .. Len(plan) : e = m + j
    BY <1>1, OldOrNew
  <2>2. QED
    BY <1>1, <1>2, <2>1
<1>5. ASSUME NEW k \in 1 .. Steps
      PROVE  LET sample == samples'[n + k]
             IN /\ sample.episode = EpisodeOffset + episodes
                /\ sample.time = k - 1 /\ sample.mode = mode
                /\ sample.label = 1 <=> Active(plan, k - 1) # {} /\ Norm(sample.tau) > LabelEps
                /\ sample.label = 1 =>
                     \E j \in Active(plan, k - 1) : sample.active = m + j - 1
                /\ Active(plan, k - 1) = {} => sample.tau = 0 /\ sample.active = NoEvent
  <2>1. samples'[n + k] = Sample(plan, k - 1, mode)
    BY DEF EpisodeAdded
  <2>2. k - 1 \in Int /\ EpisodeOffset + episodes \in Int
    BY <1>1
  <2>3. QED
    BY <1>1, <2>1, <2>2, SampleFacts
<1>6. ASSUME NEW j \in DOMAIN plan
      PROVE  /\ events'[m + j].id = m + j - 1 /\ events'[m + j].mode = mode
             /\ events'[m + j].episode = EpisodeOffset + episodes
             /\ events'[m + j].first = n + plan[j].start + 1
             /\ events'[m + j].last = n + plan[j].end
             /\ plan[j].start \in Nat /\ plan[j].end \in Nat
  <2>1. plan[j] \in Disturbance
    BY ElementOf
  <2>2. plan[j].start \in Nat /\ plan[j].end \in Nat
    BY <2>1 DEF Disturbance
  <2>3. events'[m + j] = TableRow(plan, j, mode)
    BY DEF EpisodeAdded
  <2>4. QED
    BY <2>2, <2>3 DEF TableRow
<1>7. ASSUME NEW i \in DOMAIN samples
      PROVE  samples'[i] = samples[i] /\ There(events', i) = There(events, i)
  BY ThereNext DEF EpisodeAdded
<1>8. ASSUME NEW k \in 1 .. Steps
      PROVE  There(events', n + k) = {m + j : j \in Active(plan, k - 1)}
  BY ThereNext
<1>9. ASSUME NEW e \in DOMAIN events
      PROVE  events'[e] = events[e] /\ e \in DOMAIN events'
  BY <1>1, <1>2 DEF EpisodeAdded
<1>10. samples' \in Seq(SampleRecord) /\ events' \in Seq(EventRow) /\ Len(samples') = n + Steps
  BY DEF EpisodeAdded
<1> HIDE DEF n, m
<1>11. ASSUME NEW e \in DOMAIN events'
       PROVE  /\ events'[e].id = e - 1
              /\ 1 <= events'[e].first /\ events'[e].first <= events'[e].last
              /\ events'[e].last <= Len(samples')
              /\ \A i \in events'[e].first .. events'[e].last :
                   samples'[i].episode = events'[e].episode /\ samples'[i].mode = events'[e].mode
  <2>1. CASE e \in DOMAIN events
    <3>1. events[e] \in EventRow
      BY <1>1, <2>1, ElementOf
    <3>2. /\ events[e].id = e - 1
          /\ events[e].first \in Int /\ events[e].last \in Int
          /\ 1 <= events[e].first /\ events[e].first <= events[e].last /\ events[e].last <= n
          /\ \A i \in events[e].first .. events[e].last :
               samples[i].episode = events[e].episode /\ samples[i].mode = events[e].mode
      BY <2>1, <3>1 DEF DatasetInv, SplitOK, EventRow, n
    <3>3. \A i \in events[e].first .. events[e].last : i \in DOMAIN samples
      <4>1. n \in Nat /\ DOMAIN samples = 1 .. n
        BY <1>1
      <4>2. /\ events[e].first \in Int /\ events[e].last \in Int
            /\ 1 <= events[e].first /\ events[e].last <= n
        BY <3>2
      <4>3. events[e].first .. events[e].last \subseteq 1 .. n
        BY <4>1, <4>2
      <4>4. QED
        BY <4>1, <4>3
    <3>4. events'[e] = events[e]
      BY <1>9, <2>1
    <3>5. \A i \in events[e].first .. events[e].last : samples'[i] = samples[i]
      BY <1>7, <3>3
    <3>6. events[e].last <= Len(samples')
      BY <1>1, <1>10, <3>2
    <3>7. QED
      BY <3>2, <3>4, <3>5, <3>6
  <2>2. ASSUME NEW j \in DOMAIN plan, e = m + j
        PROVE  /\ events'[e].id = e - 1
               /\ 1 <= events'[e].first /\ events'[e].first <= events'[e].last
               /\ events'[e].last <= Len(samples')
               /\ \A i \in events'[e].first .. events'[e].last :
                    samples'[i].episode = events'[e].episode /\ samples'[i].mode = events'[e].mode
    <3>1. /\ events'[e].id = m + j - 1 /\ events'[e].mode = mode
          /\ events'[e].episode = EpisodeOffset + episodes
          /\ events'[e].first = n + plan[j].start + 1
          /\ events'[e].last = n + plan[j].end
          /\ plan[j].start \in Nat /\ plan[j].end \in Nat
          /\ plan[j].start < plan[j].end /\ plan[j].end <= Steps
      BY <1>6, <2>2
    <3>2. ASSUME NEW i \in events'[e].first .. events'[e].last
          PROVE  samples'[i].episode = events'[e].episode /\ samples'[i].mode = events'[e].mode
      <4>1. i - n \in 1 .. Steps /\ i = n + (i - n)
        <5>1. n \in Nat /\ Steps \in Nat
          BY <1>1
        <5>2. i \in n + plan[j].start + 1 .. n + plan[j].end
          BY <3>1, <3>2
        <5>3. /\ plan[j].start \in Nat /\ plan[j].end \in Nat /\ plan[j].end <= Steps
          BY <3>1
        <5>4. QED
          BY <5>1, <5>2, <5>3, StepOf
      <4>2. samples'[i].episode = EpisodeOffset + episodes /\ samples'[i].mode = mode
        BY <1>5, <4>1
      <4>3. QED
        BY <3>1, <4>2
    <3>3. /\ events'[e].id = e - 1
          /\ 1 <= events'[e].first /\ events'[e].first <= events'[e].last
          /\ events'[e].last <= Len(samples')
      <4>1. /\ 1 <= n + plan[j].start + 1 /\ n + plan[j].start + 1 <= n + plan[j].end
            /\ n + plan[j].end <= n + Steps
        <5>1. n \in Nat /\ Steps \in Nat
          BY <1>1
        <5>2. /\ plan[j].start \in Nat /\ plan[j].end \in Nat
              /\ plan[j].start < plan[j].end /\ plan[j].end <= Steps
          BY <3>1
        <5>3. QED
          BY <5>1, <5>2
      <4>2. events'[e].id = e - 1
        BY <1>1, <2>2, <3>1
      <4>3. QED
        BY <1>10, <3>1, <4>1, <4>2
    <3>4. QED
      BY <3>2, <3>3
  <2>3. QED
    BY <1>4, <2>1, <2>2
<1>12. ASSUME NEW i \in DOMAIN samples'
       PROVE  /\ samples'[i].label = 1 <=>
                   There(events', i) # {} /\ Norm(samples'[i].tau) > LabelEps
              /\ samples'[i].label = 1 =>
                   \E e \in There(events', i) : events'[e].id = samples'[i].active
              /\ There(events', i) = {} => samples'[i].tau = 0 /\ samples'[i].active = NoEvent
  <2>1. CASE i \in DOMAIN samples
    <3>1. /\ samples[i].label = 1 <=> There(events, i) # {} /\ Norm(samples[i].tau) > LabelEps
          /\ samples[i].label = 1 => \E e \in There(events, i) : events[e].id = samples[i].active
          /\ There(events, i) = {} => samples[i].tau = 0 /\ samples[i].active = NoEvent
      BY <2>1 DEF DatasetInv, SplitOK
    <3>2. \A e \in There(events, i) : events'[e] = events[e]
      BY <1>9 DEF There
    <3>3. QED
      BY <1>7, <2>1, <3>1, <3>2
  <2>2. ASSUME NEW k \in 1 .. Steps, i = n + k
        PROVE  /\ samples'[i].label = 1 <=>
                    There(events', i) # {} /\ Norm(samples'[i].tau) > LabelEps
               /\ samples'[i].label = 1 =>
                    \E e \in There(events', i) : events'[e].id = samples'[i].active
               /\ There(events', i) = {} =>
                    samples'[i].tau = 0 /\ samples'[i].active = NoEvent
    <3>1. There(events', i) = {m + j : j \in Active(plan, k - 1)}
      BY <1>8, <2>2
    <3>2. There(events', i) = {} <=> Active(plan, k - 1) = {}
      BY <3>1
    <3>3. \A j \in Active(plan, k - 1) : events'[m + j].id = m + j - 1
      BY <1>6 DEF Active
    <3>4. /\ samples'[i].label = 1 <=>
               Active(plan, k - 1) # {} /\ Norm(samples'[i].tau) > LabelEps
          /\ samples'[i].label = 1 =>
               \E j \in Active(plan, k - 1) : samples'[i].active = m + j - 1
          /\ Active(plan, k - 1) = {} => samples'[i].tau = 0 /\ samples'[i].active = NoEvent
      BY <1>5, <2>2
    <3>5. samples'[i].label = 1 => \E e \in There(events', i) : events'[e].id = samples'[i].active
      BY <3>1, <3>3, <3>4
    <3>6. QED
      BY <3>2, <3>4, <3>5
  <2>3. QED
    BY <1>3, <2>1, <2>2
<1>13. ASSUME NEW i \in DOMAIN samples
       PROVE  samples[i].episode \in Int /\ samples[i].episode - EpisodeOffset \in 0 .. episodes - 1
  <2>1. samples[i] \in SampleRecord
    BY <1>1, ElementOf
  <2>2. QED
    BY <2>1 DEF DatasetInv, SampleRecord
<1>14. ASSUME NEW i \in DOMAIN samples', NEW j \in DOMAIN samples',
              samples'[i].episode = samples'[j].episode
       PROVE  samples'[j].time - samples'[i].time = j - i
  <2>1. CASE i \in DOMAIN samples /\ j \in DOMAIN samples
    BY <1>7, <1>14, <2>1 DEF DatasetInv, SplitOK
  <2>2. ASSUME NEW l \in DOMAIN samples, NEW k \in 1 .. Steps,
               samples'[l].episode = samples'[n + k].episode
        PROVE  FALSE
    <3>1. samples'[n + k].episode = EpisodeOffset + episodes
      BY <1>5
    <3>2. /\ samples'[l] = samples[l] /\ samples[l].episode \in Int
          /\ samples[l].episode - EpisodeOffset \in 0 .. episodes - 1
      BY <1>7, <1>13
    <3>3. QED
      BY <1>1, <2>2, <3>1, <3>2
  <2>3. ASSUME NEW k \in 1 .. Steps, NEW l \in 1 .. Steps, i = n + k, j = n + l
        PROVE  samples'[j].time - samples'[i].time = j - i
    <3>1. samples'[i].time = k - 1 /\ samples'[j].time = l - 1
      BY <1>5, <2>3
    <3>2. QED
      BY <1>1, <2>3, <3>1
  <2>4. QED
    BY <1>3, <1>14, <2>1, <2>2, <2>3
<1>15. \A i \in DOMAIN samples' : samples'[i].episode - EpisodeOffset \in 0 .. episodes
  <2> SUFFICES ASSUME NEW i \in DOMAIN samples'
               PROVE  samples'[i].episode - EpisodeOffset \in 0 .. episodes
    OBVIOUS
  <2>1. CASE i \in DOMAIN samples
    BY <1>1, <1>7, <1>13, <2>1
  <2>2. ASSUME NEW k \in 1 .. Steps, i = n + k
        PROVE  samples'[i].episode - EpisodeOffset \in 0 .. episodes
    <3>1. samples'[i].episode = EpisodeOffset + episodes
      BY <1>5, <2>2
    <3>2. QED
      BY <1>1, <3>1
  <2>3. QED
    BY <1>3, <2>1, <2>2
<1>16. SplitOK(samples', events')
  BY <1>10, <1>11, <1>12, <1>14 DEF SplitOK
<1>17. QED
  BY <1>15, <1>16

LEMMA DatasetStarts == ASSUME DatasetAssumption, DatasetInit PROVE DatasetInv
<1>1. Len(Splits) \in Nat
  BY DEF DatasetAssumption
<1>2. SplitOK(samples, events)
  BY DEF DatasetInit, SplitOK
<1>3. saved \in Seq([samples : Seq(SampleRecord), events : Seq(EventRow)]) /\ Len(saved) <= Len(Splits)
  BY <1>1 DEF DatasetInit
<1>4. QED
  BY <1>2, <1>3 DEF DatasetInit, DatasetInv

LEMMA OffsetIsKept ==
  ASSUME saved' = saved PROVE EpisodeOffset' = EpisodeOffset
  BY DEF EpisodeOffset, FoldSeq, FoldFunction, FoldFunctionOnSet, MapThenFoldSet

\* The invariant of the next state, spelled out.
LEMMA InvNext ==
  ASSUME /\ episodes' \in Nat /\ Len(saved') <= Len(Splits)
         /\ saved' \in Seq([samples : Seq(SampleRecord), events : Seq(EventRow)])
         /\ SplitOK(samples', events')
         /\ \A i \in DOMAIN samples' : samples'[i].episode - EpisodeOffset' \in 0 .. episodes' - 1
         /\ \A s \in DOMAIN saved' : SplitOK(saved'[s].samples, saved'[s].events)
         /\ \A s, t \in DOMAIN saved' :
              s # t => EpisodesOf(saved'[s]) \cap EpisodesOf(saved'[t]) = {}
  PROVE  DatasetInv'
<1>1. SplitOK(samples, events)'
  BY DEF SplitOK, There, Norm, SampleRecord, EventRow, NoEvent
<1>2. (\A s \in DOMAIN saved : SplitOK(saved[s].samples, saved[s].events))'
  BY DEF SplitOK, There, Norm, SampleRecord, EventRow, NoEvent
<1>3. (\A s, t \in DOMAIN saved : s # t => EpisodesOf(saved[s]) \cap EpisodesOf(saved[t]) = {})'
  BY DEF EpisodesOf
<1>4. (saved \in Seq([samples : Seq(SampleRecord), events : Seq(EventRow)]))'
  BY DEF SampleRecord, EventRow
<1>5. QED
  BY <1>1, <1>2, <1>3, <1>4 DEF DatasetInv

LEMMA GenerateStep ==
  ASSUME DatasetAssumption, DatasetInv, GenerateEpisode PROVE DatasetInv'
<1>1. PICK mode \in TrajectoryModes, plan \in Splits[Len(saved) + 1].disturbances :
        /\ samples' = samples \o [k \in 1 .. Steps |-> Sample(plan, k - 1, mode)]
        /\ events' = events \o [i \in DOMAIN plan |-> TableRow(plan, i, mode)]
  BY DEF GenerateEpisode
<1>2. Len(saved) < Len(Splits) /\ saved' = saved /\ episodes' = episodes + 1
  BY DEF GenerateEpisode
<1>3. /\ plan \in Seq(Disturbance)
      /\ \A i \in DOMAIN plan : /\ 0 <= plan[i].start /\ plan[i].start < plan[i].end
                                /\ plan[i].end <= Steps
  BY <1>2, PlanFacts
<1>4. EpisodeOffset \in Nat
  BY OffsetIsNatural DEF DatasetInv
<1>5. EpisodeAdded(plan, mode)
  BY <1>1, <1>3, <1>4, EpisodeIsAdded
<1>6. /\ SplitOK(samples', events')
      /\ \A i \in DOMAIN samples' : samples'[i].episode - EpisodeOffset \in 0 .. episodes
  BY <1>3, <1>4, <1>5, EpisodeKeepsSplit
<1>7. EpisodeOffset' = EpisodeOffset /\ episodes \in Nat /\ episodes' - 1 = episodes
  <2>1. EpisodeOffset' = EpisodeOffset
    BY <1>2, OffsetIsKept
  <2>2. QED
    BY <1>2, <2>1 DEF DatasetInv
<1>8. \A i \in DOMAIN samples' : samples'[i].episode - EpisodeOffset' \in 0 .. episodes' - 1
  BY <1>6, <1>7
<1>9. QED
  <2>1. episodes' \in Nat /\ Len(saved') <= Len(Splits)
    BY <1>2, <1>7
  <2>2. \A s \in DOMAIN saved' : SplitOK(saved'[s].samples, saved'[s].events)
    BY <1>2 DEF DatasetInv
  <2>3. /\ saved' \in Seq([samples : Seq(SampleRecord), events : Seq(EventRow)])
        /\ \A s, t \in DOMAIN saved' : s # t => EpisodesOf(saved'[s]) \cap EpisodesOf(saved'[t]) = {}
    BY <1>2 DEF DatasetInv
  <2>4. QED
    BY <1>6, <1>8, <2>1, <2>2, <2>3, InvNext

LEMMA SaveStep ==
  ASSUME DatasetAssumption, DatasetInv, SaveSplit PROVE DatasetInv'
<1>1. PICK split : split = [samples |-> samples, events |-> events]
  OBVIOUS
<1>2. /\ Len(saved) < Len(Splits) /\ saved' = Append(saved, split)
      /\ \A i \in DOMAIN saved : EpisodesOf(saved[i]) \cap EpisodesOf(split) = {}
      /\ episodes' = 0 /\ samples' = <<>> /\ events' = <<>>
  BY <1>1 DEF SaveSplit
<1>3. Len(Splits) \in Nat /\ saved \in Seq([samples : Seq(SampleRecord), events : Seq(EventRow)])
  BY DEF DatasetAssumption, DatasetInv
<1>4. split \in [samples : Seq(SampleRecord), events : Seq(EventRow)]
      /\ SplitOK(split.samples, split.events)
  BY <1>1 DEF DatasetInv, SplitOK
<1>5. /\ saved' \in Seq([samples : Seq(SampleRecord), events : Seq(EventRow)])
      /\ Len(saved') = Len(saved) + 1 /\ DOMAIN saved' = 1 .. Len(saved) + 1
      /\ \A s \in DOMAIN saved : saved'[s] = saved[s]
      /\ saved'[Len(saved) + 1] = split
      /\ \A s \in DOMAIN saved' : s \in DOMAIN saved \/ s = Len(saved) + 1
  <2>1. PICK Split0 : Split0 = [samples : Seq(SampleRecord), events : Seq(EventRow)]
    OBVIOUS
  <2>2. saved \in Seq(Split0) /\ split \in Split0 /\ saved' = Append(saved, split)
    BY <1>2, <1>3, <1>4, <2>1
  <2>3. saved' \in Seq(Split0) /\ Len(saved') = Len(saved) + 1
    BY <2>2
  <2>4. /\ DOMAIN saved' = 1 .. Len(saved) + 1 /\ DOMAIN saved = 1 .. Len(saved)
        /\ Len(saved) \in Nat
    BY <2>2, <2>3
  <2>5. (\A s \in DOMAIN saved : saved'[s] = saved[s]) /\ saved'[Len(saved) + 1] = split
    BY <2>2, <2>4
  <2>6. \A s \in DOMAIN saved' : s \in DOMAIN saved \/ s = Len(saved) + 1
    BY <2>4
  <2>7. QED
    BY <2>1, <2>3, <2>4, <2>5, <2>6
<1>6. Len(saved') <= Len(Splits)
  BY <1>2, <1>3, <1>5
<1>7. \A s \in DOMAIN saved' : SplitOK(saved'[s].samples, saved'[s].events)
  <2> SUFFICES ASSUME NEW s \in DOMAIN saved' PROVE SplitOK(saved'[s].samples, saved'[s].events)
    OBVIOUS
  <2>1. CASE s \in DOMAIN saved
    <3>1. SplitOK(saved[s].samples, saved[s].events) /\ saved'[s] = saved[s]
      BY <1>5, <2>1 DEF DatasetInv
    <3>2. QED
      BY <3>1
  <2>2. CASE s = Len(saved) + 1
    BY <1>4, <1>5, <2>2
  <2>3. QED
    BY <1>5, <2>1, <2>2
<1>8. ASSUME NEW s \in DOMAIN saved', NEW t \in DOMAIN saved', s # t
      PROVE  EpisodesOf(saved'[s]) \cap EpisodesOf(saved'[t]) = {}
  <2>1. CASE s \in DOMAIN saved /\ t \in DOMAIN saved
    <3>1. EpisodesOf(saved[s]) \cap EpisodesOf(saved[t]) = {}
      BY <1>8, <2>1 DEF DatasetInv
    <3>2. QED
      BY <1>5, <2>1, <3>1
  <2>2. CASE s \in DOMAIN saved /\ t = Len(saved) + 1
    BY <1>2, <1>5, <2>2
  <2>3. CASE s = Len(saved) + 1 /\ t \in DOMAIN saved
    BY <1>2, <1>5, <2>3
  <2>4. QED
    BY <1>5, <1>8, <2>1, <2>2, <2>3
<1>9. SplitOK(samples', events')
  BY <1>2 DEF SplitOK
<1>10. QED
  <2>1. episodes' \in Nat /\ DOMAIN samples' = {}
    BY <1>2
  <2>2. QED
    BY <1>5, <1>6, <1>7, <1>8, <1>9, <2>1, InvNext

LEMMA DatasetStutters ==
  ASSUME DatasetInv, UNCHANGED datasetVars PROVE DatasetInv'
<1>1. episodes' = episodes /\ samples' = samples /\ events' = events /\ saved' = saved
  BY DEF datasetVars
<1>2. EpisodeOffset' = EpisodeOffset
  BY <1>1, OffsetIsKept
<1>3. /\ episodes' \in Nat /\ Len(saved') <= Len(Splits)
      /\ saved' \in Seq([samples : Seq(SampleRecord), events : Seq(EventRow)])
      /\ SplitOK(samples', events')
      /\ \A s \in DOMAIN saved' : SplitOK(saved'[s].samples, saved'[s].events)
      /\ \A s, t \in DOMAIN saved' : s # t => EpisodesOf(saved'[s]) \cap EpisodesOf(saved'[t]) = {}
  BY <1>1 DEF DatasetInv
<1>4. \A i \in DOMAIN samples' : samples'[i].episode - EpisodeOffset' \in 0 .. episodes' - 1
  BY <1>1, <1>2 DEF DatasetInv
<1>5. QED
  BY <1>3, <1>4, InvNext

LEMMA SavedIsSound == ASSUME DatasetInv PROVE DatasetIsSound
<1> SUFFICES ASSUME NEW s \in DOMAIN saved
             PROVE  LET rows == saved[s].samples
                        table == saved[s].events
                    IN /\ \A e \in DOMAIN table : \A i \in table[e].first .. table[e].last :
                            /\ i \in DOMAIN rows
                            /\ rows[i].episode = table[e].episode /\ rows[i].mode = table[e].mode
                       /\ \A i \in DOMAIN rows :
                            /\ rows[i].label = 1 <=>
                                 There(table, i) # {} /\ Norm(rows[i].tau) > LabelEps
                            /\ rows[i].label = 1 =>
                                 \E e \in There(table, i) : table[e].id = rows[i].active
                            /\ There(table, i) = {} => rows[i].tau = 0 /\ rows[i].active = NoEvent
                       /\ \A e, f \in DOMAIN table : table[e].id = table[f].id => e = f
                       /\ \A t \in DOMAIN saved :
                            s # t => EpisodesOf(saved[s]) \cap EpisodesOf(saved[t]) = {}
  BY DEF DatasetIsSound
<1>1. PICK rows : rows = saved[s].samples
  OBVIOUS
<1>2. PICK table : table = saved[s].events
  OBVIOUS
<1>3. SplitOK(rows, table)
  BY <1>1, <1>2 DEF DatasetInv
<1>4. ASSUME NEW e \in DOMAIN table, NEW i \in table[e].first .. table[e].last
      PROVE  i \in DOMAIN rows
  <2>1. table[e] \in EventRow /\ rows \in Seq(SampleRecord)
    BY <1>3, ElementOf DEF SplitOK
  <2>2. /\ table[e].first \in Int /\ table[e].last \in Int
        /\ 1 <= table[e].first /\ table[e].last <= Len(rows)
    BY <1>3, <2>1 DEF SplitOK, EventRow
  <2>3. QED
    BY <2>1, <2>2
<1>5. ASSUME NEW e \in DOMAIN table, NEW f \in DOMAIN table, table[e].id = table[f].id
      PROVE  e = f
  <2>1. e \in Int /\ f \in Int /\ table[e].id = e - 1 /\ table[f].id = f - 1
    <3>1. DOMAIN table \subseteq Int
      BY <1>3 DEF SplitOK
    <3>2. QED
      BY <1>3, <3>1 DEF SplitOK
  <2>2. e - 1 = f - 1
    BY <1>5, <2>1
  <2>3. QED
    BY <2>1, <2>2
<1>6. \A t \in DOMAIN saved : s # t => EpisodesOf(saved[s]) \cap EpisodesOf(saved[t]) = {}
  BY DEF DatasetInv
<1>7. QED
  BY <1>1, <1>2, <1>3, <1>4, <1>5, <1>6 DEF SplitOK

\* The labels of a dataset agree with its table of events, and no episode is in two
\* splits, for any splits and any disturbances: however they overlap and cancel.
THEOREM DatasetsAreSound == DatasetSpec => []DatasetIsSound
<1>1. DatasetInit => DatasetInv
  BY DatasetAssumption, DatasetStarts
<1>2. DatasetInv /\ [DatasetNext]_datasetVars => DatasetInv'
  BY DatasetAssumption, GenerateStep, SaveStep, DatasetStutters DEF DatasetNext
<1>3. DatasetInv => DatasetIsSound
  BY SavedIsSound
<1>4. QED
  BY <1>1, <1>2, <1>3, PTL DEF DatasetSpec

-----------------------------------------------------------------------------
(* ContactEvaluation *)

\* Windows end in samples.
LEMMA EndsAreSamples ==
  ASSUME NEW episode, NEW n \in Nat, DOMAIN episode = 1 .. n,
         NEW length \in Nat \ {0}, NEW stride \in Nat \ {0}
  PROVE  WindowEnds(episode, length, stride) \subseteq 1 .. n
<1> SUFFICES ASSUME NEW s \in EpisodeSlices(episode), NEW e \in s[1] + length - 1 .. s[2]
             PROVE  e \in 1 .. n
  BY DEF WindowEnds
<1>1. s[1] \in 1 .. n /\ s[2] \in 1 .. n
  BY DEF EpisodeSlices
<1>2. QED
  BY <1>1

\* The split that is evaluated, and its windows.
LEMMA WindowFacts ==
  ASSUME DatasetAssumption, EvaluationAssumption, EvaluationInv, setting # NoSetting,
         NEW rows, rows = Split.samples, NEW table, table = Split.events,
         NEW ends, ends = EndIndices(setting), NEW windows, windows = AtWindows(setting)
  PROVE  /\ SplitOK(rows, table)
         /\ DOMAIN ends \subseteq Nat \ {0} /\ DOMAIN windows = DOMAIN ends
         /\ \A w \in DOMAIN ends : ends[w] \in DOMAIN rows /\ windows[w] = rows[ends[w]]
         /\ \A v, w \in DOMAIN ends : v < w => ends[v] < ends[w]
         /\ \E n \in Nat : DOMAIN ends = 1 .. n
<1>1. Len(saved) \in DOMAIN saved
  <2>1. Len(saved) = Len(Splits) /\ saved \in Seq([samples : Seq(SampleRecord), events : Seq(EventRow)])
    BY DEF EvaluationInv, DatasetInv
  <2>2. Len(Splits) \in Nat \ {0}
    BY DEF DatasetAssumption
  <2>3. QED
    BY <2>1, <2>2
<1>2. SplitOK(rows, table)
  BY <1>1 DEF EvaluationInv, DatasetInv, Split
<1>3. Len(rows) \in Nat /\ DOMAIN rows = 1 .. Len(rows)
  BY <1>2 DEF SplitOK
<1>4. setting.window \in Nat \ {0} /\ setting.stride \in Nat \ {0}
  BY DEF EvaluationInv, EvaluationAssumption
<1>5. PICK S : S = WindowEnds(EpisodeIds, setting.window, setting.stride)
  OBVIOUS
<1>6. S \subseteq 1 .. Len(rows)
  <2>1. DOMAIN EpisodeIds = 1 .. Len(rows)
    BY <1>3 DEF EpisodeIds
  <2>2. QED
    BY <1>3, <1>4, <1>5, <2>1, EndsAreSamples
<1>7. IsFiniteSet(S) /\ S \in SUBSET Int
  <2>1. IsFiniteSet(1 .. Len(rows))
    <3>1. PICK n \in Nat : n = Len(rows)
      BY <1>3
    <3>2. IsFiniteSet(1 .. n)
      BY UpToIsFinite
    <3>3. QED
      BY <3>1, <3>2
  <2>2. IsFiniteSet(S)
    BY <1>6, <2>1, FS_Subset
  <2>3. QED
    BY <1>6, <2>2
<1>8. ends = Ascending(S)
  BY <1>5 DEF EndIndices, Ascending
<1>9. /\ Cardinality(S) \in Nat /\ ends \in [1 .. Cardinality(S) -> S]
      /\ \A v, w \in 1 .. Cardinality(S) : v < w => ends[v] < ends[w]
  BY <1>7, <1>8, AscendingFacts
<1>10. windows = [w \in DOMAIN ends |-> rows[ends[w]]]
  BY DEF AtWindows
<1>11. DOMAIN ends = 1 .. Cardinality(S) /\ DOMAIN ends \subseteq Nat \ {0}
  BY <1>9
<1>12. \A w \in DOMAIN ends : ends[w] \in DOMAIN rows
  BY <1>3, <1>6, <1>9
<1>13. QED
  BY <1>2, <1>9, <1>10, <1>11, <1>12

\* In an episode a later window is not earlier.
LEMMA TimeGoesOn ==
  ASSUME DatasetAssumption, EvaluationAssumption, EvaluationInv, setting # NoSetting,
         NEW windows, windows = AtWindows(setting),
         NEW v \in DOMAIN windows, NEW w \in DOMAIN windows, v <= w,
         windows[v].episode = windows[w].episode
  PROVE  windows[v].time \in Int /\ windows[w].time \in Int /\ windows[v].time <= windows[w].time
<1>1. PICK rows : rows = Split.samples
  OBVIOUS
<1>2. PICK table : table = Split.events
  OBVIOUS
<1>3. PICK ends : ends = EndIndices(setting)
  OBVIOUS
<1>4. /\ SplitOK(rows, table)
      /\ DOMAIN ends \subseteq Nat \ {0} /\ DOMAIN windows = DOMAIN ends
      /\ \A x \in DOMAIN ends : ends[x] \in DOMAIN rows /\ windows[x] = rows[ends[x]]
      /\ \A x, y \in DOMAIN ends : x < y => ends[x] < ends[y]
  BY <1>1, <1>2, <1>3, WindowFacts
<1>5. /\ ends[v] \in DOMAIN rows /\ ends[w] \in DOMAIN rows
      /\ windows[v] = rows[ends[v]] /\ windows[w] = rows[ends[w]]
  BY <1>4
<1>6. /\ rows[ends[v]].time \in Int /\ rows[ends[w]].time \in Int
      /\ ends[v] \in Int /\ ends[w] \in Int
  <2>1. rows \in Seq(SampleRecord)
    BY <1>4 DEF SplitOK
  <2>2. rows[ends[v]] \in SampleRecord /\ rows[ends[w]] \in SampleRecord
    BY <1>5, <2>1, ElementOf
  <2>3. rows[ends[v]].time \in Int /\ rows[ends[w]].time \in Int
    BY <2>2 DEF SampleRecord
  <2>4. ends[v] \in Int /\ ends[w] \in Int
    BY <1>5, <2>1
  <2>5. QED
    BY <2>3, <2>4
<1>7. rows[ends[w]].time - rows[ends[v]].time = ends[w] - ends[v]
  BY <1>4, <1>5 DEF SplitOK
<1>8. ends[v] <= ends[w]
  <2>1. CASE v = w
    BY <1>6, <2>1
  <2>2. CASE v < w
    BY <1>4, <1>6, <2>2
  <2>3. v \in Nat /\ w \in Nat
    BY <1>4
  <2>4. QED
    BY <2>1, <2>2, <2>3
<1>9. QED
  BY <1>5, <1>6, <1>7, <1>8

\* The first of consecutive positive windows.
LEMMA FirstIsFirst ==
  ASSUME NEW search \in SUBSET (Nat \ {0}), NEW threshold,
         NEW good, good = {w \in search : Positive(w, threshold)}
  PROVE  LET first == FirstStableDetection(search, threshold)
         IN IF \E w \in good : Stable(good, w + setting.consecutive - 1)
            THEN /\ first \in good /\ Stable(good, first + setting.consecutive - 1)
                 /\ \A w \in good : Stable(good, w + setting.consecutive - 1) => first <= w
            ELSE first = NotDetected
<1>1. PICK stable : stable = {w \in good : Stable(good, w + setting.consecutive - 1)}
  OBVIOUS
<1>2. PICK first : first = FirstStableDetection(search, threshold)
  OBVIOUS
<1>3. first = IF stable = {} THEN NotDetected ELSE CHOOSE w \in stable : \A v \in stable : w <= v
  BY <1>1, <1>2 DEF FirstStableDetection
<1>4. ASSUME stable # {} PROVE first \in stable /\ \A v \in stable : first <= v
  <2>1. stable \in SUBSET Nat
    BY <1>1
  <2>2. \E w \in stable : \A v \in stable : w <= v
    BY <1>4, <2>1, LeastNumber
  <2>3. QED
    BY <1>3, <1>4, <2>2
<1>5. QED
  BY <1>1, <1>2, <1>3, <1>4

LEMMA EvaluationStarts ==
  ASSUME DatasetAssumption, DatasetInit, EvaluationStart PROVE EvaluationInv
  BY DatasetStarts DEF EvaluationStart, EvaluationInv

LEMMA EndsAreKept ==
  ASSUME saved' = saved, setting' = setting PROVE EndIndices(setting)' = EndIndices(setting)
  BY DEF EndIndices, WindowEnds, EpisodeSlices, EpisodeIds, Split

LEMMA EvaluationStep ==
  ASSUME DatasetAssumption, EvaluationAssumption, EvaluationInv,
         [(DatasetNext /\ UNCHANGED evaluationVars) \/ EvaluationNext]_<<datasetVars, evaluationVars>>
  PROVE  EvaluationInv'
<1>1. CASE DatasetNext /\ UNCHANGED evaluationVars
  <2>1. DatasetInv'
    BY <1>1, GenerateStep, SaveStep DEF DatasetNext, EvaluationInv
  <2>2. Len(saved) < Len(Splits) /\ setting' = setting
    BY <1>1 DEF DatasetNext, GenerateEpisode, SaveSplit, evaluationVars
  <2>3. setting' = NoSetting
    BY <2>2 DEF EvaluationInv, DatasetInv, DatasetAssumption
  <2>4. QED
    BY <2>1, <2>3 DEF EvaluationInv, NoSetting
<1>2. CASE EvaluationNext
  <2>1. UNCHANGED datasetVars
    BY <1>2 DEF EvaluationNext
  <2>2. DatasetInv'
    BY <2>1, DatasetStutters DEF EvaluationInv
  <2>3. /\ Len(saved) = Len(Splits) /\ setting' \in Settings
        /\ likelihood' \in [DOMAIN EndIndices(setting') -> Likelihoods]
    BY <1>2 DEF EvaluationNext, Begin
  <2>4. EndIndices(setting)' = EndIndices(setting')
    BY <2>1 DEF EndIndices, WindowEnds, EpisodeSlices, EpisodeIds, Split, datasetVars
  <2>5. QED
    BY <2>1, <2>2, <2>3, <2>4 DEF EvaluationInv, datasetVars
<1>3. CASE UNCHANGED <<datasetVars, evaluationVars>>
  <2>1. DatasetInv'
    BY <1>3, DatasetStutters DEF EvaluationInv
  <2>2. saved' = saved /\ setting' = setting /\ likelihood' = likelihood
    BY <1>3 DEF datasetVars, evaluationVars
  <2>3. EndIndices(setting)' = EndIndices(setting)
    BY <2>2, EndsAreKept
  <2>4. QED
    BY <2>1, <2>2, <2>3 DEF EvaluationInv, NoSetting
<1>4. QED
  BY <1>1, <1>2, <1>3

\* A threshold that is higher makes no window positive that was not.
LEMMA HigherIsStricter ==
  ASSUME EvaluationAssumption, EvaluationInv, setting # NoSetting,
         NEW low \in Thresholds, NEW high \in Thresholds, low < high,
         NEW w \in DOMAIN EndIndices(setting), Positive(w, high)
  PROVE  Positive(w, low)
<1>1. likelihood[w] \in Nat /\ low \in Nat /\ high \in Nat
  BY DEF EvaluationInv, EvaluationAssumption
<1>2. likelihood[w] >= high
  BY DEF Positive
<1>3. QED
  BY <1>1, <1>2 DEF Positive

\* By events: what a higher threshold finds a lower one finds too, and not later.
LEMMA StricterFindsLess ==
  ASSUME DatasetAssumption, EvaluationAssumption, EvaluationInv, setting # NoSetting,
         NEW low \in Thresholds, NEW high \in Thresholds, low < high,
         NEW search \in SUBSET DOMAIN EndIndices(setting),
         FirstStableDetection(search, high) # NotDetected
  PROVE  /\ FirstStableDetection(search, low) # NotDetected
         /\ FirstStableDetection(search, low) <= FirstStableDetection(search, high)
<1>1. search \in SUBSET (Nat \ {0})
  <2>1. PICK ends : ends = EndIndices(setting)
    OBVIOUS
  <2>2. DOMAIN ends \subseteq Nat \ {0}
    BY <2>1, WindowFacts
  <2>3. QED
    BY <2>1, <2>2
<1>2. PICK loose : loose = {w \in search : Positive(w, low)}
  OBVIOUS
<1>3. PICK strict : strict = {w \in search : Positive(w, high)}
  OBVIOUS
<1>4. strict \subseteq loose
  BY <1>2, <1>3, HigherIsStricter
<1>5. \A w : Stable(strict, w) => Stable(loose, w)
  BY <1>4 DEF Stable
<1>6. PICK x : x = FirstStableDetection(search, high)
  OBVIOUS
<1>7. PICK y : y = FirstStableDetection(search, low)
  OBVIOUS
<1>8. x \in strict /\ Stable(strict, x + setting.consecutive - 1)
  BY <1>1, <1>3, <1>6, FirstIsFirst
<1>9. x \in loose /\ Stable(loose, x + setting.consecutive - 1)
  BY <1>4, <1>5, <1>8
<1>10. y \in loose /\ y <= x
  BY <1>1, <1>2, <1>7, <1>9, FirstIsFirst
<1>11. y # NotDetected
  BY <1>1, <1>2, <1>10 DEF NotDetected
<1>12. QED
  BY <1>6, <1>7, <1>10, <1>11

\* The first hit in a segment.
FirstHit(s, threshold) ==
  LET hits == {w \in s[1] .. s[2] : Positive(w, threshold)}
  IN CHOOSE w \in hits : \A v \in hits : w <= v

\* What a segment is, and when it is detected.
LEMMA SegmentFacts ==
  ASSUME NEW windows, DOMAIN windows \subseteq Nat \ {0}, NEW s \in Segments(windows)
  PROVE  /\ s[1] \in DOMAIN windows /\ s[2] \in DOMAIN windows /\ s[1] <= s[2]
         /\ \A w \in s[1] .. s[2] :
              /\ w \in DOMAIN windows /\ windows[w].label = 1
              /\ windows[w].episode = windows[s[1]].episode
  BY DEF Segments

LEMMA HitFacts ==
  ASSUME NEW windows, DOMAIN windows \subseteq Nat \ {0}, NEW s \in Segments(windows),
         NEW threshold, NEW w \in s[1] .. s[2], Positive(w, threshold)
  PROVE  /\ s \in DOMAIN DetectionDelay(windows, threshold)
         /\ FirstHit(s, threshold) \in s[1] .. s[2] /\ Positive(FirstHit(s, threshold), threshold)
         /\ FirstHit(s, threshold) <= w
         /\ DetectionDelay(windows, threshold)[s] =
              windows[FirstHit(s, threshold)].time - windows[s[1]].time
<1>1. PICK hits : hits = {v \in s[1] .. s[2] : Positive(v, threshold)}
  OBVIOUS
<1>2. hits \in SUBSET Nat /\ w \in hits
  <2>1. s[1] \in Nat /\ s[2] \in Nat
    BY SegmentFacts
  <2>2. QED
    BY <1>1, <2>1
<1>3. \E v \in hits : \A u \in hits : v <= u
  BY <1>2, LeastNumber
<1>4. FirstHit(s, threshold) = CHOOSE v \in hits : \A u \in hits : v <= u
  BY <1>1 DEF FirstHit
<1>5. FirstHit(s, threshold) \in hits /\ \A u \in hits : FirstHit(s, threshold) <= u
  BY <1>3, <1>4
<1>6. s \in DOMAIN DetectionDelay(windows, threshold)
  BY DEF DetectionDelay
<1>7. DetectionDelay(windows, threshold)[s] =
        windows[FirstHit(s, threshold)].time - windows[s[1]].time
  BY DEF DetectionDelay, FirstHit
<1>8. QED
  BY <1>1, <1>2, <1>5, <1>6, <1>7

LEMMA DetectedHasHit ==
  ASSUME NEW windows, NEW threshold, NEW s \in DOMAIN DetectionDelay(windows, threshold)
  PROVE  s \in Segments(windows) /\ \E w \in s[1] .. s[2] : Positive(w, threshold)
  BY DEF DetectionDelay

LEMMA ThresholdsAreOrdered ==
  ASSUME DatasetAssumption, EvaluationAssumption, EvaluationInv
  PROVE  HigherThresholdFindsLess
<1> SUFFICES ASSUME setting # NoSetting,
                    NEW low \in Thresholds, NEW high \in Thresholds, low < high
             PROVE  LET loose == EventMetrics(low).detected
                        strict == EventMetrics(high).detected
                        sweep == ThresholdSweep(AtWindows(setting))
                    IN /\ \A e \in DOMAIN strict : strict[e] # NotDetected =>
                            loose[e] # NotDetected /\ loose[e] <= strict[e]
                       /\ \A s \in DOMAIN sweep[high] :
                            s \in DOMAIN sweep[low] /\ sweep[low][s] <= sweep[high][s]
  BY DEF HigherThresholdFindsLess
<1>1. PICK ends : ends = EndIndices(setting)
  OBVIOUS
<1>2. PICK table : table = Split.events
  OBVIOUS
<1>3. PICK windows : windows = AtWindows(setting)
  OBVIOUS
<1>4. DOMAIN ends \subseteq Nat \ {0} /\ DOMAIN windows = DOMAIN ends
  BY <1>1, <1>2, <1>3, WindowFacts
<1>5. \A t : EventMetrics(t).detected =
               [e \in DOMAIN table |-> FirstStableDetection(Search(table[e], ends), t)]
  BY <1>1, <1>2 DEF EventMetrics
<1>6. ASSUME NEW e \in DOMAIN table,
             FirstStableDetection(Search(table[e], ends), high) # NotDetected
      PROVE  /\ FirstStableDetection(Search(table[e], ends), low) # NotDetected
             /\ FirstStableDetection(Search(table[e], ends), low) <=
                  FirstStableDetection(Search(table[e], ends), high)
  <2>1. Search(table[e], ends) \in SUBSET DOMAIN EndIndices(setting)
    BY <1>1 DEF Search
  <2>2. QED
    BY <1>6, <2>1, StricterFindsLess
<1>7. ASSUME NEW s \in DOMAIN DetectionDelay(windows, high)
      PROVE  /\ s \in DOMAIN DetectionDelay(windows, low)
             /\ DetectionDelay(windows, low)[s] <= DetectionDelay(windows, high)[s]
  <2>1. s \in Segments(windows)
    BY DetectedHasHit
  <2>2. PICK v : v = FirstHit(s, high)
    OBVIOUS
  <2>3. /\ v \in s[1] .. s[2] /\ Positive(v, high)
        /\ DetectionDelay(windows, high)[s] = windows[v].time - windows[s[1]].time
    BY <1>4, <2>1, <2>2, DetectedHasHit, HitFacts
  <2>4. /\ s[1] \in DOMAIN windows /\ s[2] \in DOMAIN windows /\ s[1] <= s[2]
        /\ \A w \in s[1] .. s[2] :
             w \in DOMAIN windows /\ windows[w].episode = windows[s[1]].episode
    BY <1>4, <2>1, SegmentFacts
  <2>5. Positive(v, low)
    BY <1>1, <1>4, <2>3, <2>4, HigherIsStricter
  <2>6. PICK u : u = FirstHit(s, low)
    OBVIOUS
  <2>7. /\ s \in DOMAIN DetectionDelay(windows, low)
        /\ u \in s[1] .. s[2] /\ u <= v
        /\ DetectionDelay(windows, low)[s] = windows[u].time - windows[s[1]].time
    BY <1>4, <2>1, <2>3, <2>5, <2>6, HitFacts
  <2>8. /\ windows[u].time \in Int /\ windows[v].time \in Int
        /\ windows[u].time <= windows[v].time
    BY <1>3, <2>3, <2>4, <2>7, TimeGoesOn
  <2>9. windows[s[1]].time \in Int
    <3>1. s[1] <= s[1]
      BY <1>4, <2>4
    <3>2. QED
      BY <1>3, <2>4, <3>1, TimeGoesOn
  <2>10. QED
    BY <2>3, <2>7, <2>8, <2>9
<1>8. /\ ThresholdSweep(windows)[low] = DetectionDelay(windows, low)
      /\ ThresholdSweep(windows)[high] = DetectionDelay(windows, high)
  BY DEF ThresholdSweep
<1>9. PICK loose : loose = EventMetrics(low).detected
  OBVIOUS
<1>10. PICK strict : strict = EventMetrics(high).detected
  OBVIOUS
<1>11. ASSUME NEW e \in DOMAIN strict, strict[e] # NotDetected
       PROVE  loose[e] # NotDetected /\ loose[e] <= strict[e]
  <2>1. /\ strict = [x \in DOMAIN table |-> FirstStableDetection(Search(table[x], ends), high)]
        /\ loose = [x \in DOMAIN table |-> FirstStableDetection(Search(table[x], ends), low)]
    BY <1>5, <1>9, <1>10
  <2>2. /\ e \in DOMAIN table /\ strict[e] = FirstStableDetection(Search(table[e], ends), high)
        /\ loose[e] = FirstStableDetection(Search(table[e], ends), low)
    BY <2>1
  <2>3. QED
    BY <1>6, <1>11, <2>2
<1>12. QED
  BY <1>3, <1>7, <1>8, <1>9, <1>10, <1>11

\* What EventMetrics and DetectionDelay say of one threshold.
Agreement(windows, ends, table, found, delays) ==
  /\ \A e \in DOMAIN found.latency :
       LET w == found.detected[e]
       IN /\ \A s \in Segments(windows) : s[1] <= w /\ w <= s[2] =>
               /\ s \in DOMAIN delays
               /\ windows[s[1]].time + delays[s] <= windows[w].time
          /\ windows[w].episode = table[e].episode => found.latency[e] >= 0
  /\ setting.consecutive = 1 => \A s \in DOMAIN delays :
       \E e \in DOMAIN found.latency :
         /\ table[e].first <= ends[s[2]] /\ ends[s[1]] <= table[e].last
         /\ ends[found.detected[e]] <= table[e].last + setting.margin

LEMMA CountsAgree ==
  ASSUME DatasetAssumption, EvaluationAssumption, EvaluationInv, setting # NoSetting,
         NEW threshold, NEW windows, windows = AtWindows(setting),
         NEW ends, ends = EndIndices(setting), NEW table, table = Split.events,
         NEW found, found = EventMetrics(threshold),
         NEW delays, delays = DetectionDelay(windows, threshold)
  PROVE  Agreement(windows, ends, table, found, delays)
<1>1. PICK rows : rows = Split.samples
  OBVIOUS
<1>2. /\ SplitOK(rows, table)
      /\ DOMAIN ends \subseteq Nat \ {0} /\ DOMAIN windows = DOMAIN ends
      /\ \A w \in DOMAIN ends : ends[w] \in DOMAIN rows /\ windows[w] = rows[ends[w]]
      /\ \A v, w \in DOMAIN ends : v < w => ends[v] < ends[w]
  BY <1>1, WindowFacts
<1>3. /\ found.detected =
           [e \in DOMAIN table |-> FirstStableDetection(Search(table[e], ends), threshold)]
      /\ found.latency =
           [e \in {e \in DOMAIN table : found.detected[e] # NotDetected} |->
              rows[ends[found.detected[e]]].time - rows[table[e].first].time]
  BY <1>1 DEF EventMetrics
<1>4. ASSUME NEW e \in DOMAIN table
      PROVE  /\ Search(table[e], ends) \in SUBSET (Nat \ {0})
             /\ Search(table[e], ends) \subseteq DOMAIN ends
  BY <1>2 DEF Search
<1>5. rows \in Seq(SampleRecord) /\ table \in Seq(EventRow) /\ DOMAIN rows \subseteq Int
  BY <1>2 DEF SplitOK
<1>6. ASSUME NEW e \in DOMAIN found.latency, NEW w, w = found.detected[e]
      PROVE  /\ e \in DOMAIN table /\ w \in DOMAIN ends /\ Positive(w, threshold)
             /\ table[e].first <= ends[w] /\ ends[w] <= table[e].last + setting.margin
  <2>1. /\ e \in DOMAIN table /\ w # NotDetected
        /\ w = FirstStableDetection(Search(table[e], ends), threshold)
    BY <1>3, <1>6
  <2>2. w \in {v \in Search(table[e], ends) : Positive(v, threshold)}
    BY <1>4, <2>1, FirstIsFirst
  <2>3. QED
    BY <1>4, <2>1, <2>2 DEF Search
<1>7. ASSUME NEW e \in DOMAIN found.latency, NEW w, w = found.detected[e],
             NEW s \in Segments(windows), s[1] <= w, w <= s[2]
      PROVE  s \in DOMAIN delays /\ windows[s[1]].time + delays[s] <= windows[w].time
  <2>1. /\ s[1] \in DOMAIN windows /\ s[2] \in DOMAIN windows /\ s[1] <= s[2]
        /\ \A v \in s[1] .. s[2] :
             v \in DOMAIN windows /\ windows[v].episode = windows[s[1]].episode
    BY <1>2, SegmentFacts
  <2>2. w \in s[1] .. s[2] /\ s[1] \in s[1] .. s[2] /\ Positive(w, threshold)
    <3>1. w \in DOMAIN ends /\ Positive(w, threshold)
      BY <1>6, <1>7
    <3>2. s[1] \in Nat /\ s[2] \in Nat /\ w \in Nat
      BY <1>2, <2>1, <3>1
    <3>3. QED
      BY <1>7, <2>1, <3>1, <3>2
  <2>3. PICK u : u = FirstHit(s, threshold)
    OBVIOUS
  <2>4. /\ s \in DOMAIN delays /\ u \in s[1] .. s[2] /\ u <= w
        /\ delays[s] = windows[u].time - windows[s[1]].time
    <3>1. DOMAIN windows \subseteq Nat \ {0}
      BY <1>2
    <3>2. /\ s \in DOMAIN DetectionDelay(windows, threshold)
          /\ u \in s[1] .. s[2] /\ u <= w
          /\ DetectionDelay(windows, threshold)[s] = windows[u].time - windows[s[1]].time
      BY <2>2, <2>3, <3>1, HitFacts
    <3>3. QED
      BY <3>2
  <2>5. /\ windows[u].time \in Int /\ windows[w].time \in Int
        /\ windows[u].time <= windows[w].time
    BY <2>1, <2>2, <2>4, TimeGoesOn
  <2>6. windows[s[1]].time \in Int
    <3>1. s[1] <= s[1]
      BY <1>2, <2>1
    <3>2. QED
      BY <2>1, <3>1, TimeGoesOn
  <2>7. QED
    BY <2>4, <2>5, <2>6
<1>8. ASSUME NEW e \in DOMAIN found.latency, NEW w, w = found.detected[e],
             windows[w].episode = table[e].episode
      PROVE  found.latency[e] >= 0
  <2>1. /\ e \in DOMAIN table /\ w \in DOMAIN ends /\ table[e].first <= ends[w]
    BY <1>6, <1>8
  <2>2. PICK first : first = table[e].first
    OBVIOUS
  <2>3. /\ first \in DOMAIN rows /\ rows[first].episode = table[e].episode
    <3>1. table[e] \in EventRow
      BY <1>5, <2>1, ElementOf
    <3>2. /\ first \in Int /\ table[e].last \in Int
          /\ 1 <= first /\ first <= table[e].last /\ table[e].last <= Len(rows)
          /\ \A i \in first .. table[e].last : rows[i].episode = table[e].episode
      BY <1>2, <2>1, <2>2, <3>1 DEF EventRow, SplitOK
    <3>3. Len(rows) \in Nat /\ DOMAIN rows = 1 .. Len(rows)
      BY <1>5
    <3>4. first \in DOMAIN rows
      BY <3>2, <3>3
    <3>5. first \in first .. table[e].last
      BY <3>2
    <3>6. QED
      BY <3>2, <3>4, <3>5
  <2>4. /\ ends[w] \in DOMAIN rows /\ rows[ends[w]].episode = rows[first].episode
    BY <1>2, <1>8, <2>1, <2>3
  <2>5. rows[ends[w]].time - rows[first].time = ends[w] - first
    BY <1>2, <2>3, <2>4 DEF SplitOK
  <2>6. found.latency[e] = rows[ends[w]].time - rows[first].time
    BY <1>3, <1>8, <2>2
  <2>7. ends[w] \in Int /\ first \in Int
    BY <1>5, <2>3, <2>4
  <2>8. QED
    BY <2>1, <2>2, <2>5, <2>6, <2>7
<1>9. ASSUME setting.consecutive = 1, NEW s \in DOMAIN delays
      PROVE  \E e \in DOMAIN found.latency :
               /\ table[e].first <= ends[s[2]] /\ ends[s[1]] <= table[e].last
               /\ ends[found.detected[e]] <= table[e].last + setting.margin
  <2>1. s \in Segments(windows)
    BY DetectedHasHit
  <2>2. PICK w \in s[1] .. s[2] : Positive(w, threshold)
    BY DetectedHasHit
  <2>3. /\ s[1] \in DOMAIN ends /\ s[2] \in DOMAIN ends /\ w \in DOMAIN ends
        /\ s[1] <= w /\ w <= s[2] /\ windows[w].label = 1
    <3>1. /\ s[1] \in DOMAIN windows /\ s[2] \in DOMAIN windows
          /\ w \in DOMAIN windows /\ windows[w].label = 1
      BY <1>2, <2>1, <2>2, SegmentFacts
    <3>2. s[1] \in Nat /\ s[2] \in Nat
      BY <1>2, <3>1
    <3>3. s[1] <= w /\ w <= s[2]
      BY <2>2, <3>2
    <3>4. QED
      BY <1>2, <3>1, <3>3
  <2>4. /\ ends[w] \in DOMAIN rows /\ rows[ends[w]].label = 1
        /\ ends[s[1]] \in Int /\ ends[s[2]] \in Int /\ ends[w] \in Int
    BY <1>2, <1>5, <2>3
  <2>5. PICK e \in There(table, ends[w]) : TRUE
    BY <1>2, <2>4 DEF SplitOK
  <2>6. e \in DOMAIN table /\ table[e].first <= ends[w] /\ ends[w] <= table[e].last
    BY <2>5 DEF There
  <2>7. table[e].first \in Int /\ table[e].last \in Int /\ setting.margin \in Nat
    <3>1. table[e] \in EventRow
      BY <1>5, <2>6, ElementOf
    <3>2. QED
      BY <3>1 DEF EventRow, EvaluationInv, EvaluationAssumption
  <2>8. PICK good : good = {v \in Search(table[e], ends) : Positive(v, threshold)}
    OBVIOUS
  <2>9. w \in good /\ Stable(good, w + setting.consecutive - 1)
    <3>1. w \in Search(table[e], ends)
      BY <2>3, <2>4, <2>6, <2>7 DEF Search
    <3>2. w \in good /\ w \in Nat \ {0}
      BY <1>2, <2>2, <2>3, <2>8, <3>1
    <3>3. w + 1 - 1 - 1 + 1 = w /\ w + 1 - 1 = w /\ w .. w = {w} /\ w >= 1
      BY <3>2
    <3>4. QED
      BY <1>9, <3>2, <3>3 DEF Stable
  <2>10. FirstStableDetection(Search(table[e], ends), threshold) \in good
    BY <1>4, <2>6, <2>8, <2>9, FirstIsFirst
  <2>11. found.detected[e] \in Nat \ {0}
    BY <1>3, <1>4, <2>6, <2>8, <2>10
  <2>12. e \in DOMAIN found.latency
    BY <1>3, <2>6, <2>11 DEF NotDetected
  <2>13. ends[s[1]] <= ends[w] /\ ends[w] <= ends[s[2]]
    <3>1. s[1] \in Nat /\ s[2] \in Nat /\ w \in Nat
      BY <1>2, <2>3
    <3>2. (s[1] = w \/ s[1] < w) /\ (w = s[2] \/ w < s[2])
      BY <2>3, <3>1
    <3>3. (s[1] = w \/ ends[s[1]] < ends[w]) /\ (w = s[2] \/ ends[w] < ends[s[2]])
      BY <1>2, <2>3, <3>2
    <3>4. QED
      BY <2>4, <3>3
  <2>14. table[e].first <= ends[s[2]] /\ ends[s[1]] <= table[e].last
    BY <2>4, <2>6, <2>7, <2>13
  <2>15. QED
    BY <1>6, <2>12, <2>14
<1>10. QED
  BY <1>7, <1>8, <1>9 DEF Agreement

LEMMA EvaluationsAgree ==
  ASSUME DatasetAssumption, EvaluationAssumption, EvaluationInv
  PROVE  EventsAgreeWithSamples
<1> SUFFICES ASSUME setting # NoSetting, NEW threshold \in Thresholds
             PROVE  LET windows == AtWindows(setting)
                        ends == EndIndices(setting)
                        found == EventMetrics(threshold)
                        segments == Segments(AtWindows(setting))
                        delays == DetectionDelay(AtWindows(setting), threshold)
                        table == Split.events
                    IN /\ \A e \in DOMAIN found.latency :
                            LET w == found.detected[e]
                            IN /\ ends[w] <= table[e].last =>
                                    \A s \in {s \in segments : s[1] <= w /\ w <= s[2]} :
                                      /\ s \in DOMAIN delays
                                      /\ windows[s[1]].time + delays[s] <= windows[w].time
                               /\ windows[w].episode = table[e].episode => found.latency[e] >= 0
                       /\ setting.consecutive = 1 => \A s \in DOMAIN delays :
                            \E e \in DOMAIN found.latency :
                              /\ table[e].first <= ends[s[2]] /\ ends[s[1]] <= table[e].last
                              /\ ends[found.detected[e]] <= table[e].last + setting.margin
  BY DEF EventsAgreeWithSamples
<1>1. PICK windows : windows = AtWindows(setting)
  OBVIOUS
<1>2. PICK ends : ends = EndIndices(setting)
  OBVIOUS
<1>3. PICK table : table = Split.events
  OBVIOUS
<1>4. PICK found : found = EventMetrics(threshold)
  OBVIOUS
<1>5. PICK delays : delays = DetectionDelay(windows, threshold)
  OBVIOUS
<1>6. Agreement(windows, ends, table, found, delays)
  BY <1>1, <1>2, <1>3, <1>4, <1>5, CountsAgree
<1>7. QED
  BY <1>1, <1>2, <1>3, <1>4, <1>5, <1>6 DEF Agreement

\* The windows that one figure counts.
Figures == {"tp", "fp", "fn", "tn"}
Cell(chosen, windows, threshold, figure) ==
  {w \in chosen : /\ windows[w].label = IF figure \in {"tp", "fn"} THEN 1 ELSE 0
                  /\ Positive(w, threshold) <=> figure \in {"tp", "fp"}}

LEMMA CountsAreCells ==
  ASSUME NEW chosen, NEW windows, NEW threshold, NEW figure \in Figures
  PROVE  Counts(chosen, windows, threshold)[figure] =
           Cardinality(Cell(chosen, windows, threshold, figure))
<1> DEFINE of(label, positive) ==
             {w \in chosen : windows[w].label = label /\ (Positive(w, threshold) <=> positive)}
<1>1. /\ Counts(chosen, windows, threshold)["tp"] = Cardinality(of(1, TRUE))
      /\ Counts(chosen, windows, threshold)["fp"] = Cardinality(of(0, TRUE))
      /\ Counts(chosen, windows, threshold)["fn"] = Cardinality(of(1, FALSE))
      /\ Counts(chosen, windows, threshold)["tn"] = Cardinality(of(0, FALSE))
  BY DEF Counts
<1>2. /\ Cell(chosen, windows, threshold, "tp") = of(1, TRUE)
      /\ Cell(chosen, windows, threshold, "fp") = of(0, TRUE)
      /\ Cell(chosen, windows, threshold, "fn") = of(1, FALSE)
      /\ Cell(chosen, windows, threshold, "tn") = of(0, FALSE)
  BY DEF Cell
<1> HIDE DEF of
<1>3. QED
  BY <1>1, <1>2 DEF Figures

LEMMA TotalIsASum ==
  ASSUME NEW part, IsFiniteSet(DOMAIN part), NEW figure,
         \A p \in DOMAIN part : part[p][figure] \in Int
  PROVE  \E sum : /\ AddsUp(DOMAIN part, [p \in DOMAIN part |-> part[p][figure]], sum)
                  /\ TotalOf(part, figure) = sum[DOMAIN part]
<1> DEFINE S == DOMAIN part
           g == [p \in S |-> part[p][figure]]
<1>1. g \in [S -> Int]
  OBVIOUS
<1>2. \A U \in SUBSET S : U # {} => (CHOOSE x \in U : TRUE) \in S
  OBVIOUS
<1>3. PICK sum : AddsUp(S, g, sum)
  <2> HIDE DEF g
  <2>1. QED
    BY <1>1, SumExists
<1>4. sum = [U \in SUBSET S |->
               IF U = {} THEN 0
               ELSE LET x == CHOOSE x \in U : TRUE IN sum[U \ {x}] + part[x][figure]]
  BY <1>2, <1>3 DEF AddsUp
<1>5. PICK iter : /\ iter = [U \in SUBSET S |->
                               IF U = {} THEN 0
                               ELSE LET x == CHOOSE x \in U : TRUE
                                    IN iter[U \ {x}] + part[x][figure]]
                  /\ TotalOf(part, figure) = iter[S]
  BY <1>4 DEF TotalOf, FoldSet, MapThenFoldSet
<1>6. AddsUp(S, g, iter)
  BY <1>2, <1>5 DEF AddsUp
<1>7. QED
  BY <1>5, <1>6

Apart(P, chosen, windows, threshold, figure) ==
  \A p, q \in P : p # q => Cell(chosen[p], windows, threshold, figure)
                             \cap Cell(chosen[q], windows, threshold, figure) = {}

AllCells(P, chosen, windows, threshold, figure) ==
  UNION {Cell(chosen[p], windows, threshold, figure) : p \in P}

\* Counts of parts that have nothing in common add up.
LEMMA CountsAddUp ==
  ASSUME NEW P, IsFiniteSet(P), NEW D, IsFiniteSet(D), NEW windows, NEW threshold,
         NEW figure \in Figures, NEW chosen, \A p \in P : chosen[p] \subseteq D,
         NEW part, part = [p \in P |-> Counts(chosen[p], windows, threshold)],
         Apart(P, chosen, windows, threshold, figure)
  PROVE  TotalOf(part, figure) = Cardinality(AllCells(P, chosen, windows, threshold, figure))
<1> DEFINE cell == [p \in P |-> Cell(chosen[p], windows, threshold, figure)]
           g == [p \in P |-> Cardinality(cell[p])]
<1>1. \A p \in P : cell[p] \subseteq D
  BY DEF Cell
<1>2. \A p \in P : IsFiniteSet(cell[p]) /\ Cardinality(cell[p]) \in Nat
  <2> HIDE DEF cell
  <2>1. QED
    BY <1>1, FS_Subset, FS_CardinalityType
<1>3. DOMAIN part = P /\ \A p \in P : part[p][figure] = Cardinality(cell[p])
  BY CountsAreCells
<1>4. g = [p \in DOMAIN part |-> part[p][figure]]
  BY <1>3
<1>5. \A p, q \in P : p # q => cell[p] \cap cell[q] = {}
  BY DEF Apart
<1>6. UNION {cell[p] : p \in P} = AllCells(P, chosen, windows, threshold, figure)
  BY DEF AllCells
<1> HIDE DEF cell, g
<1>7. PICK sum : AddsUp(P, g, sum) /\ TotalOf(part, figure) = sum[P]
  <2>1. IsFiniteSet(DOMAIN part) /\ \A p \in DOMAIN part : part[p][figure] \in Int
    BY <1>2, <1>3
  <2>2. \E sum : /\ AddsUp(DOMAIN part, [p \in DOMAIN part |-> part[p][figure]], sum)
                 /\ TotalOf(part, figure) = sum[DOMAIN part]
    BY <2>1, TotalIsASum
  <2>3. QED
    BY <1>3, <1>4, <2>2
<1>8. g = [p \in P |-> Cardinality(cell[p])]
  BY DEF g
<1>9. sum[P] = Cardinality(UNION {cell[p] : p \in P})
  BY <1>2, <1>5, <1>7, <1>8, SizesAddUp
<1>10. QED
  BY <1>6, <1>7, <1>9

LEMMA ModesAddUp ==
  ASSUME NEW windows, IsFiniteSet(DOMAIN windows), NEW threshold, NEW figure \in Figures
  PROVE  TotalOf(ModeMetrics(windows, threshold), figure) =
           Counts(DOMAIN windows, windows, threshold)[figure]
<1> DEFINE D == DOMAIN windows
           f == [w \in D |-> windows[w].mode]
           P == {windows[w].mode : w \in D}
           chosen == [mode \in P |-> {w \in D : windows[w].mode = mode}]
<1>1. IsFiniteSet(P)
  <2>1. P = {f[w] : w \in D}
    OBVIOUS
  <2> HIDE DEF f
  <2>2. QED
    BY <2>1, ImageIsFinite
<1>2. ModeMetrics(windows, threshold) = [mode \in P |-> Counts(chosen[mode], windows, threshold)]
  BY DEF ModeMetrics
<1>3. \A mode \in P : chosen[mode] \subseteq D
  OBVIOUS
<1>4. Apart(P, chosen, windows, threshold, figure)
  BY DEF Apart, Cell
<1>5. AllCells(P, chosen, windows, threshold, figure) = Cell(D, windows, threshold, figure)
  <2>1. ASSUME NEW w \in Cell(D, windows, threshold, figure)
        PROVE  \E p \in P : w \in Cell(chosen[p], windows, threshold, figure)
    <3>1. w \in D /\ windows[w].mode \in P /\ w \in chosen[windows[w].mode]
      BY DEF Cell
    <3>2. w \in Cell(chosen[windows[w].mode], windows, threshold, figure)
      BY <3>1 DEF Cell
    <3>3. QED
      BY <3>1, <3>2
  <2>2. \A p \in P : Cell(chosen[p], windows, threshold, figure)
                       \subseteq Cell(D, windows, threshold, figure)
    BY <1>3 DEF Cell
  <2> HIDE DEF P, chosen, D
  <2>3. QED
    BY <2>1, <2>2 DEF AllCells
<1>6. IsFiniteSet(D)
  OBVIOUS
<1>7. PICK part : part = ModeMetrics(windows, threshold)
  OBVIOUS
<1> HIDE DEF P, chosen, D
<1>8. part = [mode \in P |-> Counts(chosen[mode], windows, threshold)]
  BY <1>2, <1>7
<1>9. TotalOf(part, figure) = Cardinality(AllCells(P, chosen, windows, threshold, figure))
  BY <1>1, <1>3, <1>4, <1>6, <1>8, CountsAddUp
<1>10. Counts(D, windows, threshold)[figure] = Cardinality(Cell(D, windows, threshold, figure))
  BY CountsAreCells
<1>11. QED
  BY <1>5, <1>7, <1>9, <1>10 DEF D

\* A magnitude is in one bin only, when the bins are apart.
LEMMA OneBin ==
  ASSUME NEW bins \in Seq(Nat \X Nat), NEW magnitude \in Nat,
         NEW a \in DOMAIN bins, NEW b \in DOMAIN bins,
         \A c, d \in DOMAIN bins : c < d => bins[c][2] <= bins[d][1],
         InBin(magnitude, bins, a), InBin(magnitude, bins, b)
  PROVE  a = b
<1>1. ASSUME NEW c \in DOMAIN bins, NEW d \in DOMAIN bins, c < d,
             InBin(magnitude, bins, c), InBin(magnitude, bins, d)
      PROVE  FALSE
  <2>1. bins[c] \in Nat \X Nat /\ bins[d] \in Nat \X Nat
    BY ElementOf
  <2>2. bins[c][2] \in Nat /\ bins[d][1] \in Nat
    BY <2>1
  <2>3. PICK n \in Nat : n = Len(bins) /\ DOMAIN bins = 1 .. n
    OBVIOUS
  <2>4. c \in Int /\ d \in Int /\ d <= n
    BY <2>3
  <2>5. c # n
    BY <1>1, <2>4
  <2>6. magnitude < bins[c][2]
    BY <1>1, <2>3, <2>5 DEF InBin
  <2>7. bins[d][1] <= magnitude
    BY <1>1 DEF InBin
  <2>8. bins[c][2] <= bins[d][1]
    BY <1>1
  <2>9. QED
    BY <2>2, <2>6, <2>7, <2>8
<1>2. a \in Nat /\ b \in Nat
  OBVIOUS
<1>3. QED
  BY <1>1, <1>2

\* The contacts in the bins are those of all windows.
LEMMA BinsAddUp ==
  ASSUME DatasetAssumption, EvaluationAssumption, EvaluationInv, setting # NoSetting,
         NEW threshold, NEW windows, windows = AtWindows(setting),
         NEW figure \in {"tp", "fn"}, NEW table, table = Split.events,
         NEW bins, bins = setting.bins,
         \A a, b \in DOMAIN bins : a < b => bins[a][2] <= bins[b][1],
         \A e \in DOMAIN table : \E b \in DOMAIN bins : InBin(table[e].magnitude, bins, b)
  PROVE  TotalOf(TorqueBinMetrics(windows, threshold), figure) =
           Counts(DOMAIN windows, windows, threshold)[figure]
<1> DEFINE D == DOMAIN windows
           P == DOMAIN bins
           inBin(b) == {e \in DOMAIN table : InBin(table[e].magnitude, bins, b)}
           positive(b) == {w \in D : \E e \in inBin(b) : table[e].id = windows[w].active}
           negative(b) == {w \in D : /\ windows[w].label = 0
                                     /\ \E e \in inBin(b) : table[e].episode = windows[w].episode}
           chosen == [b \in P |-> positive(b) \cup negative(b)]
           cell(b) == Cell(chosen[b], windows, threshold, figure)
<1>1. PICK rows : rows = Split.samples
  OBVIOUS
<1>2. PICK ends : ends = EndIndices(setting)
  OBVIOUS
<1>3. /\ SplitOK(rows, table) /\ DOMAIN windows = DOMAIN ends
      /\ \A w \in DOMAIN ends : ends[w] \in DOMAIN rows /\ windows[w] = rows[ends[w]]
      /\ \E n \in Nat : DOMAIN ends = 1 .. n
  BY <1>1, <1>2, WindowFacts
<1>4. IsFiniteSet(D)
  <2>1. PICK n \in Nat : D = 1 .. n
    BY <1>3
  <2>2. IsFiniteSet(1 .. n)
    BY UpToIsFinite
  <2>3. QED
    BY <2>1, <2>2
<1>5. bins \in Seq(Nat \X Nat)
  BY DEF EvaluationInv, EvaluationAssumption
<1>6. IsFiniteSet(P)
  <2>1. PICK n \in Nat : P = 1 .. n
    BY <1>5
  <2>2. IsFiniteSet(1 .. n)
    BY UpToIsFinite
  <2>3. QED
    BY <2>1, <2>2
<1>7. TorqueBinMetrics(windows, threshold) = [b \in P |-> Counts(chosen[b], windows, threshold)]
  BY DEF TorqueBinMetrics
<1>8. \A b \in P : chosen[b] \subseteq D
  OBVIOUS
<1>9. ASSUME NEW b \in P, NEW w
      PROVE  w \in cell(b) <=> /\ w \in Cell(D, windows, threshold, figure)
                               /\ \E e \in inBin(b) : table[e].id = windows[w].active
  <2>1. w \in cell(b) => w \in D /\ w \in Cell(D, windows, threshold, figure)
    BY <1>8 DEF Cell
  <2>2. w \in Cell(D, windows, threshold, figure) => windows[w].label = 1
    BY DEF Cell
  <2>3. ASSUME w \in cell(b) PROVE \E e \in inBin(b) : table[e].id = windows[w].active
    <3>1. w \in positive(b) \/ windows[w].label = 0
      BY <2>3 DEF Cell
    <3>2. QED
      BY <2>1, <2>2, <2>3, <3>1
  <2>4. ASSUME w \in Cell(D, windows, threshold, figure),
               \E e \in inBin(b) : table[e].id = windows[w].active
        PROVE  w \in cell(b)
    <3>1. w \in chosen[b]
      BY <2>4 DEF Cell
    <3>2. QED
      BY <2>4, <3>1 DEF Cell
  <2>5. QED
    BY <2>1, <2>3, <2>4
<1>10. ASSUME NEW e \in DOMAIN table
       PROVE  e \in Int /\ table[e].id = e - 1 /\ table[e].magnitude \in Nat
  <2>1. table \in Seq(EventRow)
    BY <1>3 DEF SplitOK
  <2>2. table[e] \in EventRow
    BY <2>1, ElementOf
  <2>3. e \in Int /\ table[e].id = e - 1
    BY <1>3, <2>1 DEF SplitOK
  <2>4. QED
    BY <2>2, <2>3 DEF EventRow
<1> HIDE DEF cell, chosen, positive, negative
<1>11. ASSUME NEW a \in P, NEW b \in P, a # b, NEW w \in cell(a) \cap cell(b) PROVE FALSE
  <2>1. PICK e \in inBin(a) : table[e].id = windows[w].active
    BY <1>9, <1>11
  <2>2. PICK f \in inBin(b) : table[f].id = windows[w].active
    BY <1>9, <1>11
  <2>3. e = f
    <3>1. e \in Int /\ f \in Int /\ e - 1 = f - 1
      BY <1>10, <2>1, <2>2
    <3>2. QED
      BY <3>1
  <2>4. InBin(table[e].magnitude, bins, a) /\ InBin(table[e].magnitude, bins, b)
    BY <2>1, <2>2, <2>3
  <2>5. QED
    BY <1>5, <1>10, <1>11, <2>1, <2>4, OneBin
<1>12. UNION {cell(b) : b \in P} = Cell(D, windows, threshold, figure)
  <2>1. ASSUME NEW w \in Cell(D, windows, threshold, figure) PROVE \E b \in P : w \in cell(b)
    <3>1. w \in D /\ windows[w].label = 1
      BY DEF Cell
    <3>2. ends[w] \in DOMAIN rows /\ windows[w] = rows[ends[w]]
      BY <1>3, <3>1
    <3>3. PICK e \in There(table, ends[w]) : table[e].id = windows[w].active
      BY <1>3, <3>1, <3>2 DEF SplitOK
    <3>4. e \in DOMAIN table
      BY <3>3 DEF There
    <3>5. PICK b \in P : InBin(table[e].magnitude, bins, b)
      BY <3>4
    <3>6. e \in inBin(b)
      BY <3>4, <3>5
    <3>7. QED
      BY <1>9, <3>3, <3>6
  <2>2. \A b \in P : cell(b) \subseteq Cell(D, windows, threshold, figure)
    BY <1>9
  <2>3. QED
    BY <2>1, <2>2
<1>13. \A a, b \in P : a # b => cell(a) \cap cell(b) = {}
  BY <1>11
<1>14. PICK part : part = TorqueBinMetrics(windows, threshold)
  OBVIOUS
<1>15. figure \in Figures
  BY DEF Figures
<1> HIDE DEF inBin, P, D
<1>16. Apart(P, chosen, windows, threshold, figure)
  BY <1>13 DEF cell, Apart
<1>17. TotalOf(part, figure) = Cardinality(AllCells(P, chosen, windows, threshold, figure))
  <2>1. part = [b \in P |-> Counts(chosen[b], windows, threshold)]
    BY <1>7, <1>14
  <2>2. IsFiniteSet(P) /\ IsFiniteSet(D) /\ \A b \in P : chosen[b] \subseteq D
    BY <1>4, <1>6, <1>8
  <2>3. QED
    BY <1>15, <1>16, <2>1, <2>2, CountsAddUp
<1>18. AllCells(P, chosen, windows, threshold, figure) = Cell(D, windows, threshold, figure)
  BY <1>12 DEF cell, AllCells
<1>19. Counts(D, windows, threshold)[figure] = Cardinality(Cell(D, windows, threshold, figure))
  BY <1>15, CountsAreCells
<1>20. QED
  BY <1>14, <1>17, <1>18, <1>19 DEF D

LEMMA PartsAdd ==
  ASSUME DatasetAssumption, EvaluationAssumption, EvaluationInv
  PROVE  PartsAddUp
<1> SUFFICES ASSUME setting # NoSetting, NEW threshold \in Thresholds
             PROVE  LET windows == AtWindows(setting)
                        whole == Counts(DOMAIN windows, windows, threshold)
                        modes == ModeMetrics(windows, threshold)
                        bins == TorqueBinMetrics(windows, threshold)
                        clear == TransitionExcluded(windows, threshold)
                        isHeld(magnitude) ==
                          \E b \in DOMAIN setting.bins : InBin(magnitude, setting.bins, b)
                        isApart == \A a, b \in DOMAIN setting.bins :
                                     a < b => setting.bins[a][2] <= setting.bins[b][1]
                    IN /\ \A figure \in DOMAIN whole :
                            TotalOf(modes, figure) = whole[figure] /\ clear[figure] <= whole[figure]
                       /\ isApart
                          /\ (\A e \in DOMAIN Split.events : isHeld(Split.events[e].magnitude)) =>
                            TotalOf(bins, "tp") = whole.tp /\ TotalOf(bins, "fn") = whole.fn
  BY DEF PartsAddUp
<1>1. PICK windows : windows = AtWindows(setting)
  OBVIOUS
<1>2. PICK whole : whole = Counts(DOMAIN windows, windows, threshold)
  OBVIOUS
<1>3. DOMAIN whole = Figures
  BY <1>2 DEF Counts, Figures
<1>4. IsFiniteSet(DOMAIN windows)
  <2>1. PICK ends : ends = EndIndices(setting)
    OBVIOUS
  <2>2. DOMAIN windows = DOMAIN ends /\ \E n \in Nat : DOMAIN ends = 1 .. n
    BY <1>1, <2>1, WindowFacts
  <2>3. PICK n \in Nat : DOMAIN windows = 1 .. n
    BY <2>2
  <2>4. IsFiniteSet(1 .. n)
    BY UpToIsFinite
  <2>5. QED
    BY <2>3, <2>4
<1>5. \A figure \in Figures : TotalOf(ModeMetrics(windows, threshold), figure) = whole[figure]
  BY <1>2, <1>4, ModesAddUp
<1>6. ASSUME NEW figure \in Figures
      PROVE  TransitionExcluded(windows, threshold)[figure] <= whole[figure]
  <2>1. PICK kept \in SUBSET DOMAIN windows :
          TransitionExcluded(windows, threshold) = Counts(kept, windows, threshold)
    BY DEF TransitionExcluded
  <2>2. Cell(kept, windows, threshold, figure) \subseteq
          Cell(DOMAIN windows, windows, threshold, figure)
    BY DEF Cell
  <2>3. IsFiniteSet(Cell(DOMAIN windows, windows, threshold, figure))
    <3>1. Cell(DOMAIN windows, windows, threshold, figure) \subseteq DOMAIN windows
      BY DEF Cell
    <3>2. QED
      BY <1>4, <3>1, FS_Subset
  <2>4. Cardinality(Cell(kept, windows, threshold, figure)) <=
          Cardinality(Cell(DOMAIN windows, windows, threshold, figure))
    BY <2>2, <2>3, FS_Subset
  <2>5. QED
    BY <1>2, <2>1, <2>4, CountsAreCells
<1>7. ASSUME \A a, b \in DOMAIN setting.bins :
               a < b => setting.bins[a][2] <= setting.bins[b][1],
             \A e \in DOMAIN Split.events : \E b \in DOMAIN setting.bins :
               InBin(Split.events[e].magnitude, setting.bins, b),
             NEW figure \in {"tp", "fn"}
      PROVE  TotalOf(TorqueBinMetrics(windows, threshold), figure) = whole[figure]
  <2>1. PICK table : table = Split.events
    OBVIOUS
  <2>2. PICK bins : bins = setting.bins
    OBVIOUS
  <2>3. QED
    BY <1>1, <1>2, <1>7, <2>1, <2>2, BinsAddUp
<1>8. QED
  BY <1>1, <1>2, <1>3, <1>5, <1>6, <1>7

\* The verdict of an evaluation is monotone in the threshold, by events as by samples,
\* for any dataset, any detector and any way to evaluate.
THEOREM ThresholdsAreMonotone == EvaluationSpec => []HigherThresholdFindsLess
<1>1. DatasetInit /\ EvaluationStart => EvaluationInv
  BY DatasetAssumption, EvaluationStarts
<1>2. EvaluationInv /\ [(DatasetNext /\ UNCHANGED evaluationVars) \/ EvaluationNext
                          ]_<<datasetVars, evaluationVars>> => EvaluationInv'
  BY DatasetAssumption, EvaluationAssumption, EvaluationStep
<1>3. EvaluationInv => HigherThresholdFindsLess
  BY DatasetAssumption, EvaluationAssumption, ThresholdsAreOrdered
<1>4. QED
  BY <1>1, <1>2, <1>3, PTL DEF EvaluationSpec

\* The two ways to count detections do not contradict each other, for any dataset, any
\* detector and any way to evaluate.
THEOREM TheCountsAgree == EvaluationSpec => []EventsAgreeWithSamples
<1>1. DatasetInit /\ EvaluationStart => EvaluationInv
  BY DatasetAssumption, EvaluationStarts
<1>2. EvaluationInv /\ [(DatasetNext /\ UNCHANGED evaluationVars) \/ EvaluationNext
                          ]_<<datasetVars, evaluationVars>> => EvaluationInv'
  BY DatasetAssumption, EvaluationAssumption, EvaluationStep
<1>3. EvaluationInv => EventsAgreeWithSamples
  BY DatasetAssumption, EvaluationAssumption, EvaluationsAgree
<1>4. QED
  BY <1>1, <1>2, <1>3, PTL DEF EvaluationSpec

\* Nothing is counted twice or lost when the windows are taken apart, for any dataset,
\* any detector and any way to evaluate.
THEOREM ThePartsAddUp == EvaluationSpec => []PartsAddUp
<1>1. DatasetInit /\ EvaluationStart => EvaluationInv
  BY DatasetAssumption, EvaluationStarts
<1>2. EvaluationInv /\ [(DatasetNext /\ UNCHANGED evaluationVars) \/ EvaluationNext
                          ]_<<datasetVars, evaluationVars>> => EvaluationInv'
  BY DatasetAssumption, EvaluationAssumption, EvaluationStep
<1>3. EvaluationInv => PartsAddUp
  BY DatasetAssumption, EvaluationAssumption, PartsAdd
<1>4. QED
  BY <1>1, <1>2, <1>3, PTL DEF EvaluationSpec

=============================================================================
