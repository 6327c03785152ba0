-------------------------- MODULE PersistenceProofs -------------------------
(***************************************************************************)
(* Machine-checked proofs about Persistence, for every set of tables and   *)
(* every interval, save duration and number of commands and failures.      *)
(***************************************************************************)
EXTENDS Persistence, TLAPS

-----------------------------------------------------------------------------
(* The inductive invariant, one named part per argument *)

\* Versions: the disk trails the last snapshot, which is a universe some
\* command left behind; the actor is in the middle of a command or it is not.
VersionOrder ==
    /\ DiskVersion <= snap /\ snap <= base /\ base <= mem
    /\ dirty <= mem /\ stopMark <= base
    /\ actor = "idle" => base = mem

WorldsInv ==
    /\ base \in worlds /\ snap \in worlds
    /\ \A w \in worlds : w <= base

\* Without a notifier nothing has been announced since the load.
LifecycleInv ==
    /\ proc \in {"down", "boot"} <=> pstate = "off"
    /\ pstate = "off" <=> ~notifier
    /\ pstate = "off" => dirty = snap /\ ~kick /\ ~failed /\ age = 0 /\ snapAge = 0
    /\ quit => proc = "stopping"
    /\ final => quit /\ pstate \in {"flush", "saving", "done"}

\* The heart of NoLostUpdate and FinalFlush: when run is not saving, the last
\* snapshot is on disk or its save failed; a last snapshot covers Stop.
FlushInv ==
    /\ dirty > snap => kick \/ pstate \in {"timer", "drain", "flush"}
    /\ snap > DiskVersion => pstate = "saving" \/ failed
    /\ final /\ pstate \in {"saving", "done"} => snap >= stopMark
    /\ pstate = "done" => final

\* How old an unsnapshotted change can be in each state of run, and how old
\* the contents of the snapshot being saved.
AgeInv ==
    /\ pstate \in {"select", "done"} => age <= MaxSave
    /\ pstate = "timer" => age + timer <= Interval + MaxSave
    /\ pstate \in {"drain", "flush"} => age <= Interval + MaxSave
    /\ pstate = "saving" => age <= saveClock
    /\ ~failed /\ pstate = "saving" => snapAge <= Interval + MaxSave + saveClock
    /\ ~failed /\ pstate # "saving" => snapAge = 0

IndInv ==
    TypeOK /\ DiskWhole /\ VersionOrder /\ WorldsInv /\ LifecycleInv /\ FlushInv /\ AgeInv
-----------------------------------------------------------------------------
(* Preservation, action by action *)

LEMMA AnyTableIsATable == AnyTable \in Tables
  BY PersistenceAssumption DEF AnyTable

\* The initial state, a process that has never run on an empty database.
LEMMA InitIndInv == Init => IndInv
<1> SUFFICES ASSUME Init PROVE IndInv  OBVIOUS
<1> USE AnyTableIsATable, PersistenceAssumption DEF Init
<1>1. DiskVersion = 0  BY DEF DiskVersion
<1>2. TypeOK
  <2>1. notifier \in BOOLEAN /\ quit \in BOOLEAN /\ kick \in BOOLEAN /\ final \in BOOLEAN /\ failed \in BOOLEAN OBVIOUS
  <2>2. stopMark \in Nat /\ mem \in Nat /\ base \in Nat /\ dirty \in Nat /\ snap \in Nat /\ failures \in Nat OBVIOUS
  <2>3. worlds \subseteq Nat OBVIOUS
  <2>4. timer \in 0..Interval /\  saveClock \in 0..MaxSave OBVIOUS
  <2>6. age \in 0..AgeCap /\ snapAge \in 0..AgeCap OBVIOUS
  <2>7. pstate \in PStates BY DEF PStates
  <2>5. disk \in [Tables -> Nat]  OBVIOUS
  <2>8. tx \subseteq Tables OBVIOUS
  <2> QED BY <2>1, <2>2, <2>3, <2>4, <2>5, <2>6, <2>7, <2>8 DEF TypeOK
<1>3. DiskWhole  BY DEF DiskWhole
<1>4. VersionOrder  BY <1>1 DEF VersionOrder
<1>5. WorldsInv  BY DEF WorldsInv
<1>6. LifecycleInv  BY DEF LifecycleInv
<1>7. FlushInv  BY <1>1 DEF FlushInv
<1>8. AgeInv  BY DEF AgeInv
<1> QED BY <1>2, <1>3, <1>4, <1>5, <1>6, <1>7, <1>8 DEF IndInv

\* Crash, Exit: every volatile variable restarts from the database.
LEMMA LoseMemoryIndInv == IndInv /\ LoseMemory => IndInv'
<1> SUFFICES ASSUME IndInv, LoseMemory PROVE IndInv'  OBVIOUS
<1> USE AnyTableIsATable, PersistenceAssumption
    DEF LoseMemory, IndInv, DiskVersion, procVars, actorVars, flushVars, storeVars, ageVars
<1>0. /\ notifier' \in BOOLEAN /\ quit' \in BOOLEAN /\ kick' \in BOOLEAN
      /\ final' \in BOOLEAN /\ failed' \in BOOLEAN
  BY DEF TypeOK
<1>1. TypeOK'  BY <1>0 DEF TypeOK, PStates
<1>2. DiskWhole'  BY DEF DiskWhole, TypeOK
<1>3. VersionOrder'  BY DEF VersionOrder, TypeOK
<1>4. WorldsInv'  BY DEF WorldsInv, VersionOrder, TypeOK
<1>5. LifecycleInv'  BY DEF LifecycleInv, VersionOrder, TypeOK
<1>6. FlushInv'  BY DEF FlushInv, VersionOrder, LifecycleInv, TypeOK
<1>7. AgeInv'  BY DEF AgeInv, LifecycleInv, FlushInv, TypeOK
<1> QED BY <1>1, <1>2, <1>3, <1>4, <1>5, <1>6, <1>7 DEF IndInv

\* main.go: booting, starting and stopping the persister.
LEMMA ProcessIndInv ==
    IndInv /\ (Boot \/ StartPersister \/ StopPersister) => IndInv'
<1>1. IndInv /\ Boot => IndInv'
  BY AnyTableIsATable, PersistenceAssumption
  DEF Boot, IndInv, TypeOK, DiskWhole, VersionOrder, WorldsInv, LifecycleInv,
      FlushInv, AgeInv, DiskVersion, PStates, procVars, actorVars, flushVars, storeVars, ageVars
<1>2. IndInv /\ StartPersister => IndInv'
  BY AnyTableIsATable, PersistenceAssumption
  DEF StartPersister, IndInv, TypeOK, DiskWhole, VersionOrder, WorldsInv, LifecycleInv,
      FlushInv, AgeInv, DiskVersion, PStates, procVars, actorVars, flushVars, storeVars, ageVars
<1>3. IndInv /\ StopPersister => IndInv'
  BY AnyTableIsATable, PersistenceAssumption
  DEF StopPersister, IndInv, TypeOK, DiskWhole, VersionOrder, WorldsInv, LifecycleInv,
      FlushInv, AgeInv, DiskVersion, PStates, procVars, actorVars, flushVars, storeVars, ageVars
<1> QED BY <1>1, <1>2, <1>3

\* The actor: a command's steps.
LEMMA CommandIndInv ==
    IndInv /\ (BeginCommand \/ Mutate \/ MarkDirty \/ EndCommand \/ PanicCommand) => IndInv'
<1>1. IndInv /\ BeginCommand => IndInv'
  BY AnyTableIsATable, PersistenceAssumption
  DEF BeginCommand, IndInv, TypeOK, DiskWhole, VersionOrder, WorldsInv, LifecycleInv,
      FlushInv, AgeInv, DiskVersion, PStates, procVars, actorVars, flushVars, storeVars, ageVars
<1>2. IndInv /\ Mutate => IndInv'
  BY AnyTableIsATable, PersistenceAssumption
  DEF Mutate, IndInv, TypeOK, DiskWhole, VersionOrder, WorldsInv, LifecycleInv,
      FlushInv, AgeInv, DiskVersion, PStates, procVars, actorVars, flushVars, storeVars, ageVars
<1>3. IndInv /\ MarkDirty => IndInv'
  <2> SUFFICES ASSUME IndInv, MarkDirty PROVE IndInv'  OBVIOUS
  <2> USE AnyTableIsATable, PersistenceAssumption
      DEF MarkDirty, IndInv, DiskVersion, procVars, actorVars, flushVars, storeVars, ageVars
  <2>0. /\ notifier' \in BOOLEAN /\ quit' \in BOOLEAN /\ kick' \in BOOLEAN
        /\ final' \in BOOLEAN /\ failed' \in BOOLEAN
    BY DEF TypeOK
  <2>1. TypeOK'  BY <2>0 DEF TypeOK, PStates
  <2>2. DiskWhole'  BY DEF DiskWhole, TypeOK
  <2>3. VersionOrder'  BY DEF VersionOrder, TypeOK
  <2>4. WorldsInv'  BY DEF WorldsInv, VersionOrder, TypeOK
  <2>5. LifecycleInv'  BY DEF LifecycleInv, VersionOrder, TypeOK
  <2>6. FlushInv'  BY DEF FlushInv, VersionOrder, LifecycleInv, TypeOK
  <2>7. AgeInv'  BY DEF AgeInv, LifecycleInv, FlushInv, TypeOK
  <2> QED BY <2>1, <2>2, <2>3, <2>4, <2>5, <2>6, <2>7 DEF IndInv
<1>4. IndInv /\ EndCommand => IndInv'
  BY AnyTableIsATable, PersistenceAssumption
  DEF EndCommand, IndInv, TypeOK, DiskWhole, VersionOrder, WorldsInv, LifecycleInv,
      FlushInv, AgeInv, DiskVersion, PStates, procVars, actorVars, flushVars, storeVars, ageVars
<1>5. IndInv /\ PanicCommand => IndInv'
  BY AnyTableIsATable, PersistenceAssumption
  DEF PanicCommand, IndInv, TypeOK, DiskWhole, VersionOrder, WorldsInv, LifecycleInv,
      FlushInv, AgeInv, DiskVersion, PStates, procVars, actorVars, flushVars, storeVars, ageVars
<1> QED BY <1>1, <1>2, <1>3, <1>4, <1>5

\* Persister.run up to the snapshot.
LEMMA RunIndInv ==
    IndInv /\ (ReceiveKick \/ ReceiveQuit \/ TimerFires \/ DrainKick \/ TakeSnapshot) => IndInv'
<1>1. IndInv /\ ReceiveKick => IndInv'
  <2> SUFFICES ASSUME IndInv, ReceiveKick PROVE IndInv'  OBVIOUS
  <2> USE AnyTableIsATable, PersistenceAssumption
      DEF ReceiveKick, IndInv, DiskVersion, procVars, actorVars, flushVars, storeVars, ageVars
  <2>0. /\ notifier' \in BOOLEAN /\ quit' \in BOOLEAN /\ kick' \in BOOLEAN
        /\ final' \in BOOLEAN /\ failed' \in BOOLEAN
    BY DEF TypeOK
  <2>1. TypeOK'  BY <2>0 DEF TypeOK, PStates
  <2>2. DiskWhole'  BY DEF DiskWhole, TypeOK
  <2>3. VersionOrder'  BY DEF VersionOrder, TypeOK
  <2>4. WorldsInv'  BY DEF WorldsInv, VersionOrder, TypeOK
  <2>5. LifecycleInv'  BY DEF LifecycleInv, VersionOrder, TypeOK
  <2>6. FlushInv'  BY DEF FlushInv, VersionOrder, LifecycleInv, TypeOK
  <2>7. AgeInv'  BY DEF AgeInv, LifecycleInv, FlushInv, TypeOK
  <2> QED BY <2>1, <2>2, <2>3, <2>4, <2>5, <2>6, <2>7 DEF IndInv
<1>2. IndInv /\ ReceiveQuit => IndInv'
  BY AnyTableIsATable, PersistenceAssumption
  DEF ReceiveQuit, IndInv, TypeOK, DiskWhole, VersionOrder, WorldsInv, LifecycleInv,
      FlushInv, AgeInv, DiskVersion, PStates, procVars, actorVars, flushVars, storeVars, ageVars
<1>3. IndInv /\ TimerFires => IndInv'
  BY AnyTableIsATable, PersistenceAssumption
  DEF TimerFires, IndInv, TypeOK, DiskWhole, VersionOrder, WorldsInv, LifecycleInv,
      FlushInv, AgeInv, DiskVersion, PStates, procVars, actorVars, flushVars, storeVars, ageVars
<1>4. IndInv /\ DrainKick => IndInv'
  <2> SUFFICES ASSUME IndInv, DrainKick PROVE IndInv'  OBVIOUS
  <2> USE AnyTableIsATable, PersistenceAssumption
      DEF DrainKick, IndInv, DiskVersion, procVars, actorVars, flushVars, storeVars, ageVars
  <2>0. /\ notifier' \in BOOLEAN /\ quit' \in BOOLEAN /\ kick' \in BOOLEAN
        /\ final' \in BOOLEAN /\ failed' \in BOOLEAN
    BY DEF TypeOK
  <2>1. TypeOK'  BY <2>0 DEF TypeOK, PStates
  <2>2. DiskWhole'  BY DEF DiskWhole, TypeOK
  <2>3. VersionOrder'  BY DEF VersionOrder, TypeOK
  <2>4. WorldsInv'  BY DEF WorldsInv, VersionOrder, TypeOK
  <2>5. LifecycleInv'  BY DEF LifecycleInv, VersionOrder, TypeOK
  <2>6. FlushInv'  BY DEF FlushInv, VersionOrder, LifecycleInv, TypeOK
  <2>7. AgeInv'  BY DEF AgeInv, LifecycleInv, FlushInv, TypeOK
  <2> QED BY <2>1, <2>2, <2>3, <2>4, <2>5, <2>6, <2>7 DEF IndInv
<1>5. IndInv /\ TakeSnapshot => IndInv'
  BY AnyTableIsATable, PersistenceAssumption
  DEF TakeSnapshot, IndInv, TypeOK, DiskWhole, VersionOrder, WorldsInv, LifecycleInv,
      FlushInv, AgeInv, DiskVersion, PStates, procVars, actorVars, flushVars, storeVars, ageVars
<1> QED BY <1>1, <1>2, <1>3, <1>4, <1>5

\* SaveUniverse rewriting one more table.
LEMMA SaveTableIndInv == IndInv /\ (\E t \in Tables : SaveTable(t)) => IndInv'
  BY AnyTableIsATable, PersistenceAssumption
  DEF SaveTable, IndInv, TypeOK, DiskWhole, VersionOrder, WorldsInv, LifecycleInv,
      FlushInv, AgeInv, DiskVersion, PStates, procVars, actorVars, flushVars, storeVars, ageVars

\* SaveUniverse: commit or rollback, and the end of a flush.
LEMMA SaveIndInv ==
    IndInv /\ (SaveCommit \/ SaveFail) => IndInv'
<1>1. IndInv /\ SaveCommit => IndInv'
  <2> SUFFICES ASSUME IndInv, SaveCommit PROVE IndInv'  OBVIOUS
  <2> USE AnyTableIsATable, PersistenceAssumption
      DEF SaveCommit, Leave, IndInv, DiskVersion, procVars, actorVars, flushVars, storeVars, ageVars
  <2>0. /\ notifier' \in BOOLEAN /\ quit' \in BOOLEAN /\ kick' \in BOOLEAN
        /\ final' \in BOOLEAN /\ failed' \in BOOLEAN
    BY DEF TypeOK
  <2>1. TypeOK'  BY <2>0 DEF TypeOK, PStates
  <2>2. DiskWhole'  BY DEF DiskWhole, TypeOK
  <2>3. VersionOrder'  BY DEF VersionOrder, TypeOK
  <2>4. WorldsInv'  BY DEF WorldsInv, VersionOrder, TypeOK
  <2>5. LifecycleInv'  BY DEF LifecycleInv, VersionOrder, TypeOK
  <2>6. FlushInv'  BY DEF FlushInv, VersionOrder, LifecycleInv, TypeOK
  <2>7. AgeInv'  BY DEF AgeInv, LifecycleInv, FlushInv, TypeOK
  <2> QED BY <2>1, <2>2, <2>3, <2>4, <2>5, <2>6, <2>7 DEF IndInv
<1>2. IndInv /\ SaveFail => IndInv'
  BY AnyTableIsATable, PersistenceAssumption
  DEF SaveFail, Leave, IndInv, TypeOK, DiskWhole, VersionOrder, WorldsInv, LifecycleInv,
      FlushInv, AgeInv, DiskVersion, PStates, procVars, actorVars, flushVars, storeVars, ageVars
<1> QED BY <1>1, <1>2

\* Time passing.
LEMMA TickIndInv == IndInv /\ Tick => IndInv'
  BY AnyTableIsATable, PersistenceAssumption
  DEF Tick, AtMost, IndInv, TypeOK, DiskWhole, VersionOrder, WorldsInv, LifecycleInv,
      FlushInv, AgeInv, DiskVersion, PStates, procVars, actorVars, flushVars, storeVars, ageVars

LEMMA NextIndInv == IndInv /\ [Next]_vars => IndInv'
<1> SUFFICES ASSUME IndInv, [Next]_vars PROVE IndInv'  OBVIOUS
<1>1. CASE UNCHANGED vars
  BY <1>1 DEF vars, IndInv, TypeOK, DiskWhole, VersionOrder, WorldsInv, LifecycleInv,
      FlushInv, AgeInv, DiskVersion, PStates, procVars, actorVars, flushVars, storeVars, ageVars
<1>2. CASE Crash \/ Exit  BY <1>2, LoseMemoryIndInv DEF Crash, Exit
<1>3. CASE Boot \/ StartPersister \/ StopPersister  BY <1>3, ProcessIndInv
<1>4. CASE BeginCommand \/ Mutate \/ MarkDirty \/ EndCommand \/ PanicCommand
  BY <1>4, CommandIndInv
<1>5. CASE ReceiveKick \/ ReceiveQuit \/ TimerFires \/ DrainKick \/ TakeSnapshot
  BY <1>5, RunIndInv
<1>6. CASE \E t \in Tables : SaveTable(t)  BY <1>6, SaveTableIndInv
<1>8. CASE SaveCommit \/ SaveFail  BY <1>8, SaveIndInv
<1>7. CASE Tick  BY <1>7, TickIndInv
<1> QED BY <1>1, <1>2, <1>3, <1>4, <1>5, <1>6, <1>7, <1>8 DEF Next

-----------------------------------------------------------------------------
(* The theorems *)

LEMMA Invariance == Spec => []IndInv
  BY InitIndInv, NextIndInv, PTL DEF Spec

\* Every variable keeps its type, the clocks their bounds.
THEOREM TypeCorrect == Spec => []TypeOK
<1>1. IndInv => TypeOK  BY DEF IndInv
<1> QED BY <1>1, Invariance, PTL

\* However a save ends, the database holds one universe and not a mix of two.
THEOREM DiskWholeAlways == Spec => []DiskWhole
<1>1. IndInv => DiskWhole  BY DEF IndInv
<1> QED BY <1>1, Invariance, PTL

\* No announced change is forgotten by the one-slot channel, the throttle
\* timer or the drain, whatever commands interleave with them.
THEOREM NoUpdateLost == Spec => []NoLostUpdate
<1>1. IndInv => NoLostUpdate
  BY AnyTableIsATable DEF IndInv, NoLostUpdate, FlushInv, VersionOrder, TypeOK, DiskVersion
<1> QED BY <1>1, Invariance, PTL

\* Stop returns only after what preceded it is on disk (or the save failed).
THEOREM StopFlushes == Spec => []FinalFlush
<1>1. IndInv => FinalFlush
  BY AnyTableIsATable DEF IndInv, FinalFlush, FlushInv, VersionOrder, TypeOK, DiskVersion
<1> QED BY <1>1, Invariance, PTL

\* Continuous play does not postpone the flush: the throttle bounds how old an
\* unsaved change can get.
THEOREM ThrottleBoundsStaleness == Spec => []StalenessBounded
<1>1. IndInv => StalenessBounded
  BY PersistenceAssumption
  DEF IndInv, StalenessBounded, LifecycleInv, AgeInv, TypeOK, PStates
<1> QED BY <1>1, Invariance, PTL

-----------------------------------------------------------------------------
(* Refinement *)

\* The initial state maps to DurableWorld's.
LEMMA RefinementInit == Init => DW!Init
  BY AnyTableIsATable DEF Init, DW!Init, DiskVersion

\* Commands end with Execute, commits are Persist, the end of the process is
\* Recover, and every other step is a stutter.
LEMMA RefinementStep == IndInv /\ [Next]_vars => [DW!Next]_(DW!dwVars)
<1> SUFFICES ASSUME IndInv, [Next]_vars PROVE [DW!Next]_(DW!dwVars)  OBVIOUS
<1>1. CASE Crash \/ Exit
  <2>1. DW!Recover
    BY <1>1 DEF Crash, Exit, LoseMemory, DW!Recover, DiskVersion
  <2> QED BY <2>1 DEF DW!Next
<1>2. CASE EndCommand \/ PanicCommand
  <2>1. /\ UNCHANGED disk
        /\ base' = mem /\ worlds' = worlds \union {mem} /\ mem \in Nat /\ base <= mem
        /\ base \in worlds /\ base \in Nat
    BY <1>2 DEF EndCommand, PanicCommand, storeVars, IndInv, VersionOrder, TypeOK, WorldsInv
  <2>2. CASE mem = base
    <3>1. worlds' = worlds  BY <2>1, <2>2
    <3> QED BY <2>1, <2>2, <3>1 DEF DW!dwVars, DiskVersion
  <2>3. CASE mem # base
    <3>1. DW!Execute  BY <2>1, <2>3 DEF DW!Execute, DiskVersion
    <3> QED BY <3>1 DEF DW!Next
  <2> QED BY <2>2, <2>3
<1>3. CASE SaveCommit
  <2>1. /\ UNCHANGED <<base, worlds>> /\ DiskVersion' = snap
        /\ snap \in worlds /\ DiskVersion <= snap /\ snap \in Nat /\ DiskVersion \in Nat
    BY <1>3, AnyTableIsATable
    DEF SaveCommit, actorVars, DiskVersion, IndInv, VersionOrder, WorldsInv, TypeOK
  <2>2. CASE snap = DiskVersion
    BY <2>1, <2>2 DEF DW!dwVars
  <2>3. CASE snap # DiskVersion
    <3>1. DW!Persist  BY <2>1, <2>3 DEF DW!Persist
    <3> QED BY <3>1 DEF DW!Next
  <2> QED BY <2>2, <2>3
<1>4. CASE \/ UNCHANGED vars \/ Boot \/ StartPersister \/ StopPersister
           \/ BeginCommand \/ Mutate \/ MarkDirty
           \/ ReceiveKick \/ ReceiveQuit \/ TimerFires \/ DrainKick \/ TakeSnapshot
           \/ (\E t \in Tables : SaveTable(t)) \/ SaveFail \/ Tick
  <2>1. UNCHANGED <<base, worlds, disk>>
    BY <1>4 DEF vars, actorVars, storeVars, Boot, StartPersister, StopPersister,
        BeginCommand, Mutate, MarkDirty, ReceiveKick, ReceiveQuit, TimerFires,
        DrainKick, TakeSnapshot, SaveTable, SaveFail, Tick
  <2> QED BY <2>1 DEF DW!dwVars, DiskVersion
<1> QED BY <1>1, <1>2, <1>3, <1>4 DEF Next

\* The write-behind persister implements DurableWorld.
THEOREM Refinement == Spec => ImplementsDurableWorld
<1>1. Spec => DW!Init /\ [][DW!Next]_(DW!dwVars)
  BY RefinementInit, RefinementStep, Invariance, PTL DEF Spec
<1> QED BY <1>1 DEF ImplementsDurableWorld, DW!Spec

=============================================================================
