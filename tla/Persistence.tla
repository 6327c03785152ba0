----------------------------- MODULE Persistence ----------------------------
(***************************************************************************)
(* The universe actor (pkg/galwar/actor.go), the write-behind persister    *)
(* (persister.go), the SQLite store's save and load (store.go) and the     *)
(* server's start and stop sequence (cmd/galwar-server/main.go).           *)
(*                                                                         *)
(* The contents of the universe are abstracted to a version number: `mem`  *)
(* counts the mutations made to the in-memory universe.  A command makes   *)
(* one or more of them and the persister may run between any two, which is *)
(* where the hazards are.  Time is counted in ticks; a tick can pass only  *)
(* when nobody has a step to take that the code takes without waiting.     *)
(***************************************************************************)
EXTENDS Naturals

CONSTANTS
    Tables,       \* the tables one save rewrites
    Interval,     \* Persister.Interval, in ticks
    MaxSave,      \* longest duration of one SaveUniverse, in ticks
    MaxMem,       \* bound: mutations explored
    MaxFailures,  \* bound: failing saves explored
    AgeCap        \* bound: the staleness counters saturate here

ASSUME PersistenceAssumption ==
    /\ Tables # {}
    /\ Interval \in Nat /\ MaxSave \in Nat /\ MaxMem \in Nat /\ MaxFailures \in Nat
    /\ AgeCap \in Nat /\ AgeCap > Interval + 2 * MaxSave

VARIABLES
    proc,      \* the server process: "down", "boot", "up" or "stopping"
    actor,     \* the universe goroutine: "idle" or "busy" with one command
    mem,       \* version of the in-memory universe
    base,      \* version when the actor was last idle: what Do callers see
    worlds,    \* versions at which this process's actor has been idle
    notifier,  \* u.dirtyNotify has been registered
    dirty,     \* version at the last MarkDirty that reached the notifier
    kick,      \* the one-slot notification channel is full
    quit,      \* the quit channel is closed
    pstate,    \* where Persister.run is
    final,     \* the flush under way is the one before run returns
    timer,     \* ticks left on the throttle timer
    snap,      \* version of the last snapshot
    tx,        \* tables already rewritten in the open transaction
    saveClock, \* ticks this save has taken
    disk,      \* committed version of each table
    failed,    \* the last save of this process failed
    failures,  \* number of failed saves so far
    stopMark,  \* base when Stop was called
    age,       \* ticks since the oldest change in no snapshot was marked
    snapAge    \* the same for changes in a snapshot that is not on disk

procVars  == <<proc, notifier, quit, stopMark>>
actorVars == <<actor, mem, base, worlds>>
flushVars == <<pstate, final, timer, snap, tx, saveClock>>
storeVars == <<disk, failed, failures>>
ageVars   == <<age, snapAge>>
vars == <<procVars, actorVars, flushVars, storeVars, ageVars, dirty, kick>>

PStates == {"off", "select", "timer", "drain", "flush", "saving", "done"}

\* The version a load of the database yields (all tables agree: DiskWhole).
AnyTable == CHOOSE t \in Tables : TRUE
DiskVersion == disk[AnyTable]

Init ==
    /\ proc = "down" /\ notifier = FALSE /\ quit = FALSE /\ stopMark = 0
    /\ actor = "idle" /\ mem = 0 /\ base = 0 /\ worlds = {0}
    /\ dirty = 0 /\ kick = FALSE
    /\ pstate = "off" /\ final = FALSE /\ timer = 0 /\ snap = 0 /\ tx = {} /\ saveClock = 0
    /\ disk = [t \in Tables |-> 0] /\ failed = FALSE /\ failures = 0
    /\ age = 0 /\ snapAge = 0

-----------------------------------------------------------------------------
(* The process: main.go *)

\* Everything the process held in memory is gone; the database stays.  SQLite
\* discards the open transaction.
LoseMemory ==
    /\ proc' = "down" /\ notifier' = FALSE /\ quit' = FALSE /\ stopMark' = 0
    /\ actor' = "idle" /\ mem' = DiskVersion /\ base' = DiskVersion
    /\ worlds' = {DiskVersion}
    /\ dirty' = DiskVersion /\ kick' = FALSE
    /\ pstate' = "off" /\ final' = FALSE /\ timer' = 0 /\ snap' = DiskVersion
    /\ tx' = {} /\ saveClock' = 0
    /\ failed' = FALSE
    /\ age' = 0 /\ snapAge' = 0
    /\ UNCHANGED <<disk, failures>>

\* A crash, a kill, or a panic re-raised on a goroutine with no recover.
Crash == proc # "down" /\ LoseMemory

\* OpenStore, LoadUniverse and u.Start.
Boot ==
    /\ proc = "down"
    /\ proc' = "boot"
    /\ UNCHANGED <<notifier, quit, stopMark, actorVars, flushVars, storeVars,
                   ageVars, dirty, kick>>

\* persister.Start: the notifier is registered through Do, then run starts.
StartPersister ==
    /\ proc = "boot" /\ actor = "idle"
    /\ proc' = "up" /\ notifier' = TRUE /\ pstate' = "select"
    /\ UNCHANGED <<quit, stopMark, actorVars, final, timer, snap, tx, saveClock,
                   storeVars, ageVars, dirty, kick>>

\* persister.Stop closes quit and waits for run to return.  Sessions that are
\* not closed yet go on submitting commands meanwhile.
StopPersister ==
    /\ proc = "up"
    /\ proc' = "stopping" /\ quit' = TRUE /\ stopMark' = base
    /\ UNCHANGED <<notifier, actorVars, flushVars, storeVars, ageVars, dirty, kick>>

\* Stop returned, main returns.
Exit == proc = "stopping" /\ pstate = "done" /\ LoseMemory

-----------------------------------------------------------------------------
(* The actor: commands run one at a time, on one goroutine *)

\* The actor receives a task.  Before the persister starts, the only commands
\* are main's own (moderation extras, the -admin configuration).
BeginCommand ==
    /\ proc # "down" /\ actor = "idle"
    /\ actor' = "busy"
    /\ UNCHANGED <<procVars, mem, base, worlds, flushVars, storeVars, ageVars, dirty, kick>>

\* The command changes the universe.
Mutate ==
    /\ actor = "busy" /\ mem < MaxMem
    /\ mem' = mem + 1
    /\ UNCHANGED <<procVars, actor, base, worlds, flushVars, storeVars, ageVars, dirty, kick>>

\* MarkDirty -> Notify: a non-blocking send on the one-slot channel; nothing
\* at all while no notifier is registered.
MarkDirty ==
    /\ actor = "busy"
    /\ IF notifier THEN kick' = TRUE /\ dirty' = mem ELSE UNCHANGED <<kick, dirty>>
    /\ UNCHANGED <<procVars, actorVars, flushVars, storeVars, ageVars>>

\* The command returns and Do lets its caller go on.  By convention a command
\* that changed anything has called MarkDirty after its last change.
EndCommand ==
    /\ actor = "busy"
    /\ notifier => mem \in {base, dirty}
    /\ actor' = "idle" /\ base' = mem /\ worlds' = worlds \union {mem}
    /\ UNCHANGED <<procVars, mem, flushVars, storeVars, ageVars, dirty, kick>>

\* The command panics half-way; runTask recovers it and the actor goes on with
\* whatever the command had done (Do re-raises the panic on the caller).
PanicCommand ==
    /\ actor = "busy"
    /\ actor' = "idle" /\ base' = mem /\ worlds' = worlds \union {mem}
    /\ UNCHANGED <<procVars, mem, flushVars, storeVars, ageVars, dirty, kick>>

-----------------------------------------------------------------------------
(* Persister.run *)

\* The outer select: a notification arms the throttle timer.
ReceiveKick ==
    /\ pstate = "select" /\ kick
    /\ kick' = FALSE
    /\ pstate' = "timer" /\ timer' = Interval
    /\ UNCHANGED <<procVars, actorVars, final, snap, tx, saveClock, storeVars, ageVars, dirty>>

\* Deliberately wrong: run returns without a final flush when nothing is pending.
ReceiveQuit_NoFlush ==
    /\ pstate \in {"select", "timer"} /\ quit
    /\ pstate' = IF pstate = "select" THEN "done" ELSE "flush"
    /\ final' = TRUE
    /\ UNCHANGED <<procVars, actorVars, timer, snap, tx, saveClock, storeVars, ageVars, dirty, kick>>

\* Deliberately wrong: a wait on the timer does not listen for quit.
ReceiveQuit_Deaf ==
    /\ pstate = "select" /\ quit /\ ~kick
    /\ pstate' = "timer" /\ final' = TRUE
    /\ UNCHANGED <<procVars, actorVars, timer, snap, tx, saveClock, storeVars, ageVars, dirty, kick>>

\* Either select: quit leads straight to the final flush.
ReceiveQuit ==
    /\ pstate \in {"select", "timer"} /\ quit
    /\ pstate' = "flush" /\ final' = TRUE
    /\ UNCHANGED <<procVars, actorVars, timer, snap, tx, saveClock, storeVars, ageVars, dirty, kick>>

\* Deliberately wrong: debouncing, a new notification restarts the wait.
TimerFires_Debounce ==
    /\ pstate = "timer" /\ timer = 0
    /\ IF kick THEN kick' = FALSE /\ timer' = Interval /\ UNCHANGED pstate
               ELSE pstate' = "drain" /\ UNCHANGED <<kick, timer>>
    /\ UNCHANGED <<procVars, actorVars, final, snap, tx, saveClock, storeVars, ageVars, dirty>>

TimerFires ==
    /\ pstate = "timer" /\ timer = 0
    /\ pstate' = "drain"
    /\ UNCHANGED <<procVars, actorVars, final, timer, snap, tx, saveClock, storeVars, ageVars, dirty, kick>>

\* Notifications that came in during the wait are folded into this flush.
DrainKick ==
    /\ pstate = "drain"
    /\ kick' = FALSE
    /\ pstate' = "flush"
    /\ UNCHANGED <<procVars, actorVars, final, timer, snap, tx, saveClock, storeVars, ageVars, dirty>>

\* Deliberately wrong: the snapshot does not go through the actor.
TakeSnapshot_OffActor ==
    /\ pstate = "flush"
    /\ snap' = mem
    /\ pstate' = "saving" /\ tx' = {} /\ saveClock' = 0
    /\ snapAge' = IF snap > DiskVersion THEN snapAge ELSE age
    /\ age' = 0
    /\ UNCHANGED <<procVars, actorVars, final, timer, storeVars, dirty, kick>>

\* flush, first half: the snapshot is itself a task of the actor.
TakeSnapshot ==
    /\ pstate = "flush" /\ actor = "idle"
    /\ snap' = mem
    /\ pstate' = "saving" /\ tx' = {} /\ saveClock' = 0
    /\ snapAge' = IF snap > DiskVersion THEN snapAge ELSE age
    /\ age' = 0
    /\ UNCHANGED <<procVars, actorVars, final, timer, storeVars, dirty, kick>>

\* SaveUniverse: one table after the other, in one transaction.
SaveTable(t) ==
    /\ pstate = "saving" /\ t \notin tx
    /\ tx' = tx \union {t}
    /\ UNCHANGED <<procVars, actorVars, pstate, final, timer, snap, saveClock, storeVars, ageVars, dirty, kick>>

\* Where run goes after a flush.
Leave == pstate' = IF final THEN "done" ELSE "select"

\* Deliberately wrong: the channel is drained after the save, not before it.
SaveCommit_DrainAfter ==
    /\ pstate = "saving" /\ tx = Tables
    /\ disk' = [t \in Tables |-> IF t \in tx THEN snap ELSE disk[t]]
    /\ failed' = FALSE /\ snapAge' = 0 /\ kick' = FALSE
    /\ Leave
    /\ tx' = {} /\ saveClock' = 0
    /\ UNCHANGED <<procVars, actorVars, final, timer, snap, failures, age, dirty>>

\* Commit publishes every table written in the transaction, at once.
SaveCommit ==
    /\ pstate = "saving" /\ tx = Tables
    /\ disk' = [t \in Tables |-> IF t \in tx THEN snap ELSE disk[t]]
    /\ failed' = FALSE /\ snapAge' = 0
    /\ Leave
    /\ tx' = {} /\ saveClock' = 0
    /\ UNCHANGED <<procVars, actorVars, final, timer, snap, failures, age, dirty, kick>>

\* Any statement of the save may fail: the deferred Rollback undoes the
\* transaction and flush only logs the error.
SaveFail ==
    /\ pstate = "saving" /\ failures < MaxFailures
    /\ failures' = failures + 1 /\ failed' = TRUE
    /\ Leave
    /\ tx' = {} /\ saveClock' = 0
    /\ UNCHANGED <<procVars, actorVars, final, timer, snap, disk, ageVars, dirty, kick>>

-----------------------------------------------------------------------------
(* Time *)

AtMost(n, cap) == IF n > cap THEN cap ELSE n

\* One tick passes.  Commands do not block and the persister's own steps take
\* no time, so time passes only while the actor is idle and the persister is
\* parked in a select with nothing ready, on its timer, or in the database.
Tick ==
    /\ proc \in {"up", "stopping"} /\ actor = "idle"
    /\ \/ pstate = "select" /\ ~kick /\ ~quit /\ UNCHANGED <<timer, saveClock>>
       \/ pstate = "timer" /\ timer > 0 /\ ~quit /\ timer' = timer - 1 /\ UNCHANGED saveClock
       \/ pstate = "saving" /\ saveClock < MaxSave /\ saveClock' = saveClock + 1 /\ UNCHANGED timer
    /\ age' = IF dirty > snap THEN AtMost(age + 1, AgeCap) ELSE 0
    /\ snapAge' = IF snap > DiskVersion THEN AtMost(snapAge + 1, AgeCap) ELSE 0
    /\ UNCHANGED <<procVars, actorVars, pstate, final, snap, tx, storeVars, dirty, kick>>

-----------------------------------------------------------------------------
Next ==
    \/ Crash \/ Boot \/ StartPersister \/ StopPersister \/ Exit
    \/ BeginCommand \/ Mutate \/ MarkDirty \/ EndCommand \/ PanicCommand
    \/ ReceiveKick \/ ReceiveQuit \/ TimerFires \/ DrainKick \/ TakeSnapshot
    \/ \E t \in Tables : SaveTable(t)
    \/ SaveCommit \/ SaveFail \/ Tick

Spec == Init /\ [][Next]_vars

\* Commands never block, so the actor finishes each one; goroutines queue in
\* order on the task channel, so the persister's snapshot gets its turn; its
\* selects do not ignore a ready case for ever; a save ends; time passes.
Fairness ==
    /\ WF_vars(MarkDirty) /\ WF_vars(EndCommand)
    /\ WF_vars(ReceiveKick) /\ WF_vars(ReceiveQuit)
    /\ WF_vars(TimerFires) /\ WF_vars(DrainKick)
    /\ SF_vars(TakeSnapshot)
    /\ WF_vars(\E t \in Tables : SaveTable(t)) /\ WF_vars(SaveCommit)
    /\ SF_vars(Tick)

FairSpec == Spec /\ Fairness
-----------------------------------------------------------------------------
(* Properties *)

\* Types; the wait is never longer than Interval, a save never than MaxSave.
TypeOK ==
    /\ proc \in {"down", "boot", "up", "stopping"}
    /\ notifier \in BOOLEAN /\ quit \in BOOLEAN /\ stopMark \in Nat
    /\ actor \in {"idle", "busy"}
    /\ mem \in Nat /\ base \in Nat /\ worlds \subseteq Nat
    /\ dirty \in Nat /\ kick \in BOOLEAN
    /\ pstate \in PStates /\ final \in BOOLEAN /\ timer \in 0..Interval
    /\ snap \in Nat /\ tx \subseteq Tables /\ saveClock \in 0..MaxSave
    /\ disk \in [Tables -> Nat] /\ failed \in BOOLEAN /\ failures \in Nat
    /\ age \in 0..AgeCap /\ snapAge \in 0..AgeCap

\* The database never mixes two universes: however a save ends - commit,
\* failure at any statement, or a crash in the middle - every table holds the
\* same version (SaveUniverse "rewrites the entire universe in one transaction").
DiskWhole == \A s, t \in Tables : disk[s] = disk[t]

\* A change announced with MarkDirty and not on disk yet is on its way: the
\* notification is still in the channel, or run is between receiving it and the
\* end of the save - unless a save failed.  And a change newer than the last
\* snapshot has a wake-up pending even then, so the next flush picks it up.
NoLostUpdate ==
    /\ dirty > snap => kick \/ pstate \in {"timer", "drain", "flush"}
    /\ dirty > DiskVersion =>
           kick \/ pstate \in {"timer", "drain", "flush", "saving"} \/ failed

\* Stop "performs a final synchronous flush": when run has returned, whatever
\* commands had done by the time Stop was called is on disk, unless the save
\* failed.
FinalFlush == pstate = "done" /\ ~failed => DiskVersion >= stopMark

\* "throttle, not trailing-edge debounce: continuous play must not postpone the
\* flush": however many commands follow, a marked change is in a snapshot
\* within Interval plus the save already under way, and on disk one save
\* later - as long as saves succeed.
StalenessBounded ==
    /\ age <= Interval + MaxSave
    /\ ~failed => snapAge <= Interval + 2 * MaxSave

\* The persistence layer implements DurableWorld: the disk only ever moves
\* forward, to a universe some command left behind, never to one in the middle
\* of a command; a restart comes back to exactly that universe.
DW == INSTANCE DurableWorld WITH world <- base, worlds <- worlds, durable <- DiskVersion
ImplementsDurableWorld == DW!Spec

\* Stop returns: no command and no timer can keep run from the final flush.
StopReturns == quit ~> (pstate = "done" \/ proc = "down")
=============================================================================
