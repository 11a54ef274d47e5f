--------------------------- MODULE ChangeSetReview ---------------------------
(***************************************************************************)
(* The review of the workspace changes a turn made, for one chat session   *)
(* of the daemon (Service.pendingSnapshots has one entry per session, and  *)
(* sessions share nothing here but a mutex whose sections are the atomic   *)
(* steps below).                                                           *)
(*                                                                         *)
(* Two kinds of goroutine meet on that entry:                              *)
(*   - the dispatcher, the one worker that holds the session lock: it      *)
(*     auto-keeps the previous turn's review, snapshots the workspace,     *)
(*     runs the turn and hands the review over (handleRunnerDispatch);     *)
(*   - one waiter per reviewed turn, that polls the server for the user's  *)
(*     decision and applies it (startChangeSetWaiter).                     *)
(* A turn is a number; turn t's snapshot, change set and waiter are all    *)
(* named t.                                                                *)
(***************************************************************************)
EXTENDS Naturals

CONSTANTS MaxTurns,    \* bound: turns dispatched to the session
          MaxCrashes,  \* bound: times the daemon process dies and restarts
          Decisions    \* what the user may answer ("other": a string the daemon does not know)

ASSUME ReviewAssumption ==
  /\ MaxTurns \in Nat
  /\ MaxCrashes \in Nat
  /\ Decisions \subseteq {"keep", "rollback", "selective", "other"}

Turns == 1 .. MaxTurns
None == 0

KeepPhases == {"keepPost", "keepCleanup", "keepCleaning"}
TurnPhases == {"starting", "snapshotting", "running", "generated"}
DiscardPhases == {"discard", "discarding"}
Phases == {"idle", "locked"} \cup KeepPhases \cup TurnPhases \cup DiscardPhases

\* Waiter program counters: polling, the timeout branch, the decision branch, the end.
AwaitingStates == {"polling", "failed", "expired", "decided"}
ApplyStates == {"unblock", "apply", "restoring"}
CleanupStates == {"cleanup", "cleaning"}
EndStates == {"settled", "quit", "dead"}
WaiterStates ==
  {"none"} \cup AwaitingStates \cup {"timedOut"} \cup ApplyStates \cup CleanupStates \cup EndStates

UserOutcomes == {"kept", "rolledBack", "selectiveApplied"}
\* The events about a change set; turn.blocked and turn.unblocked leave no trace here.
Events == {"generated", "autoKept"} \cup UserOutcomes

VARIABLES
  turn,       \* number of turns dispatched so far; the current one while phase # "idle"
  phase,      \* where the holder of the session lock is
  keeping,    \* the review autoKeepPendingChangeSet took out of the map, or None
  pending,    \* pendingSnapshots[session]: the turn under review, or None
  cancelled,  \* turns whose waiter's context was cancelled
  waiter,     \* program counter of each turn's waiter goroutine
  decision,   \* the decision the server holds for each turn, or "none"
  snap,       \* each turn's snapshot directory
  events,     \* events about each turn's change set that reached the server
  remover,    \* history: who took each turn's review out of the map
  crashes

vars == <<turn, phase, keeping, pending, cancelled, waiter, decision, snap, events, remover, crashes>>

TypeOK ==
  /\ turn \in 0 .. MaxTurns
  /\ phase \in Phases
  /\ keeping \in 0 .. MaxTurns
  /\ pending \in 0 .. MaxTurns
  /\ cancelled \in SUBSET Turns
  /\ waiter \in [Turns -> WaiterStates]
  /\ decision \in [Turns -> Decisions \cup {"none"}]
  /\ snap \in [Turns -> {"none", "whole", "removing", "gone"}]
  /\ events \in [Turns -> SUBSET Events]
  /\ remover \in [Turns -> {"none", "autoKeep", "waiter", "timeout", "stray", "crash"}]
  /\ crashes \in 0 .. MaxCrashes

Init ==
  /\ turn = 0 /\ phase = "idle" /\ keeping = None /\ pending = None
  /\ cancelled = {}
  /\ waiter = [t \in Turns |-> "none"]
  /\ decision = [t \in Turns |-> "none"]
  /\ snap = [t \in Turns |-> "none"]
  /\ events = [t \in Turns |-> {}]
  /\ remover = [t \in Turns |-> "none"]
  /\ crashes = 0

-----------------------------------------------------------------------------
(* Shared pieces.                                                          *)

\* The session's entry in the map, who removed it, and its waiter's context.
entry == <<pending, remover, cancelled>>

\* A post whose error the caller drops: the server has the event or it does not.
Post(t, e) == events' \in {events, [events EXCEPT ![t] = @ \cup {e}]}

\* os.RemoveAll of a snapshot deletes file by file: it is seen before, during and after.
BeginRemoval(t) == snap' = [snap EXCEPT ![t] = IF @ = "whole" THEN "removing" ELSE @]
EndRemoval(t) == snap' = [snap EXCEPT ![t] = IF @ = "none" THEN @ ELSE "gone"]

\* The dispatcher goes from one point to another; the waiter of turn t does.
Advance(from, to) ==
  /\ phase = from /\ phase' = to
  /\ UNCHANGED <<decision, crashes>>

Step(t, from, to) ==
  /\ waiter[t] = from /\ waiter' = [waiter EXCEPT ![t] = to]
  /\ UNCHANGED <<turn, phase, keeping, cancelled, decision, crashes>>

-----------------------------------------------------------------------------
(* The dispatcher.                                                         *)

\* A worker claims the session's next task and gets the session lock.
ClaimDispatch ==
  /\ turn < MaxTurns
  /\ Advance("idle", "locked")
  /\ turn' = turn + 1
  /\ UNCHANGED <<keeping, waiter, snap, events, entry>>

\* autoKeepPendingChangeSet: take the entry and cancel its waiter's context.
AutoKeepTake ==
  /\ Advance("locked", "keepPost")
  /\ pending # None
  /\ keeping' = pending
  /\ pending' = None
  /\ cancelled' = cancelled \cup {pending}
  /\ remover' = [remover EXCEPT ![pending] = "autoKeep"]
  /\ UNCHANGED <<turn, waiter, snap, events>>

\* Mutant: auto-keep is skipped, and the dispatch goes on with the entry in the map.
AutoKeepForgotten ==
  /\ Advance("locked", "starting")
  /\ UNCHANGED <<turn, keeping, waiter, snap, events, entry>>

AutoKeepNothing ==
  /\ Advance("locked", "starting")
  /\ pending = None
  /\ UNCHANGED <<turn, keeping, waiter, snap, events, entry>>

\* Mutant: auto-keep posts the outcome and leaves the snapshot directory behind.
AutoKeepPostWithoutCleanup ==
  /\ Advance("keepPost", "starting")
  /\ Post(keeping, "autoKept")
  /\ keeping' = None
  /\ UNCHANGED <<turn, waiter, snap, entry>>

\* turn.unblocked and changeset.kept (autoKept) are posted.
AutoKeepPost ==
  /\ Advance("keepPost", "keepCleanup")
  /\ Post(keeping, "autoKept")
  /\ UNCHANGED <<turn, keeping, waiter, snap, entry>>

AutoKeepCleanup ==
  /\ Advance("keepCleanup", "keepCleaning")
  /\ BeginRemoval(keeping)
  /\ UNCHANGED <<turn, keeping, waiter, events, entry>>

AutoKeepCleanupDone ==
  /\ Advance("keepCleaning", "starting")
  /\ EndRemoval(keeping)
  /\ keeping' = None
  /\ UNCHANGED <<turn, waiter, events, entry>>

\* turn.started is posted; without it the dispatch returns at once.
PostTurnStarted ==
  /\ Advance("starting", "snapshotting") \/ Advance("starting", "idle")
  /\ UNCHANGED <<turn, keeping, waiter, snap, events, entry>>

CreateSnapshot ==
  /\ Advance("snapshotting", "running")
  /\ snap' = [snap EXCEPT ![turn] = "whole"]
  /\ UNCHANGED <<turn, keeping, waiter, events, entry>>

\* CreateSnapshot failed, or the turn is read-only (no TrackChanges): there is nothing to
\* review, and the rest of the dispatch is no step of this module.
NoSnapshot ==
  /\ Advance("snapshotting", "idle")
  /\ UNCHANGED <<turn, keeping, waiter, snap, events, entry>>

\* The BeforeComplete hook: changeset.generated was posted and generatedCS is set.
GenerateChangeSet ==
  /\ Advance("running", "generated")
  /\ events' = [events EXCEPT ![turn] = @ \cup {"generated"}]
  /\ UNCHANGED <<turn, keeping, waiter, snap, entry>>

\* The turn has nothing to hand over: it failed or was cancelled, its diff is empty, or the
\* post of changeset.generated returned an error (the server may have it all the same).
AbandonTurn ==
  /\ Advance("running", "discard") \/ Advance("generated", "discard")
  /\ Post(turn, "generated")
  /\ UNCHANGED <<turn, keeping, waiter, snap, entry>>

DiscardSnapshot ==
  /\ Advance("discard", "discarding")
  /\ BeginRemoval(turn)
  /\ UNCHANGED <<turn, keeping, waiter, events, entry>>

DiscardSnapshotDone ==
  /\ Advance("discarding", "idle")
  /\ EndRemoval(turn)
  /\ UNCHANGED <<turn, keeping, waiter, events, entry>>

\* Mutant: the dispatch defers snapshot.Cleanup and removes what the waiter was given.
StartWaiterWithDeferredCleanup ==
  /\ Advance("generated", "idle")
  /\ pending' = turn
  /\ waiter' = [waiter EXCEPT ![turn] = "polling"]
  /\ BeginRemoval(turn)
  /\ UNCHANGED <<turn, keeping, events, remover, cancelled>>

\* RunTurn returned without error and with a change set: turn.blocked is posted, and
\* startChangeSetWaiter stores the entry, overwriting whatever is there, and starts the
\* waiter. The dispatch returns, releasing the session lock.
StartChangeSetWaiter ==
  /\ Advance("generated", "idle")
  /\ pending' = turn
  /\ waiter' = [waiter EXCEPT ![turn] = "polling"]
  /\ UNCHANGED <<turn, keeping, snap, events, remover, cancelled>>

-----------------------------------------------------------------------------
(* The waiter of turn t.                                                   *)

\* A poll answered with a decision before the context was cancelled.
PollDecision(t) ==
  /\ Step(t, "polling", "decided")
  /\ t \notin cancelled /\ decision[t] # "none"
  /\ UNCHANGED <<pending, remover, snap, events>>

\* waitForDecision returns an error: the 30-minute timeout, a cancelled context, a failed
\* request, a status other than 200 or an undecodable body, which the caller treats alike.
PollError(t) ==
  /\ Step(t, "polling", "failed")
  /\ UNCHANGED <<pending, remover, snap, events>>

\* isStillPending, in a critical section of its own; if not, the waiter returns quietly.
CheckStillPending(t) ==
  /\ Step(t, "failed", IF pending = t THEN "expired" ELSE "quit")
  /\ UNCHANGED <<pending, remover, snap, events>>

\* The second critical section deletes the session's entry without comparing it.
DropPending(t) ==
  /\ Step(t, "expired", "timedOut")
  /\ pending' = None
  /\ remover' = [u \in Turns |-> IF u # pending THEN remover[u]
                                 ELSE IF u = t THEN "timeout" ELSE "stray"]
  /\ UNCHANGED <<snap, events>>

\* turn.unblocked and changeset.kept (autoKept) are posted.
TimeoutKeep(t) ==
  /\ Step(t, "timedOut", "cleanup")
  /\ Post(t, "autoKept")
  /\ UNCHANGED <<pending, remover, snap>>

\* A decision arrived: remove the entry if it is still this one, and go on either way.
TakePending(t) ==
  /\ Step(t, "decided", "unblock")
  /\ \/ /\ pending = t
        /\ pending' = None
        /\ remover' = [remover EXCEPT ![t] = "waiter"]
     \/ /\ pending # t
        /\ UNCHANGED <<pending, remover>>
  /\ UNCHANGED <<snap, events>>

\* applyChangeSetDecision posts turn.unblocked first, whatever the decision.
PostUnblocked(t) ==
  /\ Step(t, "unblock", "apply")
  /\ UNCHANGED <<pending, remover, snap, events>>

ApplyKeep(t) ==
  /\ Step(t, "apply", "cleanup")
  /\ decision[t] = "keep"
  /\ Post(t, "kept")
  /\ UNCHANGED <<pending, remover, snap>>

ApplyUnsupported(t) ==
  /\ Step(t, "apply", "cleanup")
  /\ decision[t] = "other"
  /\ UNCHANGED <<pending, remover, snap, events>>

\* Restore, or the discards of a selective decision, start to read the snapshot.
BeginRestore(t) ==
  /\ Step(t, "apply", "restoring")
  /\ \/ decision[t] = "rollback" /\ snap[t] # "gone"
     \/ decision[t] = "selective"
  /\ UNCHANGED <<pending, remover, snap, events>>

\* The workspace was rewritten: the outcome is posted.
EndRestore(t) ==
  /\ Step(t, "restoring", "cleanup")
  /\ Post(t, IF decision[t] = "rollback" THEN "rolledBack" ELSE "selectiveApplied")
  /\ UNCHANGED <<pending, remover, snap>>

\* Mutant: a failed restore returns past the clean-up.
FailRestoreWithoutCleanup(t) ==
  /\ Step(t, "restoring", "settled")
  /\ UNCHANGED <<pending, remover, snap, events>>

\* An error on the way: logged, and no outcome is posted.
FailRestore(t) ==
  /\ \/ Step(t, "restoring", "cleanup")
     \/ Step(t, "apply", "cleanup") /\ decision[t] = "rollback" /\ snap[t] = "gone"
  /\ UNCHANGED <<pending, remover, snap, events>>

\* Mutant: all turns of the session share one snapshot directory.
CleanupSharedDirectory(t) ==
  /\ Step(t, "cleanup", "cleaning")
  /\ snap' = [u \in Turns |-> IF snap[u] = "whole" THEN "removing" ELSE snap[u]]
  /\ UNCHANGED <<pending, remover, events>>

CleanupSnapshot(t) ==
  /\ Step(t, "cleanup", "cleaning")
  /\ BeginRemoval(t)
  /\ UNCHANGED <<pending, remover, events>>

CleanupSnapshotDone(t) ==
  /\ Step(t, "cleaning", "settled")
  /\ EndRemoval(t)
  /\ UNCHANGED <<pending, remover, events>>

-----------------------------------------------------------------------------
(* The environment.                                                        *)

\* The user answers a change set the server knows of.
UserDecides(t) ==
  /\ "generated" \in events[t]
  /\ decision[t] = "none"
  /\ \E d \in Decisions : decision' = [decision EXCEPT ![t] = d]
  /\ UNCHANGED <<turn, phase, keeping, waiter, snap, events, entry, crashes>>

\* The daemon dies: goroutines, the map and the locks are gone, snapshot directories are not.
Crash ==
  /\ crashes < MaxCrashes
  /\ crashes' = crashes + 1
  /\ phase' = "idle"
  /\ keeping' = None
  /\ pending' = None
  /\ remover' = [t \in Turns |-> IF t = pending THEN "crash" ELSE remover[t]]
  /\ waiter' = [t \in Turns |-> IF waiter[t] \in {"none"} \cup EndStates THEN waiter[t] ELSE "dead"]
  /\ UNCHANGED <<turn, cancelled, decision, snap, events>>

AutoKeep ==
  \/ AutoKeepTake \/ AutoKeepNothing \/ AutoKeepPost
  \/ AutoKeepCleanup \/ AutoKeepCleanupDone

Dispatcher ==
  \/ AutoKeep
  \/ PostTurnStarted \/ CreateSnapshot \/ NoSnapshot
  \/ GenerateChangeSet \/ StartChangeSetWaiter \/ AbandonTurn
  \/ DiscardSnapshot \/ DiscardSnapshotDone

Waiter(t) ==
  \/ PollDecision(t) \/ PollError(t)
  \/ CheckStillPending(t) \/ DropPending(t) \/ TimeoutKeep(t)
  \/ TakePending(t) \/ PostUnblocked(t) \/ ApplyKeep(t) \/ ApplyUnsupported(t)
  \/ BeginRestore(t) \/ EndRestore(t) \/ FailRestore(t)
  \/ CleanupSnapshot(t) \/ CleanupSnapshotDone(t)

Next ==
  \/ ClaimDispatch
  \/ Dispatcher
  \/ \E t \in Turns : Waiter(t)
  \/ \E t \in Turns : UserDecides(t)
  \/ Crash

Spec == Init /\ [][Next]_vars

\* Goroutines are scheduled, every post and poll has a deadline, and RemoveAll ends: the
\* waiters and the dispatcher's own steps are weakly fair. A turn may run for ever.
DispatcherProgress ==
  \/ AutoKeep \/ PostTurnStarted \/ DiscardSnapshot \/ DiscardSnapshotDone

FairSpec ==
  /\ Spec
  /\ WF_vars(DispatcherProgress)
  /\ \A t \in Turns : WF_vars(Waiter(t))

-----------------------------------------------------------------------------
(* The inductive invariant behind the safety properties, part by part.     *)

\* The lock holder's turn has not been handed over, and later turns have left no trace.
LockInv ==
  /\ phase # "idle" => turn > 0 /\ waiter[turn] = "none"
  /\ phase \notin {"idle", "locked"} => pending = None
  /\ phase \in {"running", "generated"} => snap[turn] = "whole"
  /\ \A t \in Turns : t > turn => waiter[t] = "none"

\* The review being auto-kept was taken by auto-keep, and is no other than an earlier turn's.
KeepInv ==
  /\ phase \in KeepPhases => keeping # None /\ remover[keeping] = "autoKeep"
  /\ phase \notin KeepPhases => keeping = None
  /\ \A t \in Turns : remover[t] = "autoKeep" => keeping = t \/ snap[t] = "gone" \/ crashes > 0

\* The entry in the map belongs to a waiter that has not acted yet.
PendingInv ==
  pending # None =>
    /\ waiter[pending] \in AwaitingStates
    /\ snap[pending] = "whole"
    /\ remover[pending] = "none"

\* A review that was never opened has no history; one that was opened has a snapshot.
FreshInv ==
  \A t \in Turns :
    /\ waiter[t] = "none" => remover[t] = "none"
    /\ waiter[t] # "none" => snap[t] # "none"

OwnedInv ==
  \A t \in Turns : waiter[t] \in AwaitingStates => pending = t \/ remover[t] \in {"autoKeep", "stray"}

\* The waiter and auto-keep are the only ones that delete the snapshot of a review.
SnapInv ==
  \A t \in Turns :
    waiter[t] \in AwaitingStates \cup {"timedOut"} \cup ApplyStates /\ remover[t] # "autoKeep"
      => snap[t] = "whole"

\* Before the waiter has posted its outcome only auto-keep can have posted one.
OutcomeInv ==
  \A t \in Turns :
    /\ waiter[t] \in {"none", "timedOut"} \cup AwaitingStates \cup ApplyStates =>
         /\ events[t] \cap UserOutcomes = {}
         /\ "autoKept" \in events[t] => remover[t] = "autoKeep"
    /\ "autoKept" \in events[t] /\ events[t] \cap UserOutcomes # {} => remover[t] = "autoKeep"

LeakInv ==
  \A t \in Turns :
    waiter[t] \in {"settled", "quit"} /\ snap[t] # "gone" =>
      keeping = t \/ remover[t] = "stray" \/ crashes > 0

IInv ==
  /\ TypeOK /\ LockInv /\ KeepInv /\ PendingInv /\ FreshInv
  /\ OwnedInv /\ SnapInv /\ OutcomeInv /\ LeakInv

-----------------------------------------------------------------------------
(* Properties.                                                             *)

\* While a review is in the map its snapshot is complete: whoever takes the review finds
\* every file of the turn's start, whatever auto-keeps, timeouts and clean-ups went before.
PendingSnapshotWhole == pending # None => snap[pending] = "whole"

\* A running turn's snapshot is complete until that turn itself gives it up: no waiter of
\* an earlier turn, and no auto-keep, removes the wrong directory.
RunningSnapshotWhole == phase \in {"running", "generated"} => snap[turn] = "whole"

\* A rollback or a discard reads a complete snapshot unless auto-keep took the review
\* away after its decision had been fetched.
RestoreFromWholeSnapshot ==
  \A t \in Turns : waiter[t] = "restoring" /\ remover[t] # "autoKeep" => snap[t] = "whole"

\* The server hears both that the changes were auto-kept and that the user's decision was
\* applied only in that same race; the timeout alone never contradicts the user.
ContradictionOnlyByAutoKeep ==
  \A t \in Turns :
    "autoKept" \in events[t] /\ events[t] \cap UserOutcomes # {} => remover[t] = "autoKeep"

\* A waiter that has returned leaves its snapshot to nobody but an auto-keep that is about
\* to delete it, except when a late timeout of an earlier turn erased its entry or the
\* daemon died.
SnapshotNotLeaked ==
  \A t \in Turns :
    waiter[t] \in {"settled", "quit"} /\ snap[t] # "gone" =>
      \/ keeping = t
      \/ remover[t] = "stray"
      \/ crashes > 0

\* A review that is still awaited is in the map, or somebody took it out of the map.
AwaitedIsOwned ==
  \A t \in Turns : waiter[t] \in AwaitingStates => pending = t \/ remover[t] \in {"autoKeep", "stray"}

\* The reviews of a session are opened and closed as ReviewSlot promises.
Slot == INSTANCE ReviewSlot WITH slot <- pending, opened <- {t \in Turns : waiter[t] # "none"}
SlotSpec == Slot!Spec

\* Without a crash every snapshot is deleted in the end, or its entry was erased by a late timeout.
SnapshotsReclaimed ==
  \A t \in Turns :
    waiter[t] = "polling" ~> snap[t] = "gone" \/ remover[t] = "stray" \/ crashes > 0

\* What the comment in autoKeepPendingChangeSet says of the cancelled waiter: it "doesn't
\* also try to process" the review.
\* Not true of the code: see the known deviations in README.md.
CancelledWaiterDoesNotProcess ==
  \A t \in Turns : remover[t] = "autoKeep" => waiter[t] \notin ApplyStates

\* What the comment on the session lock says: a dispatch starts when the session's previous
\* task has finished. Its rollback, then, does not rewrite the workspace under the next turn.
\* Not true of the code: see the known deviations in README.md.
RestoreExcludesNextTurn ==
  \A t \in Turns : waiter[t] = "restoring" => ~(phase \in {"running", "generated"} /\ turn > t)

=============================================================================
