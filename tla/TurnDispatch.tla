----------------------------- MODULE TurnDispatch -----------------------------
(***************************************************************************)
(* How a claimed task becomes a turn and how the turn ends.                *)
(*                                                                         *)
(* Workers claim tasks from the server (runTaskWorker) and handle each one *)
(* under its session's lock (handleRunnerDispatch): snapshot the           *)
(* workspace, run the CLI, report a terminal event, and hand the change    *)
(* set over for review or delete the snapshot.  A watcher per turn polls   *)
(* the task's status and interrupts the runner when the user stopped the   *)
(* turn (watchSessionTermination).                                         *)
(*                                                                         *)
(* A task goes through one dispatch, so a worker is known by its task.     *)
(* Terminal events that cannot be posted go to the outbox and are replayed *)
(* (module TerminalOutbox); what happens to a review once it is handed     *)
(* over is module ChangeSetReview.  The server answers 202 Accepted to an  *)
(* event, and applies it to the task's status at some later point.         *)
(* A terminal event that can be neither posted nor queued is gone: the     *)
(* daemon logs it and goes on as if it were queued.                        *)
(***************************************************************************)
EXTENDS Naturals, FiniteSets

CONSTANTS Tasks, Sessions,
          SessionOf,           \* the session of each task
          CodexTasks,          \* the tasks whose runtime is codex
          TrackedTasks,        \* the tasks whose profile tracks changes
          MaxConcurrentTurns,  \* number of workers
          MaxRare              \* bound on ended sessions and tasks with early or lost terminal events

ASSUME DispatchAssumption ==
  /\ SessionOf \in [Tasks -> Sessions]
  /\ CodexTasks \in SUBSET Tasks
  /\ TrackedTasks \in SUBSET Tasks
  /\ MaxConcurrentTurns \in Nat \ {0}
  /\ MaxRare \in Nat

Verdicts == {"completed", "failed", "cancelled"}

\* "dispatched" and "running" are one status to the daemon: the task is active.
Statuses == {"queued", "active"} \cup Verdicts

RunnerPhases == {"running", "rerunning", "completing"}
EndPhases == {"returned", "errored", "unposted", "cancelling", "failing", "repairing", "repair", "handing"}
LockedPhases == {"starting", "snapshotting"} \cup RunnerPhases \cup EndPhases
\* "aborted": the turn never ran; "done": it did, or its runtime was rejected.
OverPhases == {"aborted", "done"}
Phases == {"queued", "claimed"} \cup LockedPhases \cup OverPhases

VARIABLES
  status,    \* the task's status on the server
  terminated, \* the sessions that are terminated on the server
  phase,     \* where the worker that handles each task is
  holder,    \* tasks whose worker holds its session's lock
  watcher,   \* "firing": cancel() was called, "fired": terminated is closed as well
  snap,      \* the turn's snapshot directory
  changeSet, \* tasks whose generatedCS is set
  offered,   \* tasks whose changeset.generated the server accepted
  emitted,   \* terminal events of each task that emitTerminalEvent was called for
  accepted,  \* the ones the server accepted
  dropped,   \* the ones that are neither on the server nor in the outbox
  early,     \* the terminal events of each task that were emitted while its turn goes on
  repaired   \* tasks whose turn.completed was emitted by the repair

vars == <<status, terminated, phase, holder, watcher, snap, changeSet, offered,
          emitted, accepted, dropped, early, repaired>>

TypeOK ==
  /\ status \in [Tasks -> Statuses]
  /\ terminated \in SUBSET Sessions
  /\ phase \in [Tasks -> Phases]
  /\ holder \in SUBSET Tasks
  /\ watcher \in [Tasks -> {"off", "watching", "firing", "fired"}]
  /\ snap \in [Tasks -> {"none", "held", "removed", "handed"}]
  /\ changeSet \in SUBSET Tasks
  /\ offered \in SUBSET Tasks
  /\ emitted \in [Tasks -> SUBSET Verdicts]
  /\ accepted \in [Tasks -> SUBSET Verdicts]
  /\ dropped \in [Tasks -> SUBSET Verdicts]
  /\ early \in [Tasks -> SUBSET {"completed", "failed"}]
  /\ repaired \in SUBSET Tasks

Init ==
  /\ status = [t \in Tasks |-> "queued"]
  /\ phase = [t \in Tasks |-> "queued"]
  /\ holder = {}
  /\ watcher = [t \in Tasks |-> "off"]
  /\ snap = [t \in Tasks |-> "none"]
  /\ terminated = {}
  /\ changeSet = {} /\ offered = {} /\ repaired = {}
  /\ emitted = [t \in Tasks |-> {}]
  /\ accepted = [t \in Tasks |-> {}]
  /\ dropped = [t \in Tasks |-> {}]
  /\ early = [t \in Tasks |-> {}]

-----------------------------------------------------------------------------
review == <<changeSet, offered>>
server == <<status, terminated>>
flags == <<early, repaired>>
verdicts == <<emitted, accepted, dropped, early, repaired>>

\* The worker of t moves on and does nothing else to the lock or the watcher.
Go(t, from, to) ==
  /\ phase[t] \in from
  /\ phase' = [phase EXCEPT ![t] = to]
  /\ UNCHANGED <<holder, watcher>>

\* handleRunnerDispatch returns: its deferred calls stop the watcher and unlock the session.
Return(t, from, to) ==
  /\ phase[t] \in from
  /\ phase' = [phase EXCEPT ![t] = to]
  /\ holder' = holder \ {t}
  /\ watcher' = [watcher EXCEPT ![t] = "off"]

\* snapshot.Cleanup on a turn's way out; a turn without a snapshot has none to delete.
Cleanup(t) == snap' = [snap EXCEPT ![t] = IF @ = "held" THEN "removed" ELSE @]

\* May these sessions be ended, or have these tasks an early or a lost terminal event, as well?
RareIsAllowed(sessions, tasks) ==
  Cardinality(terminated \cup sessions)
    + Cardinality(tasks \cup {t \in Tasks : early[t] \cup dropped[t] # {}}) <= MaxRare

\* emitTerminalEvent: the post is answered; or every post fails, and then one of them arrived all
\* the same, or the event is appended to the outbox, or the append fails too and the event is
\* lost.  The runner and the dispatcher cannot tell these apart: the error is the same.
Emitted(t, v) == emitted' = [emitted EXCEPT ![t] = @ \cup {v}]
Accepted(t, v) == accepted' = [accepted EXCEPT ![t] = @ \cup {v}]

EmitAccepted(t, v) == Emitted(t, v) /\ Accepted(t, v) /\ UNCHANGED dropped
EmitQueued(t, v) == Emitted(t, v) /\ UNCHANGED <<accepted, dropped>>
EmitDropped(t, v) ==
  /\ RareIsAllowed({}, {t})
  /\ Emitted(t, v)
  /\ dropped' = [dropped EXCEPT ![t] = @ \cup {v}]
  /\ UNCHANGED accepted
EmitUnposted(t, v) == EmitAccepted(t, v) \/ EmitQueued(t, v) \/ EmitDropped(t, v)

-----------------------------------------------------------------------------
(* The server and its user.                                                *)

\* The user stops a task that is not over.
Stop(t) ==
  /\ status[t] \in {"queued", "active"}
  /\ status' = [status EXCEPT ![t] = "cancelled"]
  /\ UNCHANGED <<terminated, phase, holder, watcher, snap, review, verdicts>>

\* The user ends a whole session; its tasks' statuses stay.
Terminate(t) ==
  /\ RareIsAllowed({SessionOf[t]}, {})
  /\ terminated' = terminated \cup {SessionOf[t]}
  /\ UNCHANGED <<status, phase, holder, watcher, snap, review, verdicts>>

\* The server applies an accepted terminal event; a task that is over stays as it is.
ServerApplies(t) ==
  /\ status[t] = "active"
  /\ \E v \in accepted[t] : status' = [status EXCEPT ![t] = v]
  /\ UNCHANGED <<terminated, phase, holder, watcher, snap, review, verdicts>>

\* The outbox delivers a queued terminal event.
Replay(t) ==
  /\ \E v \in emitted[t] \ (accepted[t] \cup dropped[t]) : Accepted(t, v)
  /\ UNCHANGED <<server, phase, holder, watcher, snap, review, emitted, dropped, flags>>

-----------------------------------------------------------------------------
(* The watcher of a turn.                                                  *)

\* The poll finds the task cancelled: the turn's context is cancelled first ...
WatcherCancels(t) ==
  /\ watcher[t] = "watching"
  /\ status[t] = "cancelled"
  /\ watcher' = [watcher EXCEPT ![t] = "firing"]
  /\ UNCHANGED <<server, phase, holder, snap, review, verdicts>>

\* The task's status cannot be fetched and the session is terminated.
WatcherFallsBack(t) ==
  /\ watcher[t] = "watching"
  /\ SessionOf[t] \in terminated
  /\ watcher' = [watcher EXCEPT ![t] = "firing"]
  /\ UNCHANGED <<server, phase, holder, snap, review, verdicts>>

\* ... and the channel that tells the dispatcher why is closed next.
WatcherSignals(t) ==
  /\ watcher[t] = "firing"
  /\ watcher' = [watcher EXCEPT ![t] = "fired"]
  /\ UNCHANGED <<server, phase, holder, snap, review, verdicts>>

-----------------------------------------------------------------------------
(* The worker.                                                             *)

\* A free worker claims a queued task.
Claim(t) ==
  /\ status[t] = "queued"
  /\ Cardinality({u \in Tasks : phase[u] \notin {"queued"} \cup OverPhases}) < MaxConcurrentTurns
  /\ Go(t, {"queued"}, "claimed")
  /\ status' = [status EXCEPT ![t] = "active"]
  /\ UNCHANGED <<terminated, snap, review, verdicts>>

\* handleDispatch does not know the task's runtime.
RejectRuntime(t) ==
  /\ Return(t, {"claimed"}, "done")
  /\ EmitUnposted(t, "failed")
  /\ UNCHANGED <<server, snap, review, flags>>

\* Mutant: the session lock is not exclusive.
LockSessionShared(t) ==
  /\ phase[t] = "claimed"
  /\ phase' = [phase EXCEPT ![t] = "starting"]
  /\ holder' = holder \cup {t}
  /\ watcher' = [watcher EXCEPT ![t] = "watching"]
  /\ UNCHANGED <<server, snap, review, verdicts>>

\* The worker gets the session's lock and starts the turn's watcher.
LockSession(t) ==
  /\ phase[t] = "claimed"
  /\ \A u \in holder : SessionOf[u] # SessionOf[t]
  /\ phase' = [phase EXCEPT ![t] = "starting"]
  /\ holder' = holder \cup {t}
  /\ watcher' = [watcher EXCEPT ![t] = "watching"]
  /\ UNCHANGED <<server, snap, review, verdicts>>

PostTurnStarted(t) ==
  /\ Go(t, {"starting"}, "snapshotting")
  /\ UNCHANGED <<server, snap, review, verdicts>>

\* Mutant: the early return does not unlock the session.
AbortStartLocked(t) ==
  /\ Go(t, {"starting", "snapshotting"}, "aborted")
  /\ UNCHANGED <<server, snap, review, verdicts>>

\* turn.started cannot be posted, or the snapshot cannot be taken: the dispatch returns the
\* error to the worker, which logs it.  No terminal event is sent.
AbortStart(t) ==
  /\ Return(t, {"starting", "snapshotting"}, "aborted")
  /\ UNCHANGED <<server, snap, review, verdicts>>

CreateSnapshot(t) ==
  /\ t \in TrackedTasks
  /\ Go(t, {"snapshotting"}, "running")
  /\ snap' = [snap EXCEPT ![t] = "held"]
  /\ UNCHANGED <<server, review, verdicts>>

\* A turn whose changes are not tracked takes no snapshot.
SkipSnapshot(t) ==
  /\ t \notin TrackedTasks
  /\ Go(t, {"snapshotting"}, "running")
  /\ UNCHANGED <<server, snap, review, verdicts>>

-----------------------------------------------------------------------------
(* RunTurn, as the three runners implement it.                             *)

\* Mutant: turn.completed is emitted before the hook has sent the change set.
CompleteBeforeHook(t) ==
  /\ Go(t, {"running", "rerunning"}, "completing")
  /\ EmitAccepted(t, "completed")
  /\ \/ snap[t] = "held" /\ changeSet' = changeSet \cup {t} /\ offered' = offered \cup {t}
     \/ UNCHANGED review
  /\ UNCHANGED <<server, snap, flags>>

\* The BeforeComplete hook sends the change set, if there is one, and remembers it unless the post
\* returned an error.  The runner goes on in any case.
Hook(t) ==
  \/ snap[t] = "held" /\ changeSet' = changeSet \cup {t} /\ offered' = offered \cup {t}
  \/ snap[t] = "held" /\ offered' = offered \cup {t} /\ UNCHANGED changeSet
  \/ UNCHANGED review

\* The CLI is done and the hook runs.
RunBeforeComplete(t) ==
  /\ Go(t, {"running", "rerunning"}, "completing")
  /\ Hook(t)
  /\ UNCHANGED <<server, snap, verdicts>>

CompleteTurn(t) ==
  /\ \/ Go(t, {"completing"}, "returned") /\ EmitAccepted(t, "completed")
     \/ Go(t, {"completing"}, "unposted") /\ EmitUnposted(t, "completed")
  /\ UNCHANGED <<server, snap, review, flags>>

\* codex says that the turn failed: the runner reports it and returns no error.
RunnerReportsFailure(t) ==
  /\ t \in CodexTasks
  /\ \/ Go(t, {"running", "rerunning"}, "returned") /\ EmitAccepted(t, "failed")
     \/ Go(t, {"running", "rerunning"}, "unposted") /\ EmitUnposted(t, "failed")
  /\ UNCHANGED <<server, snap, review, flags>>

\* codex says that the turn is over before it has agreed to it: request() drops that, and the
\* runner goes on reading (VerdictEndsTurn of CodexTurn).
ReportEarly(t) ==
  /\ RareIsAllowed({}, {t})
  /\ t \in CodexTasks
  /\ phase[t] \in {"running", "rerunning"}
  /\ \E v \in {"completed", "failed"} :
       /\ IF v = "completed" THEN Hook(t) ELSE UNCHANGED review
       /\ EmitAccepted(t, v)
       /\ early' = [early EXCEPT ![t] = @ \cup {v}]
  /\ UNCHANGED <<server, phase, holder, watcher, snap, repaired>>

\* RunTurn returns an error: the CLI died, or the turn's context was cancelled.
RunnerFails(t) ==
  /\ Go(t, {"running", "rerunning"}, "errored")
  /\ UNCHANGED <<server, snap, review, verdicts>>

\* codex lost its stream again: the turn runs once more in a new thread.
RecoverStream(t) ==
  /\ t \in CodexTasks
  /\ Go(t, {"running"}, "rerunning")
  /\ UNCHANGED <<server, snap, review, verdicts>>

-----------------------------------------------------------------------------
(* How the dispatch ends.                                                  *)

\* Mutant: a stopped turn keeps its snapshot directory.
SeeTerminatedWithoutCleanup(t) ==
  /\ watcher[t] = "fired"
  /\ Go(t, {"returned", "errored", "unposted"}, "cancelling")
  /\ UNCHANGED <<server, snap, review, verdicts>>

\* The watcher's signal goes before anything the runner returned.
SeeTerminated(t) ==
  /\ watcher[t] = "fired"
  /\ Go(t, {"returned", "errored", "unposted"}, "cancelling")
  /\ Cleanup(t)
  /\ UNCHANGED <<server, review, verdicts>>

ReportCancelled(t) ==
  /\ Return(t, {"cancelling"}, "done")
  /\ EmitUnposted(t, "cancelled")
  /\ UNCHANGED <<server, snap, review, flags>>

SeeError(t) ==
  /\ watcher[t] # "fired"
  /\ Go(t, {"errored"}, "failing")
  /\ Cleanup(t)
  /\ UNCHANGED <<server, review, verdicts>>

\* Mutant: the failure is returned to the worker and not reported.
ReportFailureSilently(t) ==
  /\ Return(t, {"failing"}, "done")
  /\ UNCHANGED <<server, snap, review, verdicts>>

ReportFailure(t) ==
  /\ Return(t, {"failing"}, "done")
  /\ EmitUnposted(t, "failed")
  /\ UNCHANGED <<server, snap, review, flags>>

\* Mutant: a terminal event that was not posted is followed by a turn.failed.
SeeUnpostedAsError(t) ==
  /\ watcher[t] # "fired"
  /\ Go(t, {"unposted"}, "failing")
  /\ Cleanup(t)
  /\ UNCHANGED <<server, review, verdicts>>

\* The runner's terminal event is in the outbox: nothing more is sent.
SeeUnposted(t) ==
  /\ watcher[t] # "fired"
  /\ Return(t, {"unposted"}, "done")
  /\ Cleanup(t)
  /\ UNCHANGED <<server, review, verdicts>>

SeeSuccess(t) ==
  /\ watcher[t] # "fired"
  /\ Go(t, {"returned"}, "repairing")
  /\ UNCHANGED <<server, snap, review, verdicts>>

\* ensureSuccessfulDispatchTerminal fetches the task's status ...
CheckStatus(t) ==
  /\ \/ status[t] = "active" /\ Go(t, {"repairing"}, "repair")
     \/ Go(t, {"repairing"}, "handing")    \* it is over, or the fetch failed
  /\ UNCHANGED <<server, snap, review, verdicts>>

\* ... and emits turn.completed for one that is still active.
RepairTerminal(t) ==
  /\ Go(t, {"repair"}, "handing")
  /\ EmitUnposted(t, "completed")
  /\ repaired' = repaired \cup {t}
  /\ UNCHANGED <<server, early, snap, review>>

\* The change set waits for the user: its waiter owns the snapshot from here.
HandOver(t) ==
  /\ t \in changeSet
  /\ Return(t, {"handing"}, "done")
  /\ snap' = [snap EXCEPT ![t] = "handed"]
  /\ UNCHANGED <<server, review, verdicts>>

NothingToHandOver(t) ==
  /\ t \notin changeSet
  /\ Return(t, {"handing"}, "done")
  /\ Cleanup(t)
  /\ UNCHANGED <<server, review, verdicts>>

-----------------------------------------------------------------------------
Server(t) == ServerApplies(t) \/ Replay(t)

Watch(t) == WatcherCancels(t) \/ WatcherFallsBack(t) \/ WatcherSignals(t)

Start(t) ==
  \/ RejectRuntime(t) \/ LockSession(t) \/ PostTurnStarted(t) \/ AbortStart(t)
  \/ CreateSnapshot(t) \/ SkipSnapshot(t)

RunTurn(t) ==
  \/ RunBeforeComplete(t) \/ CompleteTurn(t) \/ RunnerReportsFailure(t) \/ ReportEarly(t)
  \/ RunnerFails(t) \/ RecoverStream(t)

Finish(t) ==
  \/ SeeTerminated(t) \/ ReportCancelled(t) \/ SeeError(t) \/ ReportFailure(t)
  \/ SeeUnposted(t) \/ SeeSuccess(t) \/ CheckStatus(t) \/ RepairTerminal(t)
  \/ HandOver(t) \/ NothingToHandOver(t)

Next ==
  \E t \in Tasks :
    Stop(t) \/ Terminate(t) \/ Claim(t) \/ Server(t) \/ Watch(t) \/ Start(t) \/ RunTurn(t) \/ Finish(t)

Spec == Init /\ [][Next]_vars

\* Workers and watchers go on, and a poll of the task's status succeeds at some point.  The lock
\* is a Go mutex, which starves nobody; an unknown runtime is no way out for a task that waits
\* for it.  The server applies what it accepted and the outbox delivers.  Nothing bounds the
\* time of a CLI that is silent, so a runner ends by itself only when it is past its hook, or
\* when the turn's context is cancelled (StoppedTurnReturns of CodexTurn and StreamTurn).
Fairness ==
  \A t \in Tasks :
    /\ SF_vars(LockSession(t))
    /\ WF_vars(phase[t] # "claimed" /\ Start(t))
    /\ WF_vars(phase[t] = "completing" /\ RunTurn(t))
    /\ WF_vars(watcher[t] \in {"firing", "fired"} /\ RunTurn(t))
    /\ WF_vars(Finish(t))
    /\ WF_vars(WatcherCancels(t))
    /\ WF_vars(WatcherSignals(t))
    /\ WF_vars(ServerApplies(t))
    /\ WF_vars(Replay(t))
    /\ WF_vars(Claim(t))

FairSpec == Spec /\ Fairness

-----------------------------------------------------------------------------
(* The inductive invariant.                                                *)

LockInv ==
  /\ \A t \in Tasks : t \in holder <=> phase[t] \in LockedPhases
  /\ \A t \in Tasks : watcher[t] = "off" <=> t \notin holder
  /\ \A t, u \in holder : SessionOf[t] = SessionOf[u] => t = u

\* A snapshot lives from the start of the turn to one of its ways out.
SnapInv ==
  \A t \in Tasks :
    /\ snap[t] # "none" => phase[t] \in RunnerPhases \cup EndPhases \cup {"done"}
    /\ snap[t] = "held" => phase[t] \notin {"cancelling", "failing", "done"}
    /\ snap[t] = "handed" => phase[t] = "done"

\* A stop is final on the server, and nobody but the user makes the watcher fire.
StopInv ==
  \A t \in Tasks :
    watcher[t] \in {"firing", "fired"} \/ phase[t] = "cancelling" \/ "cancelled" \in emitted[t] =>
      status[t] = "cancelled" \/ SessionOf[t] \in terminated

\* What was emitted besides what came early.
Settled(t) == emitted[t] \ early[t]

\* Which terminal events a turn has emitted by the time it gets to each point.
VerdictInv ==
  \A t \in Tasks :
    /\ accepted[t] \cup dropped[t] \subseteq emitted[t]
    /\ early[t] \subseteq emitted[t]
    /\ phase[t] \in {"queued", "claimed", "aborted", "starting", "snapshotting", "errored", "failing"}
                     \cup RunnerPhases => Settled(t) = {}
    /\ phase[t] \in {"queued", "claimed", "aborted", "starting", "snapshotting"} => early[t] = {}
    /\ phase[t] \in {"returned", "unposted", "repairing", "repair"} =>
         /\ emitted[t] # {}
         /\ "cancelled" \notin emitted[t]
         /\ Settled(t) \in {{}, {"completed"}, {"failed"}}
    /\ phase[t] = "cancelling" => Settled(t) \in {{}, {"completed"}, {"failed"}}
    /\ phase[t] = "handing" => emitted[t] # {} /\ "cancelled" \notin emitted[t]

\* A review belongs to a turn.completed, and with a turn.failed only if one of them was early.
ReviewInv ==
  \A t \in changeSet :
    /\ t \in offered /\ phase[t] \in RunnerPhases \cup {"done"} \cup EndPhases
    /\ phase[t] \in {"running", "rerunning", "errored", "failing"} => "completed" \in early[t]
    /\ phase[t] \in {"returned", "repairing", "repair", "handing"} =>
         "completed" \in emitted[t] /\ ("failed" \in emitted[t] => early[t] # {})

-----------------------------------------------------------------------------
(* Properties.                                                             *)

\* A dispatch that is over owes nothing: its snapshot was deleted or has a new owner, its
\* watcher is gone, and a turn that ran was reported, whichever of the ways out it took: it has
\* a terminal event on the server or in the outbox, unless the outbox could not be written.
OwesNothing(t) ==
  /\ snap[t] # "held" /\ watcher[t] = "off" /\ t \notin holder
  /\ phase[t] = "done" => emitted[t] # {}

DoneOwesNothing == \A t \in Tasks : phase[t] \in OverPhases => OwesNothing(t)

\* When a session's turn runs, every other turn of the session that was started is over and
\* owes nothing: a stopped turn is completely wound up before the next message starts, as
\* the comment on getSessionLock says.
StopProcessedFirst ==
  \A t, u \in Tasks :
    t # u /\ SessionOf[t] = SessionOf[u] /\ phase[t] \in RunnerPhases =>
      phase[u] \in {"queued", "claimed"} \/ (phase[u] \in OverPhases /\ OwesNothing(u))

\* A turn is never reported both as completed and as failed, by the runner and the dispatcher
\* together, unless codex ended the turn before it agreed to it or the repair stepped in.
OneVerdict ==
  \A t \in Tasks : {"completed", "failed"} \subseteq emitted[t] => early[t] # {} \/ t \in repaired

\* A review is handed over only for a turn that is reported as completed, never for a stopped one,
\* whose review could later rewrite the workspace, nor, but for early ones, with a turn.failed.
HandedOverIsCompleted ==
  \A t \in Tasks : snap[t] = "handed" =>
    /\ t \in offered
    /\ "completed" \in emitted[t] /\ "cancelled" \notin emitted[t]
    /\ "failed" \in emitted[t] => early[t] # {}

\* The change set is on the server before any terminal event of its turn, as the comment on
\* BeforeComplete requires, except those that codex sent early: a client that sees the turn
\* completed has seen its change set.
ChangeSetBeforeVerdict ==
  [][\A t \in Tasks : t \in offered' \ offered => Settled(t)' = {}]_vars

\* The CLI of t's turn runs and nobody has stopped the turn.
RunsUnstopped(t) == phase[t] \in {"running", "rerunning"} /\ status[t] # "cancelled"

\* Every claimed task's dispatch returns and frees its worker and its session, unless the CLI of
\* some turn of the session runs for ever and nobody stops it.
EveryDispatchReturns ==
  \A t \in Tasks :
    phase[t] = "claimed" ~>
      phase[t] \in OverPhases \/ \E u \in Tasks : SessionOf[u] = SessionOf[t] /\ []RunsUnstopped(u)

\* A turn that ran is over on the server in the end, even if every post of its terminal event
\* failed and the user stopped it half-way, unless its CLI runs for ever and nobody stops it, or
\* the outbox could not be written.
EveryTurnIsOver ==
  \A t \in Tasks :
    phase[t] \in RunnerPhases ~>
      status[t] \in Verdicts \/ []RunsUnstopped(t) \/ [](dropped[t] # {} /\ accepted[t] = {})

IInv ==
  /\ TypeOK /\ LockInv /\ SnapInv /\ StopInv /\ VerdictInv /\ ReviewInv
  /\ DoneOwesNothing /\ OneVerdict /\ HandedOverIsCompleted

\* What the comment on the snapshot's ownership says: "ownership transfers to the background
\* goroutine or is cleaned up immediately if no changeset".
\* Not true of the code: see the known deviations in README.md.
OfferedIsHandedOver ==
  \A t \in Tasks : phase[t] = "done" /\ t \in changeSet => snap[t] = "handed"
===============================================================================
