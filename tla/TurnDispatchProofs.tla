-------------------------- MODULE TurnDispatchProofs --------------------------
(***************************************************************************)
(* Every dispatch leaves its session, its snapshot and its task in order,  *)
(* for any number of tasks, sessions and workers.                          *)
(***************************************************************************)
EXTENDS TurnDispatch, TLAPS

USE DispatchAssumption

\* The initial states satisfy the inductive invariant.
LEMMA DispatchInit == Init => IInv
BY DEF Init, IInv, TypeOK, Verdicts, Statuses, RunnerPhases, EndPhases, LockedPhases, OverPhases, Phases,
       LockInv, SnapInv, StopInv, VerdictInv, ReviewInv, DoneOwesNothing, OwesNothing, OneVerdict,
       HandedOverIsCompleted, Settled

\* Whatever becomes of an emitted event, it is emitted, and the server has accepted only what
\* was emitted.
LEMMA EmitEffect ==
  ASSUME TypeOK, VerdictInv, NEW t \in Tasks, NEW v \in Verdicts,
         EmitUnposted(t, v)
  PROVE  /\ emitted' \in [Tasks -> SUBSET Verdicts]
         /\ accepted' \in [Tasks -> SUBSET Verdicts]
         /\ dropped' \in [Tasks -> SUBSET Verdicts]
         /\ \A u \in Tasks : accepted'[u] \cup dropped'[u] \subseteq emitted'[u]
         /\ \A u \in Tasks : u # t => emitted'[u] = emitted[u]
         /\ emitted'[t] = emitted[t] \cup {v}
         /\ emitted'[t] # {}
         /\ \A w : w # v /\ w \in emitted'[t] => w \in emitted[t]
<1>1. emitted' = [emitted EXCEPT ![t] = @ \cup {v}] /\ emitted' \in [Tasks -> SUBSET Verdicts]
  BY DEF EmitUnposted, EmitAccepted, EmitQueued, EmitDropped, Emitted, TypeOK
<1>2. \/ accepted' = [accepted EXCEPT ![t] = @ \cup {v}]
      \/ accepted' = accepted
  BY DEF EmitUnposted, EmitAccepted, EmitQueued, EmitDropped, Accepted
<1>3. \/ dropped' = [dropped EXCEPT ![t] = @ \cup {v}]
      \/ dropped' = dropped
  BY DEF EmitUnposted, EmitAccepted, EmitQueued, EmitDropped
<1>4. /\ accepted \in [Tasks -> SUBSET Verdicts] /\ dropped \in [Tasks -> SUBSET Verdicts]
      /\ \A u \in Tasks : accepted[u] \cup dropped[u] \subseteq emitted[u]
  BY DEF TypeOK, VerdictInv
<1> QED
  BY <1>1, <1>2, <1>3, <1>4 DEF TypeOK

\* The server, its user and the outbox touch a task's status and what was accepted.
LEMMA ServerKeepsIInv ==
  ASSUME IInv, NEW t \in Tasks,
         Stop(t) \/ Terminate(t) \/ ServerApplies(t) \/ Replay(t)
  PROVE  IInv'
<1> USE DEF IInv, TypeOK, Verdicts, Statuses, RunnerPhases, EndPhases, LockedPhases, OverPhases, Phases,
       LockInv, SnapInv, StopInv, VerdictInv, ReviewInv, DoneOwesNothing, OwesNothing, OneVerdict,
       HandedOverIsCompleted,
       Settled, review, server, flags, verdicts, Go, Return, Cleanup
<1>1. CASE Stop(t)
  BY <1>1 DEF Stop
<1>2. CASE ServerApplies(t)
  BY <1>2 DEF ServerApplies
<1>3. CASE Replay(t)
  BY <1>3 DEF Replay, Accepted
<1>4. CASE Terminate(t)
  BY <1>4 DEF Terminate
<1> QED
  BY <1>1, <1>2, <1>3, <1>4

\* The watcher fires only for a task that is cancelled or a session that is ended.
LEMMA WatchKeepsIInv ==
  ASSUME IInv, NEW t \in Tasks,
         WatcherCancels(t) \/ WatcherFallsBack(t) \/ WatcherSignals(t)
  PROVE  IInv'
<1> USE DEF IInv, TypeOK, Verdicts, Statuses, RunnerPhases, EndPhases, LockedPhases, OverPhases, Phases,
       LockInv, SnapInv, StopInv, VerdictInv, ReviewInv, DoneOwesNothing, OwesNothing, OneVerdict,
       HandedOverIsCompleted,
       Settled, review, server, flags, verdicts, Go, Return, Cleanup
<1>1. CASE WatcherCancels(t)
  BY <1>1 DEF WatcherCancels
<1>2. CASE WatcherSignals(t)
  BY <1>2 DEF WatcherSignals
<1>3. CASE WatcherFallsBack(t)
  BY <1>3 DEF WatcherFallsBack
<1> QED
  BY <1>1, <1>2, <1>3

\* Claiming, locking and the ways into the turn.
LEMMA StartKeepsIInv ==
  ASSUME IInv, NEW t \in Tasks,
         Claim(t) \/ RejectRuntime(t) \/ LockSession(t) \/ PostTurnStarted(t)
           \/ AbortStart(t) \/ CreateSnapshot(t) \/ SkipSnapshot(t)
  PROVE  IInv'
<1> USE DEF IInv, TypeOK, Verdicts, Statuses, RunnerPhases, EndPhases, LockedPhases, OverPhases, Phases,
       LockInv, SnapInv, StopInv, VerdictInv, ReviewInv, DoneOwesNothing, OwesNothing, OneVerdict,
       HandedOverIsCompleted,
       Settled, review, server, flags, verdicts, Go, Return, Cleanup
<1>1. CASE Claim(t)
  BY <1>1 DEF Claim
<1>2. CASE RejectRuntime(t)
  <2>1. TypeOK' /\ LockInv' /\ SnapInv' /\ StopInv'
    BY <1>2, EmitEffect, SMTT(30) DEF RejectRuntime
  <2>2. VerdictInv' /\ ReviewInv'
    BY <1>2, EmitEffect, SMTT(30) DEF RejectRuntime
  <2>3. DoneOwesNothing' /\ OneVerdict'
    BY <1>2, EmitEffect, SMTT(30) DEF RejectRuntime
  <2>4. \A u \in Tasks : snap'[u] = "handed" => u # t /\ emitted'[u] = emitted[u]
    BY <1>2, EmitEffect, SMTT(30) DEF RejectRuntime
  <2>5. UNCHANGED <<snap, offered, early>>
    BY <1>2 DEF RejectRuntime
  <2>6. HandedOverIsCompleted'
    BY <2>4, <2>5
  <2> QED
    BY <2>1, <2>2, <2>3, <2>6
<1>3. CASE LockSession(t)
  BY <1>3 DEF LockSession
<1>4. CASE PostTurnStarted(t)
  BY <1>4 DEF PostTurnStarted
<1>5. CASE AbortStart(t)
  BY <1>5 DEF AbortStart
<1>6. CASE CreateSnapshot(t)
  BY <1>6 DEF CreateSnapshot
<1>7. CASE SkipSnapshot(t)
  BY <1>7 DEF SkipSnapshot
<1> QED
  BY <1>1, <1>2, <1>3, <1>4, <1>5, <1>6, <1>7

\* The runner: the change set is recorded before the turn's terminal event.
LEMMA RunTurnKeepsIInv ==
  ASSUME IInv, NEW t \in Tasks,
         RunBeforeComplete(t) \/ CompleteTurn(t) \/ RunnerReportsFailure(t) \/ RunnerFails(t)
           \/ RecoverStream(t) \/ ReportEarly(t)
  PROVE  IInv'
<1> USE DEF IInv, TypeOK, Verdicts, Statuses, RunnerPhases, EndPhases, LockedPhases, OverPhases, Phases,
       LockInv, SnapInv, StopInv, VerdictInv, ReviewInv, DoneOwesNothing, OwesNothing, OneVerdict,
       HandedOverIsCompleted,
       Settled, review, server, flags, verdicts, Go, Return, Cleanup
<1>1. CASE RunBeforeComplete(t)
  BY <1>1 DEF RunBeforeComplete, Hook
<1>2. CASE CompleteTurn(t)
  <2>0. EmitUnposted(t, "completed")
    BY <1>2 DEF CompleteTurn, EmitUnposted
  <2>1. TypeOK' /\ LockInv' /\ SnapInv' /\ StopInv'
    BY <1>2, <2>0, EmitEffect, SMTT(30) DEF CompleteTurn
  <2>2. VerdictInv'
    <3>1. emitted[t] \ early[t] = {}
      BY <1>2 DEF CompleteTurn
    <3>2. early' = early /\ phase[t] = "completing" /\ phase'[t] \in {"returned", "unposted"}
      BY <1>2 DEF CompleteTurn
    <3>3. emitted'[t] \ early'[t] \in {{}, {"completed"}}
      BY <2>0, <3>1, <3>2, EmitEffect
    <3>4. \A u \in Tasks : u # t => phase'[u] = phase[u] /\ emitted'[u] = emitted[u]
      BY <1>2, <2>0, EmitEffect DEF CompleteTurn
    <3>5. emitted'[t] # {} /\ "cancelled" \notin emitted'[t] /\ early'[t] \subseteq emitted'[t]
      BY <2>0, <3>1, <3>2, EmitEffect
    <3> QED
      BY <2>0, <3>2, <3>3, <3>4, <3>5, EmitEffect
  <2>3. DoneOwesNothing' /\ HandedOverIsCompleted' /\ OneVerdict'
    BY <1>2, <2>0, EmitEffect, SMTT(30) DEF CompleteTurn
  <2>4. ReviewInv'
    BY <1>2, <2>0, EmitEffect, SMTT(30) DEF CompleteTurn
  <2> QED
    BY <2>1, <2>2, <2>3, <2>4
<1>3. CASE RunnerReportsFailure(t)
  <2>0. EmitUnposted(t, "failed")
    BY <1>3 DEF RunnerReportsFailure, EmitUnposted
  <2>1. TypeOK' /\ LockInv' /\ SnapInv' /\ StopInv'
    BY <1>3, <2>0, EmitEffect, SMTT(60) DEF RunnerReportsFailure
  <2>2. VerdictInv'
    <3>1. emitted[t] \ early[t] = {}
      BY <1>3 DEF RunnerReportsFailure
    <3>2. /\ early' = early /\ phase[t] \in {"running", "rerunning"}
          /\ phase'[t] \in {"returned", "unposted"}
      BY <1>3 DEF RunnerReportsFailure
    <3>3. emitted'[t] \ early'[t] \in {{}, {"failed"}}
      BY <2>0, <3>1, <3>2, EmitEffect
    <3>4. \A u \in Tasks : u # t => phase'[u] = phase[u] /\ emitted'[u] = emitted[u]
      BY <1>3, <2>0, EmitEffect DEF RunnerReportsFailure
    <3>5. emitted'[t] # {} /\ "cancelled" \notin emitted'[t] /\ early'[t] \subseteq emitted'[t]
      BY <2>0, <3>1, <3>2, EmitEffect
    <3> QED
      BY <2>0, <3>2, <3>3, <3>4, <3>5, EmitEffect
  <2>3. DoneOwesNothing' /\ HandedOverIsCompleted' /\ OneVerdict'
    BY <1>3, <2>0, EmitEffect, SMTT(30) DEF RunnerReportsFailure
  <2>4. ReviewInv'
    <3>1. /\ UNCHANGED <<changeSet, offered, early>>
          /\ phase[t] \in {"running", "rerunning"} /\ phase'[t] \in {"returned", "unposted"}
          /\ \A u \in Tasks : u # t => phase'[u] = phase[u]
      BY <1>3 DEF RunnerReportsFailure
    <3>2. t \in changeSet => "completed" \in early[t] /\ "completed" \in emitted'[t]
      BY <2>0, <3>1, EmitEffect
    <3> QED
      BY <2>0, <3>1, <3>2, EmitEffect
  <2> QED
    BY <2>1, <2>2, <2>3, <2>4
<1>4. CASE RunnerFails(t)
  BY <1>4 DEF RunnerFails
<1>5. CASE RecoverStream(t)
  BY <1>5 DEF RecoverStream
<1>6. CASE ReportEarly(t)
  <2>1. PICK v \in {"completed", "failed"} :
          /\ v = "completed" => Hook(t)
          /\ v # "completed" => UNCHANGED review
          /\ EmitUnposted(t, v)
          /\ early' = [early EXCEPT ![t] = @ \cup {v}]
    BY <1>6 DEF ReportEarly, EmitUnposted
  <2>2. /\ UNCHANGED <<status, terminated, phase, holder, watcher, snap, repaired>>
        /\ phase[t] \in {"running", "rerunning"}
    BY <1>6 DEF ReportEarly
  <2>3. /\ changeSet \subseteq changeSet' /\ offered \subseteq offered'
        /\ changeSet' \subseteq changeSet \cup {t} /\ offered' \subseteq offered \cup {t}
        /\ \A u \in changeSet' : u \in offered'
        /\ t \in changeSet' => t \in changeSet \/ v = "completed"
    BY <2>1 DEF Hook
  <2>4. TypeOK' /\ LockInv' /\ SnapInv' /\ StopInv'
    BY <2>1, <2>2, <2>3, EmitEffect
  <2>5. VerdictInv'
    BY <2>1, <2>2, EmitEffect
  <2>6. ReviewInv'
    BY <2>1, <2>2, <2>3, EmitEffect
  <2>7. DoneOwesNothing' /\ HandedOverIsCompleted' /\ OneVerdict'
    BY <2>1, <2>2, <2>3, EmitEffect
  <2> QED
    BY <2>4, <2>5, <2>6, <2>7
<1> QED
  BY <1>1, <1>2, <1>3, <1>4, <1>5, <1>6

\* The ways out of a dispatch.
LEMMA FinishKeepsIInv ==
  ASSUME IInv, NEW t \in Tasks,
         SeeTerminated(t) \/ ReportCancelled(t) \/ SeeError(t) \/ ReportFailure(t)
           \/ SeeUnposted(t) \/ SeeSuccess(t) \/ CheckStatus(t) \/ RepairTerminal(t)
           \/ HandOver(t) \/ NothingToHandOver(t)
  PROVE  IInv'
<1> USE DEF IInv, TypeOK, Verdicts, Statuses, RunnerPhases, EndPhases, LockedPhases, OverPhases, Phases,
       LockInv, SnapInv, StopInv, VerdictInv, ReviewInv, DoneOwesNothing, OwesNothing, OneVerdict,
       HandedOverIsCompleted,
       Settled, review, server, flags, verdicts, Go, Return, Cleanup
<1>1. CASE SeeTerminated(t)
  BY <1>1 DEF SeeTerminated
<1>2. CASE ReportCancelled(t)
  <2>1. TypeOK' /\ LockInv' /\ SnapInv' /\ StopInv'
    BY <1>2, EmitEffect, SMTT(30) DEF ReportCancelled
  <2>2. VerdictInv' /\ ReviewInv'
    BY <1>2, EmitEffect, SMTT(30) DEF ReportCancelled
  <2>3. DoneOwesNothing' /\ HandedOverIsCompleted' /\ OneVerdict'
    BY <1>2, EmitEffect, SMTT(60) DEF ReportCancelled
  <2> QED
    BY <2>1, <2>2, <2>3
<1>3. CASE SeeError(t)
  BY <1>3 DEF SeeError
<1>4. CASE ReportFailure(t)
  <2>1. TypeOK' /\ LockInv' /\ SnapInv' /\ StopInv'
    BY <1>4, EmitEffect, SMTT(30) DEF ReportFailure
  <2>2. VerdictInv' /\ ReviewInv'
    BY <1>4, EmitEffect, SMTT(30) DEF ReportFailure
  <2>3. DoneOwesNothing'
    BY <1>4, EmitEffect, SMTT(30) DEF ReportFailure
  <2>4. /\ UNCHANGED <<snap, offered, early, repaired>> /\ snap[t] # "handed"
        /\ \A u \in Tasks : u # t => emitted'[u] = emitted[u]
    BY <1>4, EmitEffect, SMTT(30) DEF ReportFailure
  <2>5. emitted[t] \ early[t] = {} /\ emitted'[t] = emitted[t] \cup {"failed"}
    BY <1>4, EmitEffect, SMTT(30) DEF ReportFailure
  <2>6. HandedOverIsCompleted' /\ OneVerdict'
    BY <2>4, <2>5
  <2> QED
    BY <2>1, <2>2, <2>3, <2>6
<1>5. CASE SeeUnposted(t)
  <2>1. TypeOK' /\ LockInv' /\ SnapInv' /\ StopInv'
    BY <1>5 DEF SeeUnposted
  <2>2. VerdictInv' /\ ReviewInv' /\ HandedOverIsCompleted' /\ OneVerdict'
    BY <1>5 DEF SeeUnposted
  <2>3. \A u \in Tasks : u # t => phase'[u] = phase[u] /\ snap'[u] = snap[u] /\ watcher'[u] = watcher[u]
    BY <1>5 DEF SeeUnposted
  <2>4. snap'[t] # "held" /\ watcher'[t] = "off" /\ t \notin holder' /\ holder' \subseteq holder
    BY <1>5 DEF SeeUnposted
  <2>5. emitted' = emitted /\ emitted[t] # {}
    BY <1>5 DEF SeeUnposted
  <2>6. ASSUME NEW u \in Tasks, phase'[u] \in OverPhases PROVE OwesNothing(u)'
    <3>1. CASE u = t
      BY <2>4, <2>5, <3>1 DEF OwesNothing
    <3>2. CASE u # t
      BY <2>3, <2>4, <2>5, <2>6, <3>2 DEF DoneOwesNothing, OwesNothing
    <3> QED
      BY <3>1, <3>2
  <2> QED
    BY <2>1, <2>2, <2>6 DEF IInv, DoneOwesNothing
<1>6. CASE SeeSuccess(t)
  BY <1>6 DEF SeeSuccess
<1>7. CASE CheckStatus(t)
  BY <1>7 DEF CheckStatus
<1>8. CASE RepairTerminal(t)
  BY <1>8, EmitEffect, SMTT(60) DEF RepairTerminal
<1>9. CASE HandOver(t)
  BY <1>9 DEF HandOver
<1>10. CASE NothingToHandOver(t)
  BY <1>10 DEF NothingToHandOver
<1> QED
  BY <1>1, <1>2, <1>3, <1>4, <1>5, <1>6, <1>7, <1>8, <1>9, <1>10, Zenon

LEMMA DispatchNext == ASSUME IInv, [Next]_vars PROVE IInv'
<1>1. CASE Next
  BY <1>1, ServerKeepsIInv, WatchKeepsIInv, StartKeepsIInv, RunTurnKeepsIInv, FinishKeepsIInv
     DEF Next, Server, Watch, Start, RunTurn, Finish
<1>2. CASE UNCHANGED vars
  BY <1>2 DEF vars, IInv, TypeOK, LockInv, SnapInv, StopInv, VerdictInv, ReviewInv,
              DoneOwesNothing, OwesNothing, OneVerdict, HandedOverIsCompleted, Settled
<1> QED
  BY <1>1, <1>2

\* The invariant that carries every theorem below.
THEOREM DispatchInvariant == Spec => []IInv
BY DispatchInit, DispatchNext, PTL DEF Spec

\* Every variable keeps its type, through every way out of a dispatch.
THEOREM TypeCorrect == Spec => []TypeOK
BY DispatchInvariant, PTL DEF IInv

\* A dispatch that is over has no snapshot, no watcher and no lock left, and its turn has a
\* terminal event (handleRunnerDispatch and its deferred calls).
THEOREM NothingOwed == Spec => []DoneOwesNothing
BY DispatchInvariant, PTL DEF IInv

\* When a turn runs, the session's other started turns are completely wound up
\* (getSessionLock).
THEOREM StopsComeFirst == Spec => []StopProcessedFirst
<1>1. IInv => StopProcessedFirst
  <2> SUFFICES ASSUME IInv, NEW t \in Tasks, NEW u \in Tasks, t # u,
                      SessionOf[t] = SessionOf[u], phase[t] \in RunnerPhases
               PROVE  phase[u] \in {"queued", "claimed"} \/ (phase[u] \in OverPhases /\ OwesNothing(u))
    BY DEF StopProcessedFirst
  <2>1. t \in holder
    BY DEF IInv, LockInv, LockedPhases
  <2>2. phase[u] \notin LockedPhases
    BY <2>1 DEF IInv, LockInv
  <2>3. phase[u] \in {"queued", "claimed"} \cup OverPhases
    BY <2>2 DEF IInv, TypeOK, Phases
  <2> QED
    BY <2>3 DEF IInv, DoneOwesNothing
<1> QED
  BY <1>1, DispatchInvariant, PTL

\* A turn is both completed and failed only through the repair (ensureSuccessfulDispatchTerminal)
\* or through what codex reports early (request).
THEOREM VerdictsAgree == Spec => []OneVerdict
BY DispatchInvariant, PTL DEF IInv

\* Only the review of a turn that completed is handed over (startChangeSetWaiter).
THEOREM OnlyCompletedTurnsAreReviewed == Spec => []HandedOverIsCompleted
BY DispatchInvariant, PTL DEF IInv

\* changeset.generated reaches the server before any terminal event of its turn but an early one
\* (turnExecutionProfile.BeforeComplete).
THEOREM ChangeSetComesFirst == Spec => ChangeSetBeforeVerdict
<1>1. ASSUME IInv, [Next]_vars
      PROVE  \A t \in Tasks : t \in offered' \ offered => Settled(t)' = {}
  <2> USE DEF review, verdicts, server, flags, Go, Return
  <2>1. ASSUME NEW t \in Tasks, RunBeforeComplete(t) \/ ReportEarly(t)
        PROVE  \A u \in Tasks : u \in offered' \ offered => Settled(u)' = {}
    <3>1. Hook(t) \/ offered' = offered
      BY <2>1 DEF RunBeforeComplete, ReportEarly
    <3>2. phase[t] \in RunnerPhases /\ Settled(t) = {}
      BY <1>1, <2>1 DEF RunBeforeComplete, ReportEarly, RunnerPhases, IInv, VerdictInv
    <3>3. \A u \in offered' \ offered : u = t
      BY <3>1 DEF Hook
    <3>4. Settled(t)' = {}
      <4>1. CASE RunBeforeComplete(t)
        BY <3>2, <4>1 DEF RunBeforeComplete, Settled
      <4>2. CASE ReportEarly(t)
        BY <1>1, <3>2, <4>2 DEF ReportEarly, EmitAccepted, Emitted, Settled, IInv, TypeOK
      <4> QED
        BY <2>1, <4>1, <4>2
    <3> QED
      BY <3>3, <3>4
  <2>2. ASSUME NEW t \in Tasks, Stop(t) \/ Terminate(t) \/ Claim(t) \/ Server(t) \/ Watch(t) \/ Start(t) \/ Finish(t)
        PROVE  offered' = offered
    BY <2>2 DEF Stop, Terminate, Claim, Server, ServerApplies, Replay, Watch, WatcherCancels,
                WatcherFallsBack, WatcherSignals,
                Start, RejectRuntime, LockSession, PostTurnStarted, AbortStart, CreateSnapshot,
                SkipSnapshot, Finish, SeeTerminated, ReportCancelled, SeeError, ReportFailure,
                SeeUnposted, SeeSuccess, CheckStatus, RepairTerminal, HandOver, NothingToHandOver
  <2>3. ASSUME NEW t \in Tasks,
               CompleteTurn(t) \/ RunnerReportsFailure(t) \/ RunnerFails(t) \/ RecoverStream(t)
        PROVE  offered' = offered
    BY <2>3 DEF CompleteTurn, RunnerReportsFailure, RunnerFails, RecoverStream
  <2>4. CASE UNCHANGED vars
    BY <2>4 DEF vars
  <2> QED
    BY <1>1, <2>1, <2>2, <2>3, <2>4 DEF Next, RunTurn
<1>2. Spec => [][\A t \in Tasks : t \in offered' \ offered => Settled(t)' = {}]_vars
  BY <1>1, DispatchInvariant, PTL DEF Spec
<1> QED
  BY <1>2 DEF ChangeSetBeforeVerdict
===============================================================================
