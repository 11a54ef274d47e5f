------------------------ MODULE ChangeSetReviewProofs ------------------------
(***************************************************************************)
(* Proofs that the safety properties of ChangeSetReview hold for every     *)
(* number of turns and of crashes.                                         *)
(***************************************************************************)
EXTENDS ChangeSetReview, TLAPS

LEMMA TypeInit == Init => TypeOK
  BY ReviewAssumption DEF Init, TypeOK, Turns, None, Phases, WaiterStates

LEMMA TypeNext == TypeOK /\ [Next]_vars => TypeOK'
<1> SUFFICES ASSUME TypeOK, [Next]_vars PROVE TypeOK'
  OBVIOUS
<1> USE ReviewAssumption
    DEF TypeOK, Turns, None, Events, UserOutcomes
<1>1. CASE UNCHANGED vars
  BY <1>1 DEF vars
<1>2. CASE ClaimDispatch
  BY <1>2 DEF ClaimDispatch, Advance, entry, Phases
<1>3. CASE Dispatcher
  <2>1. CASE AutoKeepTake
    BY <2>1 DEF AutoKeepTake, Advance, entry, Phases, KeepPhases, TurnPhases, DiscardPhases
  <2>2. CASE AutoKeepNothing
    BY <2>2 DEF AutoKeepNothing, Advance, entry, Phases, KeepPhases, TurnPhases, DiscardPhases
  <2>3. CASE AutoKeepPost
    BY <2>3 DEF AutoKeepPost, Post, Advance, entry, Phases, KeepPhases, TurnPhases, DiscardPhases
  <2>4. CASE AutoKeepCleanup
    BY <2>4 DEF AutoKeepCleanup, BeginRemoval, Advance, entry, Phases, KeepPhases, TurnPhases, DiscardPhases
  <2>5. CASE AutoKeepCleanupDone
    <3>1. snap' \in [Turns -> {"none", "whole", "removing", "gone"}]
      BY <2>5 DEF AutoKeepCleanupDone, EndRemoval
    <3>2. phase' \in Phases /\ keeping' \in 0 .. MaxTurns
      BY <2>5 DEF AutoKeepCleanupDone, Advance, Phases, TurnPhases
    <3> QED
      BY <2>5, <3>1, <3>2 DEF AutoKeepCleanupDone, Advance, entry
  <2>6. CASE PostTurnStarted
    BY <2>6 DEF PostTurnStarted, Advance, entry, Phases, KeepPhases, TurnPhases, DiscardPhases
  <2>7. CASE CreateSnapshot
    BY <2>7 DEF CreateSnapshot, Advance, entry, Phases, KeepPhases, TurnPhases, DiscardPhases
  <2>8. CASE NoSnapshot
    BY <2>8 DEF NoSnapshot, Advance, entry, Phases, KeepPhases, TurnPhases, DiscardPhases
  <2>9. CASE GenerateChangeSet
    BY <2>9 DEF GenerateChangeSet, Advance, entry, Phases, KeepPhases, TurnPhases, DiscardPhases
  <2>10. CASE StartChangeSetWaiter
    BY <2>10 DEF StartChangeSetWaiter, Advance, entry, Phases, KeepPhases, TurnPhases, DiscardPhases, WaiterStates, AwaitingStates, ApplyStates, CleanupStates, EndStates
  <2>11. CASE AbandonTurn
    BY <2>11 DEF AbandonTurn, Post, Advance, entry, Phases, KeepPhases, TurnPhases, DiscardPhases
  <2>12. CASE DiscardSnapshot
    BY <2>12 DEF DiscardSnapshot, BeginRemoval, Advance, entry, Phases, KeepPhases, TurnPhases, DiscardPhases
  <2>13. CASE DiscardSnapshotDone
    BY <2>13 DEF DiscardSnapshotDone, EndRemoval, Advance, entry, Phases, KeepPhases, TurnPhases, DiscardPhases
  <2> QED
    BY <1>3, <2>1, <2>2, <2>3, <2>4, <2>5, <2>6, <2>7, <2>8, <2>9, <2>10, <2>11, <2>12, <2>13 DEF Dispatcher, AutoKeep
<1>4. ASSUME NEW t \in Turns, Waiter(t) PROVE TypeOK'
  <2>1. CASE PollDecision(t)
    BY <2>1 DEF PollDecision, Step, WaiterStates, AwaitingStates, ApplyStates, CleanupStates, EndStates
  <2>2. CASE PollError(t)
    BY <2>2 DEF PollError, Step, WaiterStates, AwaitingStates, ApplyStates, CleanupStates, EndStates
  <2>3. CASE CheckStillPending(t)
    BY <2>3 DEF CheckStillPending, Step, WaiterStates, AwaitingStates, ApplyStates, CleanupStates, EndStates
  <2>4. CASE DropPending(t)
    BY <2>4 DEF DropPending, Step, WaiterStates, AwaitingStates, ApplyStates, CleanupStates, EndStates
  <2>5. CASE TimeoutKeep(t)
    BY <2>5 DEF TimeoutKeep, Post, Step, WaiterStates, AwaitingStates, ApplyStates, CleanupStates, EndStates
  <2>6. CASE TakePending(t)
    BY <2>6 DEF TakePending, Step, WaiterStates, AwaitingStates, ApplyStates, CleanupStates, EndStates
  <2>7. CASE PostUnblocked(t)
    BY <2>7 DEF PostUnblocked, Step, WaiterStates, AwaitingStates, ApplyStates, CleanupStates, EndStates
  <2>8. CASE ApplyKeep(t)
    BY <2>8 DEF ApplyKeep, Post, Step, WaiterStates, AwaitingStates, ApplyStates, CleanupStates, EndStates
  <2>9. CASE ApplyUnsupported(t)
    BY <2>9 DEF ApplyUnsupported, Step, WaiterStates, AwaitingStates, ApplyStates, CleanupStates, EndStates
  <2>10. CASE BeginRestore(t)
    BY <2>10 DEF BeginRestore, Step, WaiterStates, AwaitingStates, ApplyStates, CleanupStates, EndStates
  <2>11. CASE EndRestore(t)
    <3> DEFINE e == IF decision[t] = "rollback" THEN "rolledBack" ELSE "selectiveApplied"
    <3>1. e \in Events
      OBVIOUS
    <3>2. events' \in [Turns -> SUBSET Events]
      <4>1. events' \in {events, [events EXCEPT ![t] = @ \cup {e}]}
        BY <2>11 DEF EndRestore, Post
      <4> HIDE DEF e
      <4> QED
        BY <3>1, <4>1
    <3> QED
      BY <2>11, <3>2 DEF EndRestore, Step, WaiterStates, CleanupStates
  <2>12. CASE FailRestore(t)
    <3>1. "cleanup" \in WaiterStates
      BY DEF WaiterStates, CleanupStates
    <3>2. waiter' = [waiter EXCEPT ![t] = "cleanup"]
      BY <2>12 DEF FailRestore, Step
    <3>3. UNCHANGED <<turn, phase, keeping, cancelled, decision, crashes, pending, remover, snap, events>>
      BY <2>12 DEF FailRestore, Step
    <3> QED
      BY <3>1, <3>2, <3>3
  <2>13. CASE CleanupSnapshot(t)
    BY <2>13 DEF CleanupSnapshot, BeginRemoval, Step, WaiterStates, AwaitingStates, ApplyStates, CleanupStates, EndStates
  <2>14. CASE CleanupSnapshotDone(t)
    BY <2>14 DEF CleanupSnapshotDone, EndRemoval, Step, WaiterStates, AwaitingStates, ApplyStates, CleanupStates, EndStates
  <2> QED
    BY <1>4, <2>1, <2>2, <2>3, <2>4, <2>5, <2>6, <2>7, <2>8, <2>9, <2>10, <2>11, <2>12, <2>13, <2>14 DEF Waiter
<1>5. ASSUME NEW t \in Turns, UserDecides(t) PROVE TypeOK'
  BY <1>5 DEF UserDecides, entry
<1>6. CASE Crash
  BY <1>6 DEF Crash, Phases, WaiterStates, EndStates
<1> QED
  BY <1>1, <1>2, <1>3, <1>4, <1>5, <1>6 DEF Next

\* What a lossy post of event e about turn t leaves of the outcomes on the server.
LEMMA PostEffect ==
  ASSUME TypeOK, NEW t \in Turns, NEW e \in Events, Post(t, e)
  PROVE  \A u \in Turns :
           /\ events'[u] = events[u] \/ (u = t /\ events'[u] = events[u] \cup {e})
           /\ u # t \/ e \notin UserOutcomes =>
                events'[u] \cap UserOutcomes = events[u] \cap UserOutcomes
           /\ u # t \/ e # "autoKept" => ("autoKept" \in events'[u] <=> "autoKept" \in events[u])
<1>1. \A u \in Turns :
        events'[u] = events[u] \/ (u = t /\ events'[u] = events[u] \cup {e})
  BY DEF Post, TypeOK
<1> QED
  BY <1>1

LEMMA IInvInit == Init => IInv
  BY TypeInit DEF Init, IInv, LockInv, KeepInv, PendingInv, FreshInv, OwnedInv, SnapInv,
                  OutcomeInv, LeakInv, None, KeepPhases, AwaitingStates, ApplyStates

LEMMA IInvNext == IInv /\ [Next]_vars => IInv'
<1> SUFFICES ASSUME IInv, [Next]_vars PROVE IInv'
  OBVIOUS
<1> TypeOK /\ TypeOK'
  BY TypeNext DEF IInv
<1> USE ReviewAssumption
    DEF IInv, LockInv, KeepInv, PendingInv, FreshInv, OwnedInv, SnapInv, OutcomeInv, LeakInv,
        TypeOK, Turns, None, AwaitingStates, ApplyStates, KeepPhases
<1>1. CASE UNCHANGED vars
  BY <1>1 DEF vars
<1>2. CASE ClaimDispatch
  BY <1>2 DEF ClaimDispatch, Advance, entry
<1>3. CASE Dispatcher
  <2>1. CASE AutoKeepTake
    BY <2>1 DEF AutoKeepTake, Advance, entry
  <2>2. CASE AutoKeepNothing
    BY <2>2 DEF AutoKeepNothing, Advance, entry
  <2>3. CASE AutoKeepPost
    <3>1. OutcomeInv'
      BY <2>3, PostEffect DEF AutoKeepPost, Advance, entry, Events, UserOutcomes
    <3> QED
      BY <2>3, <3>1 DEF AutoKeepPost, Advance, entry
  <2>4. CASE AutoKeepCleanup
    BY <2>4 DEF AutoKeepCleanup, BeginRemoval, Advance, entry
  <2>5. CASE AutoKeepCleanupDone
    BY <2>5 DEF AutoKeepCleanupDone, EndRemoval, Advance, entry
  <2>6. CASE PostTurnStarted
    BY <2>6 DEF PostTurnStarted, Advance, entry
  <2>7. CASE CreateSnapshot
    BY <2>7 DEF CreateSnapshot, Advance, entry
  <2>8. CASE NoSnapshot
    BY <2>8 DEF NoSnapshot, Advance, entry
  <2>9. CASE GenerateChangeSet
    BY <2>9 DEF GenerateChangeSet, Advance, entry, UserOutcomes
  <2>10. CASE StartChangeSetWaiter
    BY <2>10 DEF StartChangeSetWaiter, Advance, entry
  <2>11. CASE AbandonTurn
    <3>1. OutcomeInv'
      BY <2>11, PostEffect DEF AbandonTurn, Advance, entry, Events, UserOutcomes
    <3> QED
      BY <2>11, <3>1 DEF AbandonTurn, Advance, entry
  <2>12. CASE DiscardSnapshot
    BY <2>12 DEF DiscardSnapshot, BeginRemoval, Advance, entry
  <2>13. CASE DiscardSnapshotDone
    BY <2>13 DEF DiscardSnapshotDone, EndRemoval, Advance, entry
  <2> QED
    BY <1>3, <2>1, <2>2, <2>3, <2>4, <2>5, <2>6, <2>7, <2>8, <2>9, <2>10, <2>11, <2>12, <2>13 DEF Dispatcher, AutoKeep
<1>4. ASSUME NEW t \in Turns, Waiter(t) PROVE IInv'
  <2>1. CASE PollDecision(t)
    BY <2>1 DEF PollDecision, Step
  <2>2. CASE PollError(t)
    BY <2>2 DEF PollError, Step
  <2>3. CASE CheckStillPending(t)
    BY <2>3 DEF CheckStillPending, Step
  <2>4. CASE DropPending(t)
    BY <2>4 DEF DropPending, Step
  <2>5. CASE TimeoutKeep(t)
    BY <2>5 DEF TimeoutKeep, Post, Step, UserOutcomes
  <2>6. CASE TakePending(t)
    BY <2>6 DEF TakePending, Step
  <2>7. CASE PostUnblocked(t)
    BY <2>7 DEF PostUnblocked, Step
  <2>8. CASE ApplyKeep(t)
    BY <2>8 DEF ApplyKeep, Post, Step, UserOutcomes
  <2>9. CASE ApplyUnsupported(t)
    BY <2>9 DEF ApplyUnsupported, Step
  <2>10. CASE BeginRestore(t)
    BY <2>10 DEF BeginRestore, Step
  <2>11. CASE EndRestore(t)
    <3> DEFINE e == IF decision[t] = "rollback" THEN "rolledBack" ELSE "selectiveApplied"
    <3>1. Post(t, e) /\ e \in Events
      BY <2>11 DEF EndRestore, Events, UserOutcomes
    <3>2. e # "autoKept"
      OBVIOUS
    <3> HIDE DEF e
    <3>3. OutcomeInv'
      BY <2>11, <3>1, <3>2, PostEffect DEF EndRestore, Step, UserOutcomes
    <3> QED
      BY <2>11, <3>3 DEF EndRestore, Step
  <2>12. CASE FailRestore(t)
    <3>1. CASE Step(t, "restoring", "cleanup")
      BY <2>12, <3>1 DEF FailRestore, Step
    <3>2. CASE Step(t, "apply", "cleanup")
      BY <2>12, <3>2 DEF FailRestore, Step
    <3> QED
      BY <2>12, <3>1, <3>2 DEF FailRestore
  <2>13. CASE CleanupSnapshot(t)
    BY <2>13 DEF CleanupSnapshot, BeginRemoval, Step
  <2>14. CASE CleanupSnapshotDone(t)
    BY <2>14 DEF CleanupSnapshotDone, EndRemoval, Step
  <2> QED
    BY <1>4, <2>1, <2>2, <2>3, <2>4, <2>5, <2>6, <2>7, <2>8, <2>9, <2>10, <2>11, <2>12, <2>13, <2>14 DEF Waiter
<1>5. ASSUME NEW t \in Turns, UserDecides(t) PROVE IInv'
  BY <1>5 DEF UserDecides, entry
<1>6. CASE Crash
  BY <1>6 DEF Crash, EndStates
<1> QED
  BY <1>1, <1>2, <1>3, <1>4, <1>5, <1>6 DEF Next

\* The daemon's reviews keep the inductive invariant in every reachable state.
THEOREM ReviewInvariant == Spec => []IInv
  BY IInvInit, IInvNext, PTL DEF Spec

\* The state is always well typed.
THEOREM TypeCorrect == Spec => []TypeOK
  BY ReviewInvariant, PTL DEF IInv

\* While a review is in pendingSnapshots its snapshot is complete.
THEOREM PendingSnapshotSafe == Spec => []PendingSnapshotWhole
<1>1. IInv => PendingSnapshotWhole
  BY DEF IInv, PendingInv, PendingSnapshotWhole
<1> QED
  BY <1>1, ReviewInvariant, PTL

\* No waiter and no auto-keep deletes the snapshot of the turn that is running.
THEOREM RunningSnapshotSafe == Spec => []RunningSnapshotWhole
<1>1. IInv => RunningSnapshotWhole
  BY DEF IInv, LockInv, RunningSnapshotWhole
<1> QED
  BY <1>1, ReviewInvariant, PTL

\* A rollback reads a complete snapshot, the auto-keep race apart.
THEOREM RestoreSafe == Spec => []RestoreFromWholeSnapshot
<1>1. IInv => RestoreFromWholeSnapshot
  BY DEF IInv, SnapInv, ApplyStates, RestoreFromWholeSnapshot
<1> QED
  BY <1>1, ReviewInvariant, PTL

\* The server hears contradictory outcomes of one review only in the auto-keep race.
THEOREM NoOtherContradiction == Spec => []ContradictionOnlyByAutoKeep
<1>1. IInv => ContradictionOnlyByAutoKeep
  BY DEF IInv, OutcomeInv, ContradictionOnlyByAutoKeep
<1> QED
  BY <1>1, ReviewInvariant, PTL

\* A waiter that returned has left its snapshot deleted, or about to be by auto-keep.
THEOREM NoOtherLeak == Spec => []SnapshotNotLeaked
<1>1. IInv => SnapshotNotLeaked
  BY DEF IInv, LeakInv, SnapshotNotLeaked
<1> QED
  BY <1>1, ReviewInvariant, PTL

\* A review that is still awaited is in the map, or auto-keep or a late timeout took it out.
THEOREM AwaitedReviewOwned == Spec => []AwaitedIsOwned
<1>1. IInv => AwaitedIsOwned
  BY DEF IInv, OwnedInv, AwaitedIsOwned
<1> QED
  BY <1>1, ReviewInvariant, PTL

\* The reviews of a session implement the slot discipline of ReviewSlot.
THEOREM ImplementsReviewSlot == Spec => SlotSpec
<1> DEFINE opened == {t \in Turns : waiter[t] # "none"}
<1>1. Init => Slot!Init
  BY DEF Init, Slot!Init, Slot!None, None
<1>2. IInv /\ [Next]_vars => [Slot!Next]_(Slot!vars)
  <2> SUFFICES ASSUME IInv, [Next]_vars PROVE [Slot!Next]_(Slot!vars)
    OBVIOUS
  <2> USE DEF IInv, TypeOK, Turns, None, Slot!None, Slot!Turns, Slot!vars
  <2>1. CASE StartChangeSetWaiter
    <3>1. turn \in Turns /\ pending = None /\ pending' = turn
      BY <2>1, ReviewAssumption DEF StartChangeSetWaiter, Advance, LockInv
    <3>2. \A u \in opened : u < turn
      BY <2>1, ReviewAssumption DEF StartChangeSetWaiter, Advance, LockInv
    <3>3. opened' = opened \cup {turn}
      BY <2>1, <3>1 DEF StartChangeSetWaiter
    <3> QED
      BY <3>1, <3>2, <3>3 DEF Slot!Next, Slot!Open
  <2>2. CASE ~StartChangeSetWaiter
    <3>1. opened' = opened
      <4>1. CASE UNCHANGED vars
        BY <4>1 DEF vars
      <4>2. CASE ClaimDispatch \/ Dispatcher
        BY <2>2, <4>2 DEF ClaimDispatch, Advance, entry, Dispatcher, AutoKeep, AutoKeepTake, AutoKeepNothing,
          AutoKeepPost, AutoKeepCleanup, AutoKeepCleanupDone, PostTurnStarted, CreateSnapshot, NoSnapshot,
          GenerateChangeSet, AbandonTurn, DiscardSnapshot, DiscardSnapshotDone
      <4>3. ASSUME NEW t \in Turns, Waiter(t) PROVE opened' = opened
        BY <4>3, ZenonT(60) DEF Waiter, Step, PollDecision, PollError, CheckStillPending, DropPending,
          TimeoutKeep, TakePending, PostUnblocked, ApplyKeep, ApplyUnsupported, BeginRestore,
          EndRestore, FailRestore, CleanupSnapshot, CleanupSnapshotDone
      <4>4. ASSUME NEW t \in Turns, UserDecides(t) PROVE opened' = opened
        BY <4>4 DEF UserDecides, entry
      <4>5. CASE Crash
        BY <4>5 DEF Crash, EndStates
      <4> QED
        BY <4>1, <4>2, <4>3, <4>4, <4>5 DEF Next
    <3>2. pending' = pending \/ pending' = None
      BY <2>2 DEF Next, vars, Advance, entry, Step, ClaimDispatch, Dispatcher, AutoKeep, AutoKeepTake, AutoKeepNothing,
        AutoKeepPost, AutoKeepCleanup, AutoKeepCleanupDone, PostTurnStarted, CreateSnapshot, NoSnapshot,
        GenerateChangeSet, AbandonTurn, DiscardSnapshot, DiscardSnapshotDone, Waiter,
        PollDecision, PollError, CheckStillPending, DropPending, TimeoutKeep, TakePending,
        PostUnblocked, ApplyKeep, ApplyUnsupported, BeginRestore, EndRestore, FailRestore,
        CleanupSnapshot, CleanupSnapshotDone, UserDecides, Crash
    <3> QED
      BY <3>1, <3>2 DEF Slot!Next, Slot!Close
  <2> QED
    BY <2>1, <2>2
<1> QED
  BY <1>1, <1>2, ReviewInvariant, PTL DEF Spec, SlotSpec, Slot!Spec

=============================================================================
