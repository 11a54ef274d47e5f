------------------------ MODULE DaemonRestartProofs ------------------------
(***************************************************************************)
(* Theorems about the two components that a restart of the daemon relies   *)
(* on, StartupRecovery and TerminalOutbox: for any set of tasks and of     *)
(* events, and any number of restarts, attempts, faults and torn lines.    *)
(***************************************************************************)
EXTENDS StartupRecovery, TerminalOutbox, TLAPS

-----------------------------------------------------------------------------
(* StartupRecovery.                                                        *)
(*                                                                         *)
(* RecoveryIInv is inductive: as long as the flag is clear this            *)
(* incarnation has sent nothing (FlagInv), nothing runs and no other       *)
(* goroutine exists before Run's own registration is dealt with            *)
(* (StartInv), and a request is open only while its sender waits           *)
(* (OpenInv).                                                              *)

LEMMA RecoveryInitHolds == RecoveryInit => RecoveryIInv
<1> SUFFICES ASSUME RecoveryInit PROVE RecoveryIInv
  OBVIOUS
<1>1. caller = [c \in Callers |-> IF c = "run" THEN "registering" ELSE "off"]
  BY DEF RecoveryInit, StartCallers
<1>2. /\ caller \in [Callers -> CallerStates]
      /\ caller["run"] = "registering" /\ caller["retry"] = "off" /\ caller["heartbeat"] = "off"
  BY <1>1 DEF Callers, CallerStates
<1>3. 0 \in Epochs /\ \A n \in Epochs : n \in Nat
  BY RecoveryAssumption DEF Epochs
<1>4. RecoveryTypeOK
  BY <1>2, <1>3 DEF RecoveryInit, RecoveryTypeOK
<1>5. FlagInv /\ StartInv /\ OpenInv /\ AtMostOneRecovery
  BY <1>2, <1>3 DEF RecoveryInit, FlagInv, StartInv, OpenInv, AtMostOneRecovery
<1> QED
  BY <1>4, <1>5 DEF RecoveryIInv

\* When a caller's registration is dealt with, the task loop is there, Run has returned from
\* its own, and no other caller's call is touched.
LEMMA ProceedEffect ==
  ASSUME RecoveryTypeOK, StartInv, NEW c \in Callers, caller[c] # "off",
         NEW retry \in {"off", "registering"}, Proceed(c, retry)
  PROVE  /\ caller' \in [Callers -> CallerStates]
         /\ serving' = TRUE
         /\ caller'["run"] = "off"
         /\ \A d \in Callers : d # c /\ caller[d] = "calling" => caller'[d] = "calling"
<1>1. CASE c = "run"
  <2>1. ~serving /\ caller["retry"] = "off" /\ caller["heartbeat"] = "off"
    BY <1>1 DEF StartInv
  <2> QED
    BY <1>1, <2>1 DEF Proceed, RecoveryTypeOK, Callers, CallerStates
<1>2. CASE c # "run"
  <2>1. serving = TRUE /\ caller["run"] = "off"
    BY <1>2 DEF StartInv, RecoveryTypeOK, Callers
  <2> QED
    BY <1>2, <2>1 DEF Proceed, RecoveryTypeOK, Callers, CallerStates
<1> QED
  BY <1>1, <1>2

\* Such a step keeps the invariant if it closes the caller's own request and opens none.
LEMMA ProceedKeepsInv ==
  ASSUME RecoveryIInv, NEW c \in Callers, caller[c] # "off",
         NEW retry \in {"off", "registering"}, Proceed(c, retry),
         UNCHANGED <<epoch, recovered, tasks, sender, sent>>,
         request' \in [Epochs -> {"none", "sent", "abandoned", "handled"}],
         \A n \in Epochs : request'[n] = "sent" => request[n] = "sent" /\ sender[n] # c,
         \A n \in Epochs : request[n] = "none" => request'[n] = "none"
  PROVE  RecoveryIInv'
<1>1. /\ caller' \in [Callers -> CallerStates] /\ serving' = TRUE /\ caller'["run"] = "off"
      /\ \A d \in Callers : d # c /\ caller[d] = "calling" => caller'[d] = "calling"
  BY ProceedEffect DEF RecoveryIInv
<1>2. RecoveryTypeOK'
  BY <1>1 DEF RecoveryIInv, RecoveryTypeOK, tasks
<1>3. FlagInv' /\ AtMostOneRecovery'
  BY DEF RecoveryIInv, RecoveryTypeOK, FlagInv, AtMostOneRecovery
<1>4. StartInv'
  BY <1>1 DEF StartInv
<1>5. OpenInv'
  BY <1>1 DEF RecoveryIInv, OpenInv
<1> QED
  BY <1>2, <1>3, <1>4, <1>5 DEF RecoveryIInv

\* What a caller does between its registration and its return to its loop.
LEMMA CallerKeepsInv ==
  ASSUME RecoveryIInv, NEW c \in Callers,
         HeartbeatFails \/ Register(c) \/ RegisterFails(c) \/ RecoverStartupTasks(c)
  PROVE  RecoveryIInv'
<1> USE RecoveryAssumption
    DEF RecoveryIInv, RecoveryTypeOK, FlagInv, StartInv, OpenInv, AtMostOneRecovery, Epochs, tasks, requests
<1>1. CASE HeartbeatFails
  BY <1>1 DEF HeartbeatFails, Callers, CallerStates
<1>2. CASE Register(c)
  BY <1>2 DEF Register, Callers, CallerStates
<1>3. CASE RegisterFails(c)
  <2>1. \A n \in Epochs : request[n] = "sent" => sender[n] # c
    BY <1>3 DEF RegisterFails
  <2>2. request' = request /\ request \in [Epochs -> {"none", "sent", "abandoned", "handled"}]
    BY <1>3 DEF RegisterFails
  <2>3. caller[c] # "off" /\ Proceed(c, "registering") /\ UNCHANGED <<epoch, recovered, tasks, sender, sent>>
    BY <1>3 DEF RegisterFails
  <2> HIDE DEF RecoveryIInv, RecoveryTypeOK, FlagInv, StartInv, OpenInv, AtMostOneRecovery, Epochs
  <2> QED
    BY <2>1, <2>2, <2>3, ProceedKeepsInv
<1>4. CASE SendRecovery(c)
  BY <1>4 DEF SendRecovery, Send, Callers, CallerStates
<1>5. CASE SkipRecovery(c)
  <2>1. \A n \in Epochs : request[n] = "sent" => sender[n] # c
    BY <1>5 DEF SkipRecovery
  <2>2. request' = request /\ request \in [Epochs -> {"none", "sent", "abandoned", "handled"}]
    BY <1>5 DEF SkipRecovery
  <2>3. caller[c] # "off" /\ Proceed(c, "off") /\ UNCHANGED <<epoch, recovered, tasks, sender, sent>>
    BY <1>5 DEF SkipRecovery
  <2> HIDE DEF RecoveryIInv, RecoveryTypeOK, FlagInv, StartInv, OpenInv, AtMostOneRecovery, Epochs
  <2> QED
    BY <2>1, <2>2, <2>3, ProceedKeepsInv
<1>6. CASE RecoveryAnswered(c)
  <2>1. \A n \in Epochs : request[n] # "sent"
    BY <1>6 DEF RecoveryAnswered
  <2>2. request' = request /\ request \in [Epochs -> {"none", "sent", "abandoned", "handled"}]
    BY <1>6 DEF RecoveryAnswered
  <2>3. caller[c] # "off" /\ Proceed(c, "off") /\ UNCHANGED <<epoch, recovered, tasks, sender, sent>>
    BY <1>6 DEF RecoveryAnswered
  <2> HIDE DEF RecoveryIInv, RecoveryTypeOK, FlagInv, StartInv, OpenInv, AtMostOneRecovery, Epochs
  <2> QED
    BY <2>1, <2>2, <2>3, ProceedKeepsInv
<1>7. CASE RecoveryFails(c)
  <2>1. \A n \in Epochs : request'[n] # "sent"
    BY <1>7 DEF RecoveryFails
  <2>2. /\ request' \in [Epochs -> {"none", "sent", "abandoned", "handled"}]
        /\ \A n \in Epochs : request[n] = "none" => request'[n] = "none"
    BY <1>7 DEF RecoveryFails
  <2>3. caller[c] # "off" /\ Proceed(c, "off") /\ UNCHANGED <<epoch, recovered, tasks, sender, sent>>
    BY <1>7 DEF RecoveryFails
  <2> HIDE DEF RecoveryIInv, RecoveryTypeOK, FlagInv, StartInv, OpenInv, AtMostOneRecovery, Epochs
  <2> QED
    BY <2>1, <2>2, <2>3, ProceedKeepsInv
<1> QED
  BY <1>1, <1>2, <1>3, <1>4, <1>5, <1>6, <1>7 DEF RecoverStartupTasks

\* What the server, the task loop and a restart do.
LEMMA RestKeepsInv ==
  ASSUME RecoveryIInv,
         \/ \E n \in Epochs : ServerRecovers(n)
         \/ \E t \in Tasks : Claim(t) \/ EndTurn(t)
         \/ Restart
  PROVE  RecoveryIInv'
<1> USE RecoveryAssumption
    DEF RecoveryIInv, RecoveryTypeOK, FlagInv, StartInv, OpenInv, AtMostOneRecovery, Epochs, Callers,
        CallerStates, tasks, requests
<1>1. ASSUME NEW n \in Epochs, ServerRecovers(n) PROVE RecoveryIInv'
  BY <1>1 DEF ServerRecovers
<1>2. ASSUME NEW t \in Tasks, Claim(t) PROVE RecoveryIInv'
  BY <1>2 DEF Claim
<1>3. ASSUME NEW t \in Tasks, EndTurn(t) PROVE RecoveryIInv'
  BY <1>3 DEF EndTurn
<1>4. CASE Restart
  <2>1. caller' = [c \in Callers |-> IF c = "run" THEN "registering" ELSE "off"]
    BY <1>4 DEF Restart, StartCallers
  <2>2. /\ caller' \in [Callers -> CallerStates]
        /\ caller'["run"] # "off" /\ caller'["retry"] = "off" /\ caller'["heartbeat"] = "off"
    BY <2>1
  <2>3. /\ request' \in [Epochs -> {"none", "sent", "abandoned", "handled"}]
        /\ \A n \in Epochs : request'[n] # "sent"
        /\ \A n \in Epochs : request[n] = "none" => request'[n] = "none"
    BY <1>4, SMTT(60) DEF Restart
  <2> HIDE DEF Callers, CallerStates
  <2>4. RecoveryTypeOK'
    <3>1. epoch' \in Epochs /\ running' \in SUBSET Tasks
      BY <1>4 DEF Restart
    <3>2. recovered' \in BOOLEAN /\ serving' \in BOOLEAN
      BY <1>4, Zenon DEF Restart
    <3>3. UNCHANGED <<task, sender, sent>>
      BY <1>4 DEF Restart
    <3> HIDE DEF FlagInv, StartInv, OpenInv, AtMostOneRecovery, Epochs
    <3> QED
      BY <2>2, <2>3, <3>1, <3>2, <3>3
  <2>5. FlagInv' /\ AtMostOneRecovery'
    BY <1>4, <2>3 DEF Restart
  <2>6. StartInv' /\ OpenInv'
    BY <1>4, <2>2, <2>3 DEF Restart
  <2> QED
    BY <2>4, <2>5, <2>6
<1> QED
  BY <1>1, <1>2, <1>3, <1>4

LEMMA RecoveryNextKeeps == ASSUME RecoveryIInv, [RecoveryNext]_recoveryVars PROVE RecoveryIInv'
<1>1. CASE RecoveryNext
  BY <1>1, CallerKeepsInv, RestKeepsInv DEF RecoveryNext, Callers
<1>2. CASE UNCHANGED recoveryVars
  BY <1>2 DEF recoveryVars, RecoveryIInv, RecoveryTypeOK, FlagInv, StartInv, OpenInv, AtMostOneRecovery
<1> QED
  BY <1>1, <1>2

\* The inductive invariant holds: the flag, the requests and the callers of Service.Run agree.
THEOREM RecoveryInvariant == RecoverySpec => []RecoveryIInv
BY RecoveryInitHolds, RecoveryNextKeeps, PTL DEF RecoverySpec

\* Every variable keeps its type in every execution of the startup of Service.Run.
THEOREM RecoveryTypeCorrect == RecoverySpec => []RecoveryTypeOK
BY RecoveryInvariant, PTL DEF RecoveryIInv

\* recoverStartupTasks calls the server at most once per process, whichever of its three
\* callers registers, in whatever order and however often.
THEOREM OneRecoveryPerProcess == RecoverySpec => []AtMostOneRecovery
BY RecoveryInvariant, PTL DEF RecoveryIInv

\* The call that Run waits for, before it starts the task loop, never makes the server end a
\* task of this incarnation: an open request of Run means that the loop has not started.
THEOREM TimelyRecoveryIsSafe == RecoverySpec => FirstTrySparesLiveTasks
<1>1. RecoveryIInv => \A n \in Epochs :
                ServerRecovers(n) /\ request[n] = "sent" /\ sender[n] = "run" => running = {}
  BY DEF RecoveryIInv, RecoveryTypeOK, OpenInv, StartInv
<1>2. RecoveryIInv => [\A n \in Epochs :
                 ServerRecovers(n) /\ request[n] = "sent" /\ sender[n] = "run" => running = {}]_recoveryVars
  BY <1>1
<1> QED
  BY <1>2, RecoveryInvariant, PTL DEF FirstTrySparesLiveTasks

-----------------------------------------------------------------------------
(* TerminalOutbox: no queued event is lost, every duplicate is accounted   *)
(* for.                                                                    *)

USE OutboxAssumption

\* The initial states satisfy the inductive invariant.
LEMMA OutboxInit == Init => IInv
BY DEF Init, IInv, TypeOK, EmitterStates, FileInv, ReplayInv, QueuedNotLost, CountInv, Due,
       InFlight, DuplicatesAccounted

\* What an emitter does keeps the inductive invariant: it adds to the file only while no
\* replay runs, and sends only events that are still due.
LEMMA EmitterKeepsIInv ==
  ASSUME IInv, NEW e \in Events, Emit(e) \/ PostEvent(e) \/ EnqueuePending(e)
  PROVE  IInv'
<1> USE DEF IInv, TypeOK, EmitterStates, FileInv, ReplayInv, QueuedNotLost, CountInv, Due,
            InFlight, DuplicatesAccounted, outbox, replay, Move, Accept, Fault, MutexFree
<1>1. CASE Emit(e)
  BY <1>1 DEF Emit
<1>2. CASE PostAccepted(e)
  BY <1>2 DEF PostAccepted
<1>3. CASE PostUnanswered(e)
  BY <1>3 DEF PostUnanswered
<1>4. CASE PostFails(e)
  BY <1>4 DEF PostFails
<1>5. CASE LastPostFails(e)
  BY <1>5 DEF LastPostFails
<1>6. CASE Enqueue(e)
  BY <1>6 DEF Enqueue
<1>7. CASE EnqueueFails(e)
  BY <1>7 DEF EnqueueFails
<1>8. CASE EnqueueTorn(e)
  BY <1>8 DEF EnqueueTorn
<1> QED
  BY <1>1, <1>2, <1>3, <1>4, <1>5, <1>6, <1>7, <1>8 DEF PostEvent, EnqueuePending

\* So does the replay: a record is dropped only after the server accepted it.
LEMMA DrainKeepsIInv ==
  ASSUME IInv, DrainStep \/ \E e \in Events : DrainRecord(e)
  PROVE  IInv'
<1> USE DEF IInv, TypeOK, EmitterStates, FileInv, ReplayInv, QueuedNotLost, CountInv, Due,
            InFlight, DuplicatesAccounted, outbox, replay, Accept, Fault, MutexFree
<1>1. CASE DrainRead
  BY <1>1 DEF DrainRead
<1>2. ASSUME NEW e \in Events, DrainAccepted(e) PROVE IInv'
  BY <1>2 DEF DrainAccepted
<1>3. ASSUME NEW e \in Events, DrainUnanswered(e) PROVE IInv'
  BY <1>3 DEF DrainUnanswered
<1>4. ASSUME NEW e \in Events, DrainRefused(e) PROVE IInv'
  BY <1>4 DEF DrainRefused
<1>5. CASE DrainRewrite
  BY <1>5 DEF DrainRewrite
<1>6. CASE DrainRewriteFails
  BY <1>6 DEF DrainRewriteFails
<1> QED
  BY <1>1, <1>2, <1>3, <1>4, <1>5, <1>6 DEF DrainStep, DrainRecord

\* And a crash: the fault it counts pays for every record accepted and not yet written back.
LEMMA CrashKeepsIInv == ASSUME IInv, Crash PROVE IInv'
BY DEF IInv, TypeOK, EmitterStates, FileInv, ReplayInv, QueuedNotLost, CountInv, Due,
       InFlight, DuplicatesAccounted, outbox, Fault, Crash

LEMMA OutboxNext == ASSUME IInv, [Next]_vars PROVE IInv'
<1>1. CASE Next
  BY <1>1, EmitterKeepsIInv, DrainKeepsIInv, CrashKeepsIInv DEF Next
<1>2. CASE UNCHANGED vars
  BY <1>2 DEF vars, IInv, TypeOK, FileInv, ReplayInv, QueuedNotLost, CountInv, Due,
              DuplicatesAccounted
<1> QED
  BY <1>1, <1>2

\* The invariant that carries every theorem below.
THEOREM OutboxInvariant == Spec => []IInv
BY OutboxInit, OutboxNext, PTL DEF Spec

\* Every variable keeps its type: in particular a crash leaves no replay half recorded.
THEOREM OutboxTypeCorrect == Spec => []TypeOK
BY OutboxInvariant, PTL DEF IInv

\* An event whose append succeeded is on disk until the server has accepted it
\* (enqueuePendingTerminalEvent against drainPendingTerminalEvents).
THEOREM NoQueuedEventLost == Spec => []QueuedNotLost
BY OutboxInvariant, PTL DEF IInv

\* Each delivery of an event beyond the first is paid for by a fault.
THEOREM DuplicatesPaidFor == Spec => []DuplicatesAccounted
BY OutboxInvariant, PTL DEF IInv

-----------------------------------------------------------------------------
(* The outbox implements TerminalDelivery.                                 *)

status == [e \in Events |-> DeliveryStatus(e)]

\* A step that leaves every event's status alone is a stutter of TerminalDelivery.
LEMMA StatusKept ==
  ASSUME \A f \in Events : DeliveryStatus(f)' = DeliveryStatus(f)
  PROVE  status' = status
BY DEF status

\* A send the server accepts delivers an event that was new or owed, or is a duplicate.
LEMMA AcceptDelivers ==
  ASSUME IInv, NEW e \in Events, received' = [received EXCEPT ![e] = @ + 1], UNCHANGED file,
         emitter[e] = "sending" \/ e \in file,
         \A f \in Events \ {e} : emitter'[f] = emitter[f]
  PROVE  Delivery!Deliver(e) \/ status' = status
<1>1. \A f \in Events \ {e} : DeliveryStatus(f)' = DeliveryStatus(f)
  BY DEF DeliveryStatus, IInv, TypeOK
<1>2. DeliveryStatus(e)' = "delivered"
  BY DEF DeliveryStatus, IInv, TypeOK
<1>3. DeliveryStatus(e) \in {"new", "owed", "delivered"}
  BY DEF DeliveryStatus, IInv, TypeOK
<1>4. CASE DeliveryStatus(e) = "delivered"
  BY <1>1, <1>2, <1>4, StatusKept
<1>5. CASE DeliveryStatus(e) \in {"new", "owed"}
  BY <1>1, <1>2, <1>5 DEF Delivery!Deliver, status
<1> QED
  BY <1>3, <1>4, <1>5

\* A step that keeps the file and the deliveries can only turn new events into lost ones.
LEMMA QuietLoses ==
  ASSUME IInv, UNCHANGED <<file, received>>,
         \A f \in Events : emitter[f] \in {"queued", "unqueued", "dead"} => emitter'[f] = emitter[f]
  PROVE  Delivery!Lose
<1> DEFINE S == {f \in Events : DeliveryStatus(f) = "new" /\ DeliveryStatus(f)' = "lost"}
<1>1. \A f \in Events : DeliveryStatus(f)' = IF f \in S THEN "lost" ELSE DeliveryStatus(f)
  BY DEF DeliveryStatus, IInv, TypeOK
<1>2. S \in SUBSET {f \in Events : status[f] = "new"}
  BY DEF status
<1>3. status' = [f \in Events |-> IF f \in S THEN "lost" ELSE status[f]]
  BY <1>1 DEF status
<1> QED
  BY <1>2, <1>3 DEF Delivery!Lose, status

\* Every step of the outbox is a step of TerminalDelivery or a stutter.
LEMMA DeliveryStep ==
  ASSUME IInv, [Next]_vars
  PROVE  [Delivery!Next]_status
<1> USE DEF outbox, replay, Move, Accept, Fault, InFlight, EmitterStates
<1>1. ASSUME NEW e \in Events, Emit(e) \/ PostFails(e) \/ LastPostFails(e) \/ EnqueueFails(e) \/ EnqueueTorn(e)
      PROVE  Delivery!Next
  BY <1>1, QuietLoses DEF IInv, TypeOK, Emit, PostFails, LastPostFails, EnqueueFails, EnqueueTorn, Delivery!Next
<1>2. ASSUME NEW e \in Events, PostAccepted(e) \/ PostUnanswered(e)
      PROVE  Delivery!Next \/ status' = status
  BY <1>2, AcceptDelivers DEF IInv, TypeOK, PostAccepted, PostUnanswered, Delivery!Next
<1>3. ASSUME NEW e \in Events, Enqueue(e)
      PROVE  Delivery!Next \/ status' = status
  <2>1. \A f \in Events \ {e} : DeliveryStatus(f)' = DeliveryStatus(f)
    BY <1>3 DEF DeliveryStatus, IInv, TypeOK, Enqueue
  <2>2. \/ DeliveryStatus(e) = "new" /\ DeliveryStatus(e)' = "owed"
        \/ DeliveryStatus(e) = "delivered" /\ DeliveryStatus(e)' = "delivered"
    BY <1>3 DEF DeliveryStatus, IInv, TypeOK, FileInv, Enqueue
  <2>3. CASE DeliveryStatus(e)' = DeliveryStatus(e)
    BY <2>1, <2>3, StatusKept
  <2>4. CASE DeliveryStatus(e) = "new" /\ DeliveryStatus(e)' = "owed"
    BY <2>1, <2>4 DEF Delivery!Next, Delivery!Owe, status
  <2> QED
    BY <2>2, <2>3, <2>4
<1>4. ASSUME NEW e \in Events, DrainAccepted(e) \/ DrainUnanswered(e)
      PROVE  Delivery!Next \/ status' = status
  BY <1>4, AcceptDelivers
     DEF IInv, TypeOK, ReplayInv, DrainAccepted, DrainUnanswered, Delivery!Next
<1>5. ASSUME NEW e \in Events, DrainRefused(e)
      PROVE  Delivery!Next
  BY <1>5, QuietLoses DEF IInv, TypeOK, DrainRefused, Delivery!Next
<1>6. CASE DrainRead \/ DrainRewriteFails \/ Crash
  BY <1>6, QuietLoses DEF IInv, TypeOK, DrainRead, DrainRewriteFails, Crash, Delivery!Next
<1>7. CASE DrainRewrite
  BY <1>7, StatusKept DEF DeliveryStatus, IInv, TypeOK, ReplayInv, DrainRewrite
<1>8. CASE UNCHANGED vars
  BY <1>8, StatusKept DEF DeliveryStatus, vars
<1> QED
  BY <1>1, <1>2, <1>3, <1>4, <1>5, <1>6, <1>7, <1>8
     DEF Next, PostEvent, EnqueuePending, DrainRecord, DrainStep

\* Queued events are owed until delivered and lost ones were never queued: the outbox
\* implements the delivery promise, crashes and failed replays included.
THEOREM OutboxImplementsDelivery == Spec => DeliverySpec
<1>1. Init => Delivery!Init
  BY DEF Init, Delivery!Init, DeliveryStatus
<1>2. Spec => Delivery!Init /\ [][Delivery!Next]_status
  BY <1>1, OutboxInvariant, DeliveryStep, PTL DEF Spec
<1> QED
  BY <1>2, PTL DEF DeliverySpec, Delivery!Spec, status
===============================================================================
