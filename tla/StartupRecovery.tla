---------------------------- MODULE StartupRecovery ----------------------------
(***************************************************************************)
(* What a daemon does about the tasks its previous incarnation left active *)
(* on the server: after its first successful registration it asks the      *)
(* server, once per process, to recover the machine's active tasks         *)
(* (Service.Run, recoverStartupTasks).                                     *)
(*                                                                         *)
(* Three callers may register: Run itself, before the task loop starts;    *)
(* a goroutine that retries when that failed; and the heartbeat goroutine  *)
(* when a heartbeat fails.  Each calls recoverStartupTasks, which an       *)
(* atomic flag lets through once.  The server answers for all tasks it has *)
(* active for the machine; a request whose caller gave up on it (timeout)  *)
(* or died may still be handled later, or never.                           *)
(***************************************************************************)
EXTENDS Naturals

CONSTANTS Tasks,
          MaxCrashes   \* bound: times the daemon process dies and is started again

ASSUME RecoveryAssumption == MaxCrashes \in Nat

Epochs == 0 .. MaxCrashes
Callers == {"run", "retry", "heartbeat"}
CallerStates == {"off", "idle", "registering", "recovering", "calling"}

VARIABLES
  epoch,      \* the current incarnation of the daemon
  caller,     \* where each of the callers is
  recovered,  \* startupRecovered
  serving,    \* the task loop is running
  running,    \* tasks this incarnation is running
  task,       \* each task's status on the server
  request,    \* each incarnation's recovery request
  sender,     \* the caller that sent it
  sent        \* how many each incarnation sent

recoveryVars == <<epoch, caller, recovered, serving, running, task, request, sender, sent>>

RecoveryTypeOK ==
  /\ epoch \in Epochs
  /\ caller \in [Callers -> CallerStates]
  /\ recovered \in BOOLEAN
  /\ serving \in BOOLEAN
  /\ running \in SUBSET Tasks
  /\ task \in [Tasks -> {"queued", "active", "over", "recovered"}]
  /\ request \in [Epochs -> {"none", "sent", "abandoned", "handled"}]
  /\ sender \in [Epochs -> Callers \cup {"nobody"}]
  /\ sent \in [Epochs -> Nat]

StartCallers == [c \in Callers |-> IF c = "run" THEN "registering" ELSE "off"]

RecoveryInit ==
  /\ epoch = 0
  /\ caller = StartCallers
  /\ recovered = FALSE /\ serving = FALSE /\ running = {}
  /\ task = [t \in Tasks |-> "queued"]
  /\ request = [n \in Epochs |-> "none"]
  /\ sender = [n \in Epochs |-> "nobody"]
  /\ sent = [n \in Epochs |-> 0]

-----------------------------------------------------------------------------
tasks == <<running, task>>
requests == <<request, sender, sent>>

\* Where a caller goes when its registration is dealt with.  Run starts the other two and
\* the task loop; "registering" is what the retry goroutine does when Run's own failed.
Proceed(c, retry) ==
  IF c = "run"
  THEN /\ caller' = [caller EXCEPT !["run"] = "off", !["retry"] = retry, !["heartbeat"] = "idle"]
       /\ serving' = TRUE
  ELSE /\ caller' = [caller EXCEPT ![c] = IF c = "heartbeat" THEN "idle" ELSE "off"]
       /\ UNCHANGED serving

\* A heartbeat fails, and the heartbeat goroutine registers again.
HeartbeatFails ==
  /\ caller["heartbeat"] = "idle"
  /\ caller' = [caller EXCEPT !["heartbeat"] = "registering"]
  /\ UNCHANGED <<epoch, recovered, serving, tasks, requests>>

Register(c) ==
  /\ caller[c] = "registering"
  /\ caller' = [caller EXCEPT ![c] = "recovering"]
  /\ UNCHANGED <<epoch, recovered, serving, tasks, requests>>

\* Mutant: the retry goroutine is started only when Run's registration succeeded.
RegisterFailsForGood(c) ==
  /\ caller[c] = "registering"
  /\ c # "retry"
  /\ Proceed(c, "off")
  /\ UNCHANGED <<epoch, recovered, tasks, requests>>

\* Run goes on without a registration; the retry goroutine tries again; a heartbeat gives up.
RegisterFails(c) ==
  /\ caller[c] = "registering"
  /\ c # "retry"
  /\ Proceed(c, "registering")
  /\ UNCHANGED <<epoch, recovered, tasks, requests>>

Send(c) ==
  /\ request' = [request EXCEPT ![epoch] = "sent"]
  /\ sender' = [sender EXCEPT ![epoch] = c]
  /\ sent' = [sent EXCEPT ![epoch] = @ + 1]

\* recoverStartupTasks wins the flag (CompareAndSwap) and calls the server.
SendRecovery(c) ==
  /\ caller[c] = "recovering" /\ ~recovered
  /\ recovered' = TRUE
  /\ Send(c)
  /\ caller' = [caller EXCEPT ![c] = "calling"]
  /\ UNCHANGED <<epoch, serving, tasks>>

\* The flag is taken: somebody else recovers, or has tried to.
SkipRecovery(c) ==
  /\ caller[c] = "recovering" /\ recovered
  /\ Proceed(c, "off")
  /\ UNCHANGED <<epoch, recovered, tasks, requests>>

RecoveryAnswered(c) ==
  /\ caller[c] = "calling" /\ request[epoch] = "handled"
  /\ Proceed(c, "off")
  /\ UNCHANGED <<epoch, recovered, tasks, requests>>

\* The call returns an error, which is logged; the server may get the request all the same.
RecoveryFails(c) ==
  /\ caller[c] = "calling"
  /\ Proceed(c, "off")
  /\ request' = [request EXCEPT ![epoch] = IF @ = "sent" THEN "abandoned" ELSE @]
  /\ UNCHANGED <<epoch, recovered, tasks, sender, sent>>

\* The server handles a request: it ends every task it has active for this machine.
ServerRecovers(n) ==
  /\ request[n] \in {"sent", "abandoned"}
  /\ request' = [request EXCEPT ![n] = "handled"]
  /\ task' = [t \in Tasks |-> IF task[t] = "active" THEN "recovered" ELSE task[t]]
  /\ UNCHANGED <<epoch, caller, recovered, serving, running, sender, sent>>

-----------------------------------------------------------------------------
\* Mutant: the task loop starts before the registration is dealt with.
ClaimEarly(t) ==
  /\ task[t] = "queued"
  /\ task' = [task EXCEPT ![t] = "active"]
  /\ running' = running \cup {t}
  /\ UNCHANGED <<epoch, caller, recovered, serving, requests>>

\* The task loop claims a task (TurnDispatch), and its turn ends.
Claim(t) ==
  /\ serving
  /\ task[t] = "queued"
  /\ task' = [task EXCEPT ![t] = "active"]
  /\ running' = running \cup {t}
  /\ UNCHANGED <<epoch, caller, recovered, serving, requests>>

EndTurn(t) ==
  /\ t \in running
  /\ running' = running \ {t}
  /\ task' = [task EXCEPT ![t] = IF @ = "active" THEN "over" ELSE @]
  /\ UNCHANGED <<epoch, caller, recovered, serving, requests>>

\* The daemon dies and is started again: what it ran stays active on the server.
Restart ==
  /\ epoch < MaxCrashes
  /\ epoch' = epoch + 1
  /\ caller' = StartCallers
  /\ recovered' = FALSE /\ serving' = FALSE /\ running' = {}
  /\ request' = [request EXCEPT ![epoch] = IF @ = "sent" THEN "abandoned" ELSE @]
  /\ UNCHANGED <<task, sender, sent>>

RecoverStartupTasks(c) ==
  SendRecovery(c) \/ SkipRecovery(c) \/ RecoveryAnswered(c) \/ RecoveryFails(c)

RecoveryNext ==
  \/ HeartbeatFails
  \/ \E c \in Callers : Register(c) \/ RegisterFails(c) \/ RecoverStartupTasks(c)
  \/ \E n \in Epochs : ServerRecovers(n)
  \/ \E t \in Tasks : Claim(t) \/ EndTurn(t)
  \/ Restart

RecoverySpec == RecoveryInit /\ [][RecoveryNext]_recoveryVars

\* Calls return; the retry goroutine registers at the first tick at which the server can be
\* reached, and it can be reached again and again.
RecoveryFairness ==
  /\ \A c \in Callers :
       /\ WF_recoveryVars(Register(c) \/ RegisterFails(c))
       /\ WF_recoveryVars(RecoverStartupTasks(c))
  /\ WF_recoveryVars(Register("retry"))

RecoveryFairSpec == RecoverySpec /\ RecoveryFairness

-----------------------------------------------------------------------------
(* The inductive invariant.                                                *)

FlagInv ==
  /\ ~recovered => sent[epoch] = 0
  /\ \A n \in Epochs : n > epoch => sent[n] = 0
  /\ \A n \in Epochs : sent[n] = 0 => request[n] = "none"

\* Run has nothing running while it registers.
StartInv ==
  /\ caller["run"] # "off" <=> ~serving
  /\ ~serving => running = {} /\ caller["retry"] = "off" /\ caller["heartbeat"] = "off"

\* A request is open only while the caller that sent it waits for the answer.
OpenInv ==
  \A n \in Epochs : request[n] = "sent" => n = epoch /\ sender[n] \in Callers /\ caller[sender[n]] = "calling"

-----------------------------------------------------------------------------
(* Properties.                                                             *)

\* An incarnation asks the server at most once, though three goroutines may register at the
\* same time and registration may succeed many times.
AtMostOneRecovery == \A n \in Epochs : sent[n] <= 1

RecoveryIInv == RecoveryTypeOK /\ FlagInv /\ StartInv /\ OpenInv /\ AtMostOneRecovery

\* When Run's own registration succeeded and its call was answered in time, the recovery
\* ends no task that this incarnation is running: a live task can only be hit by a request
\* its caller gave up on, or by one sent after the task loop had started.
FirstTrySparesLiveTasks ==
  [][\A n \in Epochs :
       ServerRecovers(n) /\ request[n] = "sent" /\ sender[n] = "run" => running = {}]_recoveryVars

\* A task left behind by an earlier incarnation does not stay active for ever, unless the one
\* recovery call failed: that is not retried before the next restart.
StaleTasksAreRecovered ==
  \A t \in Tasks :
    task[t] = "active" /\ t \notin running ~> task[t] # "active" \/ request[epoch] = "abandoned"

\* What the log line of recoverStartupTasks says of the tasks it recovered: they were "stale
\* active tasks", not tasks this incarnation is running.
\* Not true of the code: see the known deviations in README.md.
OnlyStaleRecovered ==
  [][\A t \in Tasks : task[t] = "active" /\ task'[t] = "recovered" => t \notin running]_recoveryVars
===============================================================================
