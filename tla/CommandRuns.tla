------------------------------ MODULE CommandRuns ------------------------------
(***************************************************************************)
(* The run_command tool that the daemon offers its CLIs over MCP.          *)
(*                                                                         *)
(* Every call is a goroutine (executeRunCommandTool): it asks the user for *)
(* approval unless the policy allows the command, starts the process,      *)
(* waits for it or detaches it to the background, and reports              *)
(* command.finished.  Around it are the goroutine that reaps the process,  *)
(* the watcher of a detached command, the machine-task loop through which  *)
(* the user stops a command, and the end of the turn, which calls may      *)
(* outlive.  They share runningCommands, backgroundCommands,               *)
(* deniedApprovals and each execution's termOnce and resultCh.             *)
(*                                                                         *)
(* Left out: the texts of commands and results, and time; a timer may fire *)
(* whenever it runs.                                                       *)
(***************************************************************************)
EXTENDS Naturals, FiniteSets

CONSTANTS Calls, Tasks, Sessions, Commands, NoCall,
          TaskOf,         \* the turn each call is made in
          SessionOf,      \* the session of each turn
          CommandOf,      \* the fingerprint of each call's command
          ModeOf,         \* effectiveMode: how each call waits for its command
          AutoApproved,   \* commands the policy lets run without a question
          Deadlined,      \* calls made over SSE: their context has a deadline of ten minutes
          MaxBackground   \* maxBackgroundCommandsPerSession

Modes == {"wait", "auto", "background"}

ASSUME CommandAssumption ==
  /\ IsFiniteSet(Calls) /\ NoCall \notin Calls
  /\ TaskOf \in [Calls -> Tasks]
  /\ SessionOf \in [Tasks -> Sessions]
  /\ CommandOf \in [Calls -> Commands]
  /\ ModeOf \in [Calls -> Modes]
  /\ AutoApproved \subseteq Commands
  /\ Deadlined \subseteq Calls
  /\ MaxBackground \in Nat

VARIABLES
  pc,          \* where each call's goroutine is
  ctx,         \* each call's context: it is live, past its deadline or cancelled
  answer,      \* the approval of each call; "timeout": the wait ended with an approval of its own
  verdict,     \* what the call will report as the command's end
  proc,        \* the process: "reaped" when it has exited and resultCh holds its result
  term,        \* termOnce: "grace" between SIGTERM and SIGKILL
  taken,       \* calls whose result was received from resultCh
  watcher,     \* the watcher of each detached command
  running,     \* keys of s.runningCommands
  background,  \* keys of s.backgroundCommands
  denied,      \* s.deniedApprovals: the turn and the command
  ended,       \* turns whose dispatch has returned
  fs,          \* the call the machine-task loop is terminating
  finished     \* number of command.finished events of each call

call == <<pc, ctx, answer, verdict>>
process == <<proc, term, taken>>
tables == <<running, background, denied, ended>>
vars == <<call, process, watcher, tables, fs, finished>>

Verdicts == {"none", "declined", "failed", "ended", "timeout", "limit", "cancelled"}
\* "rejected": the arguments are invalid, and no command is reported for the call.
PCs == {"idle", "rejected", "polling", "starting", "started", "reserving", "waiting", "killing",
        "collecting", "releasing", "reporting", "announcing", "over"}
Returned == {"rejected", "over"}

TypeOK ==
  /\ pc \in [Calls -> PCs]
  /\ ctx \in [Calls -> {"live", "deadline", "cancelled"}]
  /\ answer \in [Calls -> {"none", "approve", "deny", "timeout"}]
  /\ verdict \in [Calls -> Verdicts]
  /\ proc \in [Calls -> {"none", "running", "reaped"}]
  /\ term \in [Calls -> {"none", "grace", "done"}]
  /\ taken \in SUBSET Calls
  /\ watcher \in [Calls -> {"none", "waiting", "posting", "releasing", "freeing", "over"}]
  /\ running \in SUBSET Calls
  /\ background \in SUBSET Calls
  /\ denied \in SUBSET (Tasks \X Commands)
  /\ ended \in SUBSET Tasks
  /\ fs \in Calls \cup {NoCall}
  /\ finished \in [Calls -> Nat]

Init ==
  /\ pc = [c \in Calls |-> "idle"]
  /\ ctx = [c \in Calls |-> "live"]
  /\ answer = [c \in Calls |-> "none"] /\ verdict = [c \in Calls |-> "none"]
  /\ proc = [c \in Calls |-> "none"] /\ term = [c \in Calls |-> "none"] /\ taken = {}
  /\ watcher = [c \in Calls |-> "none"]
  /\ running = {} /\ background = {} /\ denied = {} /\ ended = {}
  /\ fs = NoCall
  /\ finished = [c \in Calls |-> 0]

-----------------------------------------------------------------------------
Go(c, from, to) == pc[c] = from /\ pc' = [pc EXCEPT ![c] = to]
Decide(c, v) == verdict' = [verdict EXCEPT ![c] = v]
Result(c) == proc[c] = "reaped" /\ c \notin taken

Key(c) == <<TaskOf[c], CommandOf[c]>>
InBackground(s) == {c \in background : SessionOf[TaskOf[c]] = s}
InSession(c) == InBackground(SessionOf[TaskOf[c]])

(* The call asks for approval.                                             *)

\* Invalid arguments, or a shell wrapper the preflight rejects.
RejectCall(c) ==
  /\ TaskOf[c] \notin ended
  /\ Go(c, "idle", "rejected")
  /\ UNCHANGED <<ctx, answer, verdict, process, watcher, tables, fs, finished>>

\* A read-only turn, a command the user has denied in this turn, or a permission request that
\* could not be posted.
DeclineCall(c) ==
  /\ TaskOf[c] \notin ended
  /\ Go(c, "idle", "reporting")
  /\ Decide(c, "declined")
  /\ UNCHANGED <<ctx, answer, process, watcher, tables, fs, finished>>

AllowCall(c) ==
  /\ TaskOf[c] \notin ended
  /\ CommandOf[c] \in AutoApproved
  /\ Go(c, "idle", "starting")
  /\ UNCHANGED <<ctx, answer, verdict, process, watcher, tables, fs, finished>>

AskUser(c) ==
  /\ TaskOf[c] \notin ended
  /\ CommandOf[c] \notin AutoApproved /\ Key(c) \notin denied
  /\ Go(c, "idle", "polling")
  /\ UNCHANGED <<ctx, answer, verdict, process, watcher, tables, fs, finished>>

\* The user answers at the server; the daemon has not seen it yet.
UserAnswers(c) ==
  /\ pc[c] = "polling" /\ answer[c] = "none"
  /\ \E a \in {"approve", "deny"} : answer' = [answer EXCEPT ![c] = a]
  /\ UNCHANGED <<pc, ctx, verdict, process, watcher, tables, fs, finished>>

PollApproved(c) ==
  /\ answer[c] = "approve"
  /\ Go(c, "polling", "starting")
  /\ UNCHANGED <<ctx, answer, verdict, process, watcher, tables, fs, finished>>

\* The denial is remembered for the turn, which may have ended by now.
PollDenied(c) ==
  /\ answer[c] = "deny"
  /\ Go(c, "polling", "reporting")
  /\ Decide(c, "declined")
  /\ denied' = denied \cup {Key(c)}
  /\ UNCHANGED <<ctx, answer, process, watcher, running, background, ended, fs, finished>>

\* The deadline passes between two polls: the command is approved, though the user may have
\* denied it since the last poll.
PollTimeout(c) ==
  /\ ctx[c] = "deadline"
  /\ Go(c, "polling", "starting")
  /\ answer' = [answer EXCEPT ![c] = "timeout"]
  /\ UNCHANGED <<ctx, verdict, process, watcher, tables, fs, finished>>

\* Mutant: a request that fails counts as an approval.
PollFailsOpen(c) ==
  /\ Go(c, "polling", "starting")
  /\ UNCHANGED <<ctx, answer, verdict, process, watcher, tables, fs, finished>>

\* The request fails, the deadline passes during it, or the client has gone.
PollFails(c) ==
  /\ Go(c, "polling", "reporting")
  /\ Decide(c, "declined")
  /\ UNCHANGED <<ctx, answer, process, watcher, tables, fs, finished>>

-----------------------------------------------------------------------------
(* The call starts the process and waits for it.                           *)

StartFails(c) ==
  /\ Go(c, "starting", "reporting")
  /\ Decide(c, "failed")
  /\ UNCHANGED <<ctx, answer, process, watcher, tables, fs, finished>>

StartProcess(c) ==
  /\ Go(c, "starting", "started")
  /\ proc' = [proc EXCEPT ![c] = "running"]
  /\ UNCHANGED <<ctx, answer, verdict, term, taken, watcher, tables, fs, finished>>

\* registerRunningCommand: the user can stop the command from here.
Register(c) ==
  /\ Go(c, "started", IF ModeOf[c] = "background" THEN "reserving" ELSE "waiting")
  /\ running' = running \cup {c}
  /\ UNCHANGED <<ctx, answer, verdict, process, watcher, background, denied, ended, fs, finished>>

TakeResult(c) ==
  /\ Result(c)
  /\ Go(c, "waiting", "releasing")
  /\ Decide(c, "ended")
  /\ taken' = taken \cup {c}
  /\ UNCHANGED <<ctx, answer, proc, term, watcher, tables, fs, finished>>

\* The wait timer fires: the command is killed, or goes to the background in mode auto if it
\* looks like a server.
WaitTimesOut(c) ==
  /\ \/ Go(c, "waiting", "killing") /\ Decide(c, "timeout")
     \/ ModeOf[c] = "auto" /\ Go(c, "waiting", "reserving") /\ UNCHANGED verdict
  /\ UNCHANGED <<ctx, answer, process, watcher, tables, fs, finished>>

ContextDone(c) ==
  /\ ctx[c] # "live"
  /\ Go(c, "waiting", "killing")
  /\ Decide(c, "cancelled")
  /\ UNCHANGED <<ctx, answer, process, watcher, tables, fs, finished>>

\* Mutant: a command that is detached leaves the table of running commands.
DetachAndRelease(c) ==
  /\ Cardinality(InSession(c)) < MaxBackground
  /\ Go(c, "reserving", "announcing")
  /\ background' = background \cup {c}
  /\ running' = running \ {c}
  /\ watcher' = [watcher EXCEPT ![c] = "waiting"]
  /\ UNCHANGED <<ctx, answer, verdict, process, denied, ended, fs, finished>>

\* reserveBackgroundCommand finds room: a watcher takes over.
Detach(c) ==
  /\ Cardinality(InSession(c)) < MaxBackground
  /\ Go(c, "reserving", "announcing")
  /\ background' = background \cup {c}
  /\ watcher' = [watcher EXCEPT ![c] = "waiting"]
  /\ UNCHANGED <<ctx, answer, verdict, process, running, denied, ended, fs, finished>>

NoRoom(c) ==
  /\ Cardinality(InSession(c)) >= MaxBackground
  /\ Go(c, "reserving", "killing")
  /\ Decide(c, "limit")
  /\ UNCHANGED <<ctx, answer, process, watcher, tables, fs, finished>>

\* command.detached, which command.finished of a short command may overtake.
Announce(c) ==
  /\ Go(c, "announcing", "over")
  /\ UNCHANGED <<ctx, answer, verdict, process, watcher, tables, fs, finished>>

\* The first caller of terminate comes to termOnce and sends SIGTERM; any other waits for it.
Signal(c) == term' = [term EXCEPT ![c] = IF @ = "none" THEN "grace" ELSE @]

\* Mutant: a call whose command must end only waits for the result.
KillSilently(c) ==
  /\ Go(c, "killing", "collecting")
  /\ UNCHANGED <<ctx, answer, verdict, process, watcher, tables, fs, finished>>

Kill(c) ==
  /\ Go(c, "killing", "collecting")
  /\ Signal(c)
  /\ UNCHANGED <<ctx, answer, verdict, proc, taken, watcher, tables, fs, finished>>

Collect(c) ==
  /\ term[c] = "done" /\ Result(c)
  /\ Go(c, "collecting", "releasing")
  /\ taken' = taken \cup {c}
  /\ UNCHANGED <<ctx, answer, verdict, proc, term, watcher, tables, fs, finished>>

Release(c) ==
  /\ Go(c, "releasing", "reporting")
  /\ running' = running \ {c}
  /\ UNCHANGED <<ctx, answer, verdict, process, watcher, background, denied, ended, fs, finished>>

\* command.finished, and the call returns.
Report(c) ==
  /\ Go(c, "reporting", "over")
  /\ finished' = [finished EXCEPT ![c] = @ + 1]
  /\ UNCHANGED <<ctx, answer, verdict, process, watcher, tables, fs>>

-----------------------------------------------------------------------------
(* The process, its reaper and the watcher of a detached command.          *)

\* The process exits, cmd.Wait returns and the result is put into resultCh.
ProcessExits(c) ==
  /\ proc[c] = "running"
  /\ proc' = [proc EXCEPT ![c] = "reaped"]
  /\ UNCHANGED <<call, term, taken, watcher, tables, fs, finished>>

\* Two seconds after SIGTERM: SIGKILL, to a process that may have been reaped long ago.
Grace(c) ==
  /\ term[c] = "grace"
  /\ term' = [term EXCEPT ![c] = "done"]
  /\ UNCHANGED <<call, proc, taken, watcher, tables, fs, finished>>

\* Mutant: the watcher does not wait for the result.
WatcherTakesEarly(c) ==
  /\ watcher[c] = "waiting"
  /\ watcher' = [watcher EXCEPT ![c] = "posting"]
  /\ taken' = taken \cup {c}
  /\ UNCHANGED <<call, proc, term, tables, fs, finished>>

WatcherTakes(c) ==
  /\ watcher[c] = "waiting" /\ Result(c)
  /\ watcher' = [watcher EXCEPT ![c] = "posting"]
  /\ taken' = taken \cup {c}
  /\ UNCHANGED <<call, proc, term, tables, fs, finished>>

WatcherReports(c) ==
  /\ watcher[c] = "posting"
  /\ watcher' = [watcher EXCEPT ![c] = "releasing"]
  /\ finished' = [finished EXCEPT ![c] = @ + 1]
  /\ UNCHANGED <<call, process, tables, fs>>

\* The deferred calls run in reverse order: runningCommands first ...
WatcherReleases(c) ==
  /\ watcher[c] = "releasing"
  /\ watcher' = [watcher EXCEPT ![c] = "freeing"]
  /\ running' = running \ {c}
  /\ UNCHANGED <<call, process, background, denied, ended, fs, finished>>

\* Mutant: the background slot is not given back.
WatcherKeepsSlot(c) ==
  /\ watcher[c] = "freeing"
  /\ watcher' = [watcher EXCEPT ![c] = "over"]
  /\ UNCHANGED <<call, process, tables, fs, finished>>

\* ... then backgroundCommands.
WatcherFrees(c) ==
  /\ watcher[c] = "freeing"
  /\ watcher' = [watcher EXCEPT ![c] = "over"]
  /\ background' = background \ {c}
  /\ UNCHANGED <<call, process, running, denied, ended, fs, finished>>

-----------------------------------------------------------------------------
(* The user stops a command, contexts end, turns end.                      *)

\* terminate_command: the loop finds the command and sends SIGTERM, unless it was sent before.
FSTerminate(c) ==
  /\ fs = NoCall /\ c \in running
  /\ fs' = c
  /\ UNCHANGED <<call, process, watcher, tables, finished>>

FSSignal ==
  /\ fs # NoCall /\ term[fs] = "none"
  /\ Signal(fs)
  /\ UNCHANGED <<call, proc, taken, watcher, tables, fs, finished>>

FSDone ==
  /\ fs # NoCall /\ term[fs] = "done"
  /\ fs' = NoCall
  /\ UNCHANGED <<call, process, watcher, tables, finished>>

\* The deadline of an SSE call passes, or the client of the other transport disconnects.
ContextEnds(c) ==
  /\ pc[c] \in {"polling", "starting", "started", "reserving", "waiting"}
  /\ ctx[c] = "live"
  /\ ctx' = [ctx EXCEPT ![c] = IF c \in Deadlined THEN "deadline" ELSE "cancelled"]
  /\ UNCHANGED <<pc, answer, verdict, process, watcher, tables, fs, finished>>

\* The dispatch returns and forgets the turn's denials; calls in flight go on.
EndTask(t) ==
  /\ t \notin ended
  /\ ended' = ended \cup {t}
  /\ denied' = {d \in denied : d[1] # t}
  /\ UNCHANGED <<call, process, watcher, running, background, fs, finished>>

-----------------------------------------------------------------------------
Approve(c) ==
  \/ RejectCall(c) \/ DeclineCall(c) \/ AllowCall(c) \/ AskUser(c)
  \/ PollApproved(c) \/ PollDenied(c) \/ PollTimeout(c) \/ PollFails(c)

Execute(c) ==
  \/ StartFails(c) \/ StartProcess(c) \/ Register(c)
  \/ TakeResult(c) \/ WaitTimesOut(c) \/ ContextDone(c)
  \/ Detach(c) \/ NoRoom(c) \/ Announce(c)
  \/ Kill(c) \/ Collect(c) \/ Release(c) \/ Report(c)

Process(c) == ProcessExits(c) \/ Grace(c)

Watch(c) == WatcherTakes(c) \/ WatcherReports(c) \/ WatcherReleases(c) \/ WatcherFrees(c)

Next ==
  \/ \E c \in Calls :
       Approve(c) \/ UserAnswers(c) \/ ContextEnds(c) \/ Execute(c) \/ Process(c) \/ Watch(c) \/ FSTerminate(c)
  \/ FSSignal \/ FSDone
  \/ \E t \in Tasks : EndTask(t)

Spec == Init /\ [][Next]_vars

\* Goroutines go on, timers and deadlines fire, and a process that was killed exits.  Users
\* need not answer, clients need not disconnect and processes need not end.
Fairness ==
  /\ \A c \in Calls :
       /\ WF_vars(Execute(c))
       /\ WF_vars(PollApproved(c) \/ PollDenied(c))
       /\ WF_vars(ctx[c] # "live" /\ (PollTimeout(c) \/ PollFails(c)))
       /\ WF_vars(c \in Deadlined /\ ContextEnds(c))
       /\ WF_vars(Grace(c))
       /\ WF_vars(term[c] = "done" /\ ProcessExits(c))
       /\ WF_vars(Watch(c))
  /\ WF_vars(FSSignal) /\ WF_vars(FSDone)

FairSpec == Spec /\ Fairness

-----------------------------------------------------------------------------
(* Properties.                                                             *)

\* A session never has more than MaxBackground processes that no call waits for any more,
\* though every process is started before its slot is reserved.
DetachedLimit ==
  \A s \in Sessions :
    Cardinality({c \in Calls : /\ SessionOf[TaskOf[c]] = s
                               /\ pc[c] \in {"announcing", "over"} /\ proc[c] = "running"})
      <= MaxBackground

\* The user can stop every command that runs, from the moment it is registered until it is
\* reaped, whoever waits for it.
LiveCommandIsReachable ==
  \A c \in Calls : proc[c] = "running" => pc[c] = "started" \/ c \in running

\* Exactly one command.finished per command: not before its process is reaped, not twice by the
\* call and the watcher, and none missing when neither of them is left.
OneFinishPerCommand ==
  \A c \in Calls :
    /\ finished[c] <= 1
    /\ finished[c] = 1 => proc[c] \in {"none", "reaped"}
    /\ pc[c] = "over" /\ watcher[c] \in {"none", "over"} => finished[c] = 1

\* A command the policy does not allow runs only with an answer to this very call: the user's
\* approval or the end of the deadline, never a failed or a cancelled wait.
RiskyRunsAreAnswered ==
  \A c \in Calls :
    proc[c] # "none" /\ CommandOf[c] \notin AutoApproved => answer[c] \in {"approve", "timeout"}

\* A call over SSE returns, though the user never answers, the command never ends by itself
\* and the background is full.
EveryCallReturns == \A c \in Deadlined : pc[c] # "idle" ~> pc[c] \in Returned

\* A command the user stops ends and gives its place in both tables back.
StopIsEffective == \A c \in Calls : fs = c ~> c \notin running \cup background

\* The inductive invariant: what each call's goroutine, process, watcher, table entries and
\* reports have to do with each other ...
CallInv(c) ==
  /\ pc[c] \in {"idle", "rejected", "polling", "starting"} => proc[c] = "none"
  /\ pc[c] \in {"started", "reserving", "waiting", "killing", "collecting", "announcing"} => proc[c] # "none"
  /\ pc[c] \in {"releasing", "reporting"} => proc[c] # "running"
  /\ watcher[c] \in {"posting", "releasing", "freeing", "over"} => proc[c] = "reaped"
  /\ pc[c] = "over" /\ watcher[c] = "none" => proc[c] # "running"
  /\ watcher[c] # "none" => pc[c] \in {"announcing", "over"}
  /\ pc[c] = "announcing" => watcher[c] # "none"
  /\ c \in running <=> \/ pc[c] \in {"reserving", "waiting", "killing", "collecting", "releasing"}
                       \/ watcher[c] \in {"waiting", "posting", "releasing"}
  /\ c \in background <=> watcher[c] \in {"waiting", "posting", "releasing", "freeing"}
  /\ finished[c] = IF \/ pc[c] = "over" /\ watcher[c] = "none"
                      \/ watcher[c] \in {"releasing", "freeing", "over"} THEN 1 ELSE 0
  /\ pc[c] = "starting" \/ proc[c] # "none" =>
       CommandOf[c] \in AutoApproved \/ answer[c] \in {"approve", "timeout"}

\* ... and that a session's entries in backgroundCommands stay within the limit.
SlotInv == \A s \in Sessions : Cardinality(InBackground(s)) <= MaxBackground

IInv == TypeOK /\ SlotInv /\ \A c \in Calls : CallInv(c)
===============================================================================
