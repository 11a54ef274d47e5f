# codewithphone: a formal model of the daemon

codewithphone is a daemon that runs coding CLIs (Codex, Claude, Gemini) on a developer's machine
on behalf of a phone or web client.  The two never talk to each other: a server keeps tasks,
events, approvals and change sets, the daemon polls it and posts to it.  Nearly everything that
can go wrong lies between goroutines of the daemon and an unreliable server, and that is what these
TLA+ modules are about: `tlc` checks them on small instances, `tlapm` proves their safety
invariants for all values of their constants.

`PROJECT.json` has the machine-readable side: for every definition the source lines it models, the
runs, one mutant per property, the hazards, the findings and the theorems.  Paths below are relative
to `src/internal/app` unless they say otherwise.

## 1. The system

| component | state | operations | hard behaviour | what makes it correct |
|---|---|---|---|---|
| Task loop, turn dispatch (`task_loop.go`) | session locks, a snapshot and a watcher per turn, the task's status on the server | claim, lock, start, snapshot, run the CLI, stop, repair the verdict, hand over the review | stops that race the runner's end, lost answers and events, a server that applies events late, a verdict that codex sends early, a CLI that falls silent, two tasks of one session | a finished dispatch owes nothing; one verdict; a stop is wound up before the next turn; a turn ends unless its CLI never does |
| Change-set review (`changeset_waiter.go`, `changeset_api.go`) | `pendingSnapshots`, one waiter goroutine per review, snapshot directories | open, poll, time out, auto-keep, keep, roll back, clean up | auto-keep against the waiter, a late timeout against a newer review, a rollback beside the next turn, crashes | every review has one owner and a whole snapshot; outcomes do not contradict; nothing leaks |
| Terminal-event outbox (`terminal_outbox.go`, `runner_events.go`) | the file `pending-terminal-events.jsonl`, its mutex | post with retries, append, replay, rewrite | lost answers, failed renames, torn and over-long lines, crashes between the post and the rewrite | what is queued is delivered; duplicates have a cause |
| Startup and recovery (`service.go` `Run`) | `registered`, `startupRecovered` | register (three callers), recover, start the loops | late registration, a request that outlives its caller, restarts | one recovery per process, which spares live tasks |
| Assistant text buffer (`runner_buffer.go`) | text, item id, timer, flush goroutines | append, four kinds of flush, close | posts that overtake each other and the completed text | no text is dropped, repeated or left behind |
| MCP command tool (`mcp_sse.go`, `approval.go`, `cmd_*.go`) | `runningCommands`, `backgroundCommands`, `deniedApprovals`, each process, its `termOnce` and `resultCh` | approve, start, wait, detach, stop, report | deadline, timeout, stop and exit racing; ownership of the result moves | a live process can be stopped, is reported once, and was approved |
| Codex runner (`runner_codex.go`) | the conversation's place, pending questions, denials, early finalize | thread start/resume, turn start, approvals, items, end | a notification while a response is awaited, disconnects, a user who denies or never answers | one verdict, after the hook; an approval is used once; a denial ends the edits |
| Gemini, Claude runners (`runner_gemini.go`, `runner_claude.go`, `runner_line_reader.go`) | current item, text buffer, the announced stream | start the CLI, read its lines, end | ids that come late or never, results in any number, lines over the limit, a blocked or killed CLI | the reply is shown once and completely; the stream is ended; a verdict only for a turn that worked |
| Claude workspace hooks (`runner_claude_hooks.go`) | `.claude/settings.local.json` and its saved copies | install, put back | two turns in one workspace | the user's file comes back, and before the change set is built |
| Snapshot and restore (`src/internal/changeset`) | directory trees, file contents, git's rules | snapshot, diff, roll back, discard files | errors half-way, a `.gitignore`, an index or a repository that changes, paths that change their kind | a rollback gives the snapshot's files and touches nothing else; a diff is exact |
| Provider sessions (`service.go`, `codex_recovery.go`) | `providerSessions`, `sessionWorkspaces`, stream-failure counts, `sessions.json` | get, set, pin, count, reset, persist | keys that sessions share, a crash during the write | a session is resumed where it was |
| Command policy (`cmd_policy*.go`) | none | classify a command text | a command in every context it can stand in | a line is allowed only if each part is |
| Device binding (`binding.go`) | machine token, bind mode | request a PIN, poll, confirm, persist | expiry, lost answers, rejection | a token that was confirmed is kept |
| MCP transports (`mcp_server.go`, `mcp_sse.go`, `mcp_stdio.go`) | SSE sessions, an outgoing channel of 64 | open, call, answer, close | a full channel, a closed connection | every call is answered |
| Machine tasks (`fs_tasks.go`) | none | list, preview, mkdir, terminate a command, update a CLI | one slow task delays the others | paths stay inside the allowed roots |
| Runtime probing, CLI versions, inventory | cached capabilities | probe, refresh | | |
| Command line, logging, configuration, domain types, images, agent instructions, group sessions, templates | | | | |

How they interact.  The task loop calls a runner; the runner appends text to the buffer, emits the
terminal event through the outbox and calls the dispatcher's hook (`BeforeComplete`) before it; the
CLI of the runner calls back into the MCP server, whose commands outlive the call and may outlive
the turn; the dispatcher hands a completed turn's change set to a waiter that outlives the dispatch
and meets the session's next dispatch in `pendingSnapshots`.  The machine-task loop and the command
tool share `runningCommands`.  Everything meets at the server, which answers 202 and applies later.

## 2. The modules

| module | what it is | proofs | TLC |
|---|---|---|---|
| `ReviewSlot` | abstract: one open review per session, in turn order | | |
| `ChangeSetReview` | the reviews of one session; implements `ReviewSlot` | `ChangeSetReviewProofs` | `MCChangeSetReview` |
| `TerminalDelivery` | abstract: a queued terminal event is owed until it is delivered | | |
| `TerminalOutbox` | posts, file and replay; implements `TerminalDelivery` | `DaemonRestartProofs` | `MCTerminalOutbox` |
| `TurnDispatch` | from the claim of a task to the end of its dispatch | `TurnDispatchProofs` | `MCTurnDispatch` |
| `StartupRecovery` | registration and recovery over restarts | `DaemonRestartProofs` | `MCStartupRecovery` |
| `EventBuffer` | the text buffer of one turn | `EventBufferProofs` | `MCEventBuffer` |
| `CommandRuns` | calls of `run_command`, their processes and watchers | `CommandProofs` | `MCCommandRuns` |
| `TurnRunner` | abstract: what the dispatcher relies on when it calls `RunTurn` | | |
| `CodexTurn` | a turn of the Codex runner; implements `TurnRunner` | `CodexTurnProofs` | `MCCodexTurn` |
| `ClaudeHooks` | the settings file that Claude turns of one workspace share | | |
| `StreamTurn` | a Gemini or Claude turn, over `ClaudeHooks`; implements `TurnRunner` | `StreamTurnProofs` | `MCStreamTurn` |
| `TextDiff` | Myers' diff and the hunks, as functions | `WorkspaceRestoreProofs` | |
| `WorkspaceRestore` | snapshot, change set and what undoes a turn, over `TextDiff` | `WorkspaceRestoreProofs` | `MCWorkspaceRestore` |
| `CommandPolicy` | the classification of command lines, and how lines are composed | `CommandProofs` | `MCCommandPolicy` |

**ChangeSetReview.**  One session, because sessions share only a mutex whose critical sections are
the atomic steps.  `phase` is the dispatcher's program counter (auto-keep, snapshot, run, hand over),
`waiter[t]` that of turn t's waiter, `pending` the session's entry of `pendingSnapshots`, `snap` the
state of each snapshot directory: `RemoveAll` takes two steps, so a reader can meet a directory that
is half gone.  `remover[t]` is a history variable: who took turn t's review out of the map
(`"stray"`: the unconditional delete of an earlier turn's late timeout).  The check `isStillPending`
and the delete after it are two steps, as they are two critical sections in the code.  A restore is
a step that begins and one that ends; what it does to single files is abstracted away.

**TerminalOutbox.**  `emitter[e]` and `attempt[e]` follow `emitTerminalEvent`; `drain`, `todo` and
`kept` follow `drainPendingTerminalEvents`, which holds the mutex from the read to the rename.  A
post has three outcomes: accepted, failed, and accepted with the answer lost.  The file is a set of
records and a number of lines that do not decode; `LongEvents` are the events whose record exceeds the
64 KiB a `bufio.Scanner` reads, which stops every replay just as a torn line does (`Readable`).

**TurnDispatch.**  `phase[t]` is the worker's place in `handleRunnerDispatch`; `holder` the session
locks; `watcher[t]` the goroutine of `watchSessionTermination`, which cancels the context in one step
and closes the channel that says why in the next; `emitted[t]`, `accepted[t]` and the server's
`status[t]` are apart, because the server answers before it applies.  The runners are given by what
they return and emit: they complete, report a failure themselves, or return an error without having
reported it.  A Codex turn may also emit a verdict while it is
running, after the hook if it is `turn.completed`, and go on to another one (`ReportEarly`; what
`CodexTurn` finds), and a turn whose CLI falls silent may run for ever, as nothing times it out.  A terminal event
whose posts all fail is queued, or lost when the outbox cannot be written either (`EmitDropped`); the
dispatcher cannot tell.  The watcher cancels for a cancelled task, and also for a terminated session when
the task's status cannot be fetched (`WatcherFallsBack`).  `TerminalOutbox` is used through its promise (`Replay`), `ChangeSetReview` through the
hand-over (`snap[t] = "handed"`).

**StartupRecovery.**  Three callers (`Run`, the retry goroutine, the heartbeat) register and then
call `recoverStartupTasks`; each incarnation's request is sent, answered, or abandoned by its caller
and may still be handled by the server afterwards.  A crash keeps the server's task table and starts
the next incarnation.

**EventBuffer.**  A chunk is the number of its `Append`.  `flushers` counts the goroutines that were
started to flush and have not yet taken the text; `posts` holds what they took.  The runner's own
flush is synchronous and precedes each report, as in `handleItemCompleted`.

**CommandRuns.**  `pc[c]` is the place of a call in `executeRunCommandTool`, `ctx[c]` its context,
`proc[c]` the process (`"reaped"`: `cmd.Wait` has returned and the result is in `resultCh`),
`term[c]` its `termOnce`, `watcher[c]` the goroutine of a detached command, `running` and
`background` the keys of the two tables.  `finished[c]` counts the calls of
`postCommandFinishedEvent`; whether such a post arrives is not the daemon's promise.  The
machine-task loop handles one termination at a time (`fs`) and waits the grace period out.

**CodexTurn.**  `pc` is the place of `RunTurn`; a message of the CLI is one action, handled where it
arrives, while a response is awaited (`"starting"`) or in the loop (`"reading"`).  A request for
approval is answered at once or becomes the `question` on which the runner polls; meanwhile the CLI
may end and the task may be stopped.  `accepted`, `approvals` and `edits` count what was granted and
by whom.  `early` says that a verdict was emitted before the CLI agreed to the turn: `request()` drops
the "done" of such a message, and the refinement of `TurnRunner` maps that turn to a failed one from
then on, so it says nothing about what follows; `VerdictEndsTurn` does, and is violated.

**ClaudeHooks** and **StreamTurn.**  One turn `Me` with its CLI, of the other turns in the workspace
only their hooks.  Item ids are abstract: given by the CLI, or the runner's n-th own.  `streamed` and
`closing` are history: under which item the deltas were shown, and which item the result completed.
Flushes of `EventBuffer` are atomic here.  The end of the stream
is posted with the turn's context, so after a stop it does not arrive (`EndStream`).  Assumed: the pipes
of the CLI close with it (no helper process keeps standard output).  Left out: I/O errors of the hooks' clean-up, hooks that a crash of
the daemon leaves behind, the second whole message of a Claude CLI that does not stream (its text is
in the result).

**TextDiff** and **WorkspaceRestore.**  `computeDiff` is translated as it stands, rounds, trace and
backtracking, with functions on diagonals for its arrays.  A workspace is a function from paths to a
text, `Binary`, `Dir` or `Absent`, and `Above` gives the directories above each path, to any depth; the turn puts it into any state that differs in `MaxTouched` paths,
changes git's index (of the paths `Staged`), and makes the repository or removes it.  `Listed` is what git
prints at that moment: by the index and the `.gitignore` of that moment, without quoted names and
generated files; `repo` keeps how the turn found it.  A copy fails on a directory and below a file; what
cannot be removed is `stuck`.  `copyFile` truncates before it copies, and `CopyBreaks` is a copy that breaks
off there: `RollbackBreaks` and `SelectiveBreaks` let any copy of a rollback or a selective decision be the
one, and `broken` is the file that was emptied.  What was written of it before the error is taken for
nothing.  Left out: modes, links, a missing newline at the end of a text, texts over 1 MiB, and the full
walk the snapshot falls back to when git's list fails midway.

**CommandPolicy.**  Words are records of what the code asks of a word: its text, its kind (a flag, an
operator, a quoted script, ...) and where a path in it leads.  The operators are the functions of the
code; those that call each other (`evaluatePolicyScript`, `evaluatePolicySingle`, `evaluatePolicyFind`) are a
recursive function on commands, which the two others get as a parameter.  A line grows from one simple
command by the contexts the code reads: another segment before or after, a wrapper with options, a shell's
script, `find -exec` up to `+` or `\;`; `parts` keeps the simple commands in it.  `splitShellSegments` cuts at
every `;`, the escaped one too, so a find that ends with `\;` reaches the evaluator without an end mark
(`form = "escaped"`).  Three more actions put a command where the code reads none, and `form` is then
`"hidden"`: behind the `\;` of a find's first command (`FindGoesOn`), behind a lone `&`
(`Background`), and in `$(...)` or backticks (`Substitute`).  The properties and theorems say nothing of such
lines; they are compositions TLC visits, and a known deviation below.  A line with a quoted `\;` or a hidden
command is put into nothing else.  `SimpleCommands` is any set of commands that run no
other command (`CommandsAssumption`), `Texts` any set of texts that has those of the contexts
(`TextsAssumption`).  `Quotable` bounds what is put into a quoted script: no other quoted script, and no substitution.
Operators stand between blanks, as words of their own.

## 3. The runs

| run | instance | what it shows |
|---|---|---|
| `review` | 2 turns, 1 crash, all four answers | ownership of reviews and snapshots, `ReviewSlot`, every snapshot reclaimed |
| `outbox` | 3 events, one of them too long for the scanner, 2 attempts, 3 faults, 1 torn line | duplicates are paid for, `TerminalDelivery`, delivery while the file can be read |
| `dispatch` | 2 tasks of one session (one of Codex and tracked), 2 workers, 1 of the rare events | what a dispatch leaves behind, its verdict, that it returns and the turn ends unless a CLI runs for ever |
| `startup` | 2 tasks, 1 restart | recovery spares live tasks when it is in time, and reaches the stale ones |
| `buffer` | 3 chunks, 2 items, full at 2 | no text stranded, dropped or repeated, none left when its item is completed |
| `commands` | 2 calls, 1 background slot | reachability, one report per command, approvals, calls and stops end |
| `codex` | 3 commands of different risk, 5 messages | approvals are used once, a denial ends the edits, `TurnRunner`, a stopped turn returns |
| `stream` | both runners, 4 events, 1 other turn | the reply is complete and shown once, the stream is ended unless the turn was stopped or its output became unreadable, the workspace is clean, `TurnRunner` |
| `workspace` | 5 paths, 2 touched, 1 of them in the index, 5 kinds of repository | what a rollback and a discard leave, also when a copy breaks off; exact diffs |
| `policy` | 30 simple commands in every composition of 2 steps | in the contexts the policy reads, a line runs without asking only if its parts do, and is not denied without a reason in them; no composition undoes a denial |
| `codex_early_verdict` | the instance of `codex` | **violated**: a verdict during `turn/start` does not end the turn |
| `workspace_unreviewed` | the instance of `workspace` | **violated**: a path that changes its kind costs the completed turn its review |

The violated runs are disagreements between the code and its own comments or README; `findings` in
`PROJECT.json` quotes the line and describes the counterexample.  Type invariants are not in the runs:
they are proved (section 4).

**Known deviations.**  The modules hold further statements of the code's comments and log lines that
are not true of it; each has a remark at its definition, and TLC refutes each when it is given as the
property of a run of its module, in a few steps.

| definition | what happens |
|---|---|
| `ChangeSetReview!CancelledWaiterDoesNotProcess` | the cancellation of `changeset_waiter.go:91` stops only a poll in progress: a waiter that has its decision applies it although auto-keep took the review |
| `ChangeSetReview!RestoreExcludesNextTurn` | the waiter rolls back without the session's lock, after it let the next turn in: `Restore` rewrites files under a running turn |
| `TerminalOutbox!EveryQueuedIsDelivered` | one line that does not decode (`terminal_outbox.go:151`), or one over 64 KiB (`:162`), ends every replay before it posts anything |
| `TurnDispatch!OfferedIsHandedOver` | a turn whose change set is on the server ends without a waiter when its verdict was queued or a stop was seen late (`task_loop.go:359`, `:377`) |
| `StartupRecovery!OnlyStaleRecovered` | a registration that first succeeds after the task loop started makes the server end running tasks (`service.go:271`) |
| `EventBuffer!NoLateDelta` | the flush before a completed text does not wait for a goroutine that has already taken text (`runner_codex.go:450`) |
| `CommandPolicy!StrongestDecision` | `evaluatePolicyScript` keeps the first allowed segment's category, not the strongest (`cmd_policy_engine.go:110`) |
| `CommandPolicy!AnyDenyShortCircuits` | `unwrapShellWrapperCommandText` splits the whole line into words: when it goes on behind a shell, the later segments count as the shell's arguments and only the word after `-c` is evaluated (`cmd_policy.go:135`); `DecidedByParts` and `DenyIsSticky` except these lines (`ShellLeads`) |
| `CommandPolicy!DecidedByParts` without `form # "hidden"` | a command is not read where find goes on behind a `\;` (`cmd_policy.go:241`: the cut leaves `-exec` as an executable, which is allowed by default), behind a lone `&`, or in a command substitution |
| `WorkspaceRestore!UntouchedIsKept` without its exceptions | `Restore` deletes what git lists and the snapshot has not: a hidden file that the turn took out of `.gitignore`, and every hidden file if the turn removed the repository (`changeset.go:268`).  It also copies files nobody changed, over themselves: one whose copy fails is left empty (`changeset.go:871`) |
| `OneVerdict`, `ChangeSetBeforeVerdict` of `TurnDispatch` without the early verdicts | `request()` drops that a turn is over (`runner_codex.go:1069`): another verdict, and the change set, can follow |
| `ClaudeHooks!SettingsRestored` without `~overlapped` | of two overlapping turns the later one puts the earlier one's hooks back for good (`runner_claude_hooks.go:47`) |

**Why the bounds are enough.**  Every race in the modules is between two parties that meet on one
entry: two turns of a session give auto-keep, the late timeout and the overlapping rollback; two
tasks on two workers give the wait for the lock; two calls with one slot give the full background
with both kinds of call, one that needs approval and has the SSE deadline and one that does not; two
events give a replay that overlaps an append; three chunks of two items give a full buffer, a change
of item and text that arrives while a post is in flight.  One crash suffices for what one incarnation
leaves to the next.  `MaxTurns`, `MaxCrashes`, `MaxFaults`, `MaxTorn`, `MaxRare`, `MaxChunks` and
`TerminalAttempts` are the only bounds of those modules, and all are parameters of the proofs.  The limit of two
background commands is `MaxBackground`; the run uses one, the theorem holds for any.  Of the later
modules: five messages suffice for a question, its denial, an edit and an end; four events for a delta,
a named message, a result and one more of each kind after it; two touched paths for a directory that
becomes a file, or a changed `.gitignore` with a file it names, or with the same file put into the index
(`Staged` is the file that is hidden).  `MaxRare` is 1: the session is ended, or one of its tasks has early
verdicts and lost events, in any number; the theorems have all of them for every task.  `ContextLines` is 0 in the run (3 in
the code), so that texts of three lines have two hunks; the diff was compared with its definition for
all pairs of texts of up to four lines over two lines, too.

Deadlock checking is off everywhere: sessions end, events are delivered and bounds are used up, so
every one of these systems really stops.

**Fairness.**  Goroutines that can run do run (weak fairness on their steps), because the Go
scheduler is preemptive; timers and deadlines that were armed fire.  Strong fairness is assumed in
three places: the session lock (`LockSession`) and the outbox mutex (`EnqueuePending`), as
`sync.Mutex` hands over to a waiter that has starved for a millisecond, and `DrainAccepted`, which
says that a server that is asked again and again accepts an event at some point.  A registration
that is retried every two seconds succeeds at some point (`Register("retry")`), and the server
applies the events it accepted.  Nothing is assumed of users (they need not answer or stop
anything), of processes (a command need not end by itself; one that was sent SIGKILL does) or of the
CLI's stream: it need not write, answer or exit.  So `TurnDispatch` has no fairness on a turn that is
running: `EveryDispatchReturns` and `EveryTurnIsOver` except a turn whose CLI runs for ever with nobody to
stop it (`RunsUnstopped`), and the latter a turn whose terminal event was lost.  That a runner returns after
its context is cancelled is what `TurnDispatch` does assume of `RunTurn`; `StoppedTurnReturns` of `CodexTurn`
and `StreamTurn` shows it, from the fairness of the runner's own steps and of the SIGKILL that follows the
end of the context after `WaitDelay`.

## 4. The proofs

Each `*Proofs` module proves an inductive invariant `IInv` of its component and, from it, type
correctness (in all but the two runners' a theorem of its own), the invariants its run checks and some that only the
proofs state; `tlapm` checks all of them to the last leaf.  The named assumptions on the
constants are the only ones used.

- **ChangeSetReviewProofs** (`ReviewInvariant`).  The safety of snapshots is not inductive by itself:
  it needs what each program counter implies about the map entry, the snapshot and the history of the
  removal, and that waiters exist only for turns before the current one.  From it: type correctness,
  `PendingSnapshotWhole`, `RunningSnapshotWhole`, `RestoreFromWholeSnapshot`,
  `ContradictionOnlyByAutoKeep`, `SnapshotNotLeaked`, `AwaitedIsOwned`, and the refinement of
  `ReviewSlot` (`ImplementsReviewSlot`), for any number of turns and crashes.
- **DaemonRestartProofs** holds the proofs of two components.  `OutboxInvariant`: the replay's `todo`
  and `kept` are records of the file and whatever is in neither was accepted; a duplicate is paid for
  by a fault.  The refinement of `TerminalDelivery` has one step per action; `QuietLoses` says that an
  action which changes no delivery status is a stutter.  `RecoveryInvariant`: the flag bounds the number of
  requests (`FlagInv`), a request is open only while its sender waits (`OpenInv`), and while `Run`
  registers nothing is running (`StartInv`); `FirstTrySparesLiveTasks` is an action property.
- **TurnDispatchProofs** (`DispatchInvariant`).  At most one worker of a session is in the locked
  part; the snapshot, watcher and review fit its place; verdicts agree with the phase, those a Codex turn emits early apart (`Settled`).
  `ChangeSetBeforeVerdict` is an action property, proved from the same invariant.
- **EventBufferProofs** (`BufferInvariant`).  Between the runner's own flush and its report the buffer
  is empty; text always has a flush coming.
- **CommandProofs**, on `CommandRuns` (`CommandInvariant`).  `CallInv` ties a call's program counter to its process,
  watcher, table entries and report; `SlotInv` bounds a session's entries, and `DetachedLimit` follows
  because every detached live process has one.
- **CommandProofs**, on `CommandPolicy` (`CompositionIsKept`), for words of any texts, any simple commands
  and any number of steps.  The evaluators call each other on parts of their argument, so it comes first
  that they end: what a command runs has fewer words (`CommandRank`), what a quoted script holds has no quoted script in
  it, so that the commands without one are settled first (`SimpleDecisionsExist`), and a function that is
  defined by recursion on a rank exists
  (`RankedFunctionExists`; `DecisionsExist`, `SingleIs`).  Then each context is shown to pass on
  the decision of what it runs: a wrapper (`WrappedIsDecidedAlike`), `find -exec` (`FindRuns`) and a shell
  (`ShellRuns`).  `LineIsAllowed` says when a line runs without asking: no fetch is substituted, no interpreter behind
  another segment reads its script, and every segment is allowed by itself.  The invariant `PolicyInv` says these three
  of a line by its `parts`; `DecidedByParts` alone is not inductive, because it does not say which parts
  meet.  `StepFollows` shows for each action that the new line is composed of the new parts and is denied if the
  old one was, which is `DenyIsSticky` (`DenialsStick`); `LineDecision` shows that unwrapping the line's own shell changes
  nothing, unless the line goes on behind that shell.  All of it is for lines without a hidden
  command.

- **CodexTurnProofs** (`CodexInvariant`).  What the daemon knows of the user's answers never exceeds
  what the user said, and a pending question keeps the runner from doing anything else; from it
  `GrantedByUser` and `DenialStopsEdits` for any commands and any number of messages,
  `TextBeforeVerdict` (the buffer is empty at every verdict), and the refinement of `TurnRunner`.
- **StreamTurnProofs** (`StreamInvariant`).  `HooksInv` says that until two turns overlap at most one
  has its hooks in the file and holds the user's settings; `InstallKeepsHooks` and `CleanupKeepsHooks`
  are shared by this turn and the others, of which there may be any number.  `TextInv` says that the
  shown item is the current one until something completes it.  From it the four invariants of the
  run and the refinement of `TurnRunner`, for any ids and any number of events.
- **WorkspaceRestoreProofs** (`WorkspaceInvariant`), for any tree of paths, any contents, repository and
  turn.  The invariant has two layers.  `SnapshotInv` says what the snapshot is (the listed
  files as the turn found them, below directories that it has too: `Grounded`), `TurnInv` that nobody but
  the turn touches the workspace before it is undone, and `ChangeSetInv` that there is one entry for each
  file to be reviewed, with the diff of its two texts.  The second layer are the properties themselves.  Neither `RollbackRestores` nor `UntouchedIsKept` is
  inductive, because both speak of the moment of the undoing only.  `CopyWalkRestores` and
  `DiscardWalkRestores` say what a walk has done when it is at any of its paths, which covers the walks that
  break off.  From it `RollbackIsRight`,
  `UntouchedStays`, `DiscardAllIsRight` and `DiffsAreExact`.
- **The diff**, in the same module, for any two texts and any `ContextLines`.  `computeDiffIs`: the
  script of `computeDiff` stands for the old text and for the new one.  `Furthest` is the fact that makes
  Myers' search right: after round d the point on a diagonal is the furthest that d changes reach.  It
  gives that the last round exists (`FinalRoundIs`), that the way back over the trace ends at the
  beginning of both texts (`BackIs`), and that no script has fewer changes (`FewestChanges`, against
  the longest common subsequence).  `RangesShow`: the ranges are apart, in order, and cover every change.
  `PatchIs` applies the hunks from the last to the first; its invariant is a seam (`Seam`): the old
  text up to an edit and the new one from there, which a hunk moves to its beginning (`SeamOverHunk`)
  and a gap without changes does not notice (`SeamOverGap`).  `ChangeCountIs` gives the number of
  changes that is shown.

**Induction.**  The library's induction theorems take an operator as a parameter and cannot be used
here, but `WFMin` and `NatLessThanWellFounded` take sets.  From these two `WorkspaceRestoreProofs` derives that a set of
numbers has a least one (`LeastNumber`) and with it induction over a *set*: over the numbers
(`NatInduces`), up to a bound (`UpToInduces`) and over sequences (`SeqInduces`).  `WalkExists` is the
other half: a function defined by recursion on 0..n exists and is what its equations say, which is what
`CHOOSE` in a recursive definition asks for.  Every walk of the code is unfolded by it.  `CommandProofs` has the same two for a rank
(`RankInduces`, `RankedFunctionExists`).

Only model-checked: all liveness properties (`SnapshotsReclaimed`, `QueuedIsDelivered`,
`EveryDispatchReturns`, `EveryTurnIsOver`, `StaleTasksAreRecovered`, `EveryCallReturns`,
`StopIsEffective`, `StoppedTurnReturns` of both runners), which depend on fairness and on `ENABLED`,
and the violations.  Every safety property of the runs is a theorem.

## 5. What is not modelled

Texts: prompts, outputs, the fields of events; a command line is a sequence of words that stand for
their kind.  Time: a timer may fire whenever it is armed, so the modules have every order of events
and no durations.  HTTP: a request is the outcomes its caller distinguishes.  The display-only events
(phases, tool calls, blocked and unblocked turns) and which files of a change set are displayed.  The
server, the CLIs and git: what they do is an external action or a set of inputs, marked so in the map.

- Provider sessions and Codex recovery: the keys, the stream-failure counts and `sessions.json`;
  `TurnDispatch` chooses the outcome of a recovery freely.
- Device binding, SSE connections and the bounded channel of the MCP server: single loops, listed as
  the next modules below.
- Machine tasks, runtime probing, version checks, the inventory, the server client: sequential
  requests and parsing that keep no state of their own.
- Command line, logging, configuration, domain types, images, agent instructions, group sessions and
  templates: input and output.

## 6. Plan

What would come next, in this order:

1. `ProviderSession`: session keys that sessions share, stream-failure counts, pinned workspaces and
   `sessions.json` over restarts; with it the second CLI process of a task that is run again, whose
   approval ids may repeat.
2. `McpSession`: SSE connections, the bounded channel and calls that outlive them.
3. `DeviceBinding`: the PIN loop, bind modes and what is persisted.
4. A composition of `TurnDispatch`, `ChangeSetReview` and `WorkspaceRestore` for one session: from the
   user's message to the end of its review, with a rollback that takes one file at a time.
