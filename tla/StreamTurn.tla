------------------------------ MODULE StreamTurn ------------------------------
(***************************************************************************)
(* RunTurn of the Gemini and the Claude runner (runner_gemini.go,          *)
(* runner_claude.go): a CLI that is started once per turn, writes one JSON *)
(* event per line and exits.  The two differ in the events, in the item    *)
(* ids of the assistant's messages, and in the hooks a Claude turn puts    *)
(* into the workspace (ClaudeHooks).                                       *)
(*                                                                         *)
(* A line is handled before the next one is read, so an event is one       *)
(* action; lines the runner ignores, and the session id that RunTurn       *)
(* returns, are left out.  Of the other turns in the workspace only the    *)
(* hooks matter.                                                           *)
(***************************************************************************)
EXTENDS Naturals, Sequences, ClaudeHooks

CONSTANTS Me,           \* this turn, one of Turns
          Ids,          \* item ids the CLI may give
          MaxEvents     \* bound on the events that say something

ASSUME StreamAssumption == Me \in Turns /\ MaxEvents \in Nat

VARIABLES
  kind,       \* the runner
  pc,         \* where RunTurn is
  cli,        \* the CLI's process: "none", "up", "blocked" on a full pipe, "ok" or "failed"
  stopped,    \* the turn's context is cancelled
  tooLong,    \* a line of the output was over the limit (scanErr)
  open,       \* the assistant's stream was announced, and its end was not posted
  item,       \* currentAssistantItemID
  index,      \* fallbackAssistantIndex
  said,       \* assistantText is not empty
  buffered,   \* the text buffer holds deltas
  completed,  \* assistantCompleted
  streamed,   \* the item of the deltas since the last result
  closing,    \* at the last completion by a result: streamed, and the item that was completed
  answered,   \* nothing was said since the last result
  verdicts,   \* the terminal events
  events      \* how many events there were

textVars == <<item, index, said, buffered, completed, streamed, closing, answered>>
cliVars == <<cli, stopped, tooLong>>
vars == <<hookVars, cliVars, textVars, kind, pc, open, verdicts, events>>

None == <<>>
Fallback(n) == <<"assistant", n>>
Given == {<<"given", i>> : i \in Ids}
Items == {None} \cup Given \cup ({"assistant"} \X Nat)
Over == {"returned", "unposted", "failed"}

FlagsOK ==
  /\ stopped \in BOOLEAN /\ tooLong \in BOOLEAN /\ open \in BOOLEAN /\ said \in BOOLEAN
  /\ buffered \in BOOLEAN /\ completed \in BOOLEAN /\ answered \in BOOLEAN

DataOK ==
  /\ kind \in {"gemini", "claude"}
  /\ pc \in {"idle", "setup", "reading", "waiting", "completing"} \cup Over
  /\ cli \in {"none", "up", "blocked", "ok", "failed"}
  /\ index \in Nat /\ events \in Nat
  /\ item \in Items /\ streamed \in Items /\ closing \in Items \X Items
  /\ verdicts \in Seq({"completed"})

TypeOK == HooksTypeOK /\ FlagsOK /\ DataOK

Init ==
  /\ HooksInit
  /\ kind \in {"gemini", "claude"}
  /\ pc = "idle" /\ cli = "none"
  /\ stopped = FALSE /\ tooLong = FALSE /\ open = FALSE /\ said = FALSE
  /\ buffered = FALSE /\ completed = FALSE /\ answered = FALSE
  /\ item = None /\ streamed = None /\ closing = <<None, None>> /\ index = 0
  /\ verdicts = <<>> /\ events = 0

Go(from, to) == pc = from /\ pc' = to

-----------------------------------------------------------------------------
(* Starting the CLI.                                                       *)

\* The configuration of the CLI is written; a Claude turn installs its hooks.
Setup ==
  /\ Go("idle", "setup")
  /\ \/ kind = "claude" /\ installClaudeWorkspaceHooks(Me)
     \/ installFails
  /\ UNCHANGED <<kind, cliVars, textVars, open, verdicts, events>>

SetupFails ==
  /\ Go("idle", "failed")
  /\ UNCHANGED <<hookVars, kind, cliVars, textVars, open, verdicts, events>>

StartCLI ==
  /\ Go("setup", "reading") /\ ~stopped
  /\ cli' = "up"
  /\ UNCHANGED <<hookVars, kind, stopped, tooLong, textVars, open, verdicts, events>>

StartFails ==
  /\ Go("setup", "failed")
  /\ cleanupClaudeHooks(Me)
  /\ UNCHANGED <<kind, cliVars, textVars, open, verdicts, events>>

-----------------------------------------------------------------------------
(* The events.                                                             *)

\* A line of the output is read.
Event(k) ==
  /\ pc = "reading" /\ kind = k
  /\ events < MaxEvents /\ events' = events + 1
  /\ UNCHANGED <<hookVars, cliVars, kind, pc, verdicts>>

\* emitAssistantStreamStarted, once.
Announce == open' = TRUE

\* EventBuffer.Append: EventBuffer models it.
Append_(i) ==
  /\ buffered' = TRUE /\ said' = TRUE
  /\ streamed' = i /\ answered' = FALSE
  /\ UNCHANGED closing

UseItem(i) ==
  /\ item' = i
  /\ index' = IF i = Fallback(index + 1) THEN index + 1 ELSE index

\* What an event says of its author: a role, a messageType, and whether it is a delta.
GeminiEvents == [role: {"user", "model", "none"}, info: BOOLEAN, delta: BOOLEAN, id: {None} \cup Given]

isGeminiAssistantMessage(e) == e.role # "user" /\ (e.role = "model" \/ (~e.info /\ e.delta))

\* Without an id of its own a delta belongs to the current item, a message to a new one.
GeminiItem(e) ==
  IF e.id # None THEN e.id
  ELSE IF e.delta /\ item # None THEN item ELSE Fallback(index + 1)

\* A message completes its own item.
GeminiMessage ==
  \E e \in GeminiEvents :
    /\ Event("gemini")
    /\ isGeminiAssistantMessage(e)
    /\ Announce
    /\ UseItem(GeminiItem(e))
    /\ \/ e.delta /\ Append_(GeminiItem(e)) /\ UNCHANGED completed
       \/ /\ ~e.delta
          /\ said' = TRUE /\ answered' = FALSE
          /\ buffered' = FALSE
          /\ completed' = TRUE
          /\ UNCHANGED <<streamed, closing>>

\* The item a result completes.
ClosingItem == IF item # None THEN item ELSE Fallback(index + 1)
NextIndex == IF item # None THEN index ELSE index + 1
Close ==
  /\ closing' = <<streamed, ClosingItem>>
  /\ streamed' = None

\* Mutant: the result does not flush the deltas.
GeminiResultUnflushed ==
  /\ Event("gemini")
  /\ Announce
  /\ index' = NextIndex
  /\ answered' = TRUE /\ completed' = TRUE
  /\ IF completed THEN UNCHANGED <<streamed, closing>> ELSE Close
  /\ UNCHANGED <<item, said, buffered>>

\* A result whose status is a success.  It has a text for the reply in any case, the fallback if
\* nothing else, and completes the reply unless a message did.
GeminiResult ==
  /\ Event("gemini")
  /\ Announce
  /\ index' = NextIndex
  /\ buffered' = FALSE /\ answered' = TRUE
  /\ completed' = TRUE
  /\ IF completed THEN UNCHANGED <<streamed, closing>> ELSE Close
  /\ UNCHANGED <<item, said>>

\* A text delta of a stream_event.
ClaudeDelta ==
  /\ Event("claude")
  /\ Announce
  /\ UseItem(ClosingItem)
  /\ Append_(ClosingItem)
  /\ UNCHANGED completed

\* Mutant: the id of the message always becomes the current one.
ClaudeSnapshotRenames ==
  \E i \in {None} \cup Given :
    /\ Event("claude")
    /\ item' = IF i # None THEN i ELSE item
    /\ open
    /\ UNCHANGED <<open, index, said, buffered, completed, streamed, closing, answered>>

\* The message as a whole.  Its text was streamed before, unless there was no stream.
ClaudeSnapshot ==
  \E i \in {None} \cup Given :
    /\ Event("claude")
    /\ LET named == IF item = None THEN i ELSE item IN
       \/ /\ open
          /\ item' = named
          /\ UNCHANGED <<open, index, said, buffered, completed, streamed, closing, answered>>
       \/ /\ ~open
          /\ Announce
          /\ LET id == IF named # None THEN named ELSE Fallback(index + 1) IN
             /\ UseItem(id)
             /\ Append_(id) \/ UNCHANGED <<said, buffered, streamed, closing, answered>>
          /\ UNCHANGED completed

\* The result has a text, or stands for what was said.
ClaudeResult ==
  /\ Event("claude")
  /\ buffered' = FALSE /\ answered' = TRUE
  /\ \/ /\ index' = NextIndex
        /\ item' = None
        /\ Close
     \/ ~said /\ UNCHANGED <<index, item, closing, streamed>>
  /\ UNCHANGED <<open, said, completed>>

\* The buffer's timer or size limit sends the deltas, until it is closed.
FlushDeltas ==
  /\ buffered /\ pc \notin Over
  /\ buffered' = FALSE
  /\ UNCHANGED <<hookVars, cliVars, item, index, said, completed, streamed, closing, answered,
                 kind, pc, open, verdicts, events>>

-----------------------------------------------------------------------------
(* The CLI's process.                                                      *)

\* Once it was told to stop, Wait reports an error however it exits.
CLIExits ==
  /\ cli = "up"
  /\ \E r \in {"ok", "failed"} : (stopped => r = "failed") /\ cli' = r
  /\ UNCHANGED <<hookVars, stopped, tooLong, textVars, kind, pc, open, verdicts, events>>

\* A line over 64 MB ends the loop.  Nobody reads the rest of the output: the CLI blocks if it is
\* more than a pipe holds.
LineTooLong ==
  /\ Go("reading", "waiting")
  /\ tooLong' = TRUE
  /\ cli' \in {cli, IF cli = "up" THEN "blocked" ELSE cli}
  /\ UNCHANGED <<hookVars, stopped, textVars, kind, open, verdicts, events>>

\* The same with a line over 8 MB of its error output, which nobody reads on either.
ErrorLineTooLong ==
  /\ pc \in {"reading", "waiting"} /\ cli = "up"
  /\ cli' = "blocked"
  /\ UNCHANGED <<hookVars, stopped, tooLong, textVars, kind, pc, open, verdicts, events>>

\* The task is stopped: the CLI gets a SIGTERM.  It may have exited by then and not be waited for.
Stop ==
  /\ pc \notin Over \cup {"idle"} /\ ~stopped
  /\ stopped' = TRUE
  /\ cli' \in {cli, IF cli = "ok" /\ pc # "completing" THEN "failed" ELSE cli}
  /\ UNCHANGED <<hookVars, tooLong, textVars, kind, pc, open, verdicts, events>>

\* Mutant: no WaitDelay, the CLI has to heed the SIGTERM.
KillWithoutDelay ==
  /\ stopped /\ cli = "up"
  /\ cli' = "failed"
  /\ UNCHANGED <<hookVars, stopped, tooLong, textVars, kind, pc, open, verdicts, events>>

\* WaitDelay: a SIGKILL after 10 seconds.
Kill ==
  /\ stopped /\ cli \in {"up", "blocked"}
  /\ cli' = "failed"
  /\ UNCHANGED <<hookVars, stopped, tooLong, textVars, kind, pc, open, verdicts, events>>

-----------------------------------------------------------------------------
(* The end of the turn.                                                    *)

EndOfOutput ==
  /\ cli \in {"ok", "failed"}
  /\ Go("reading", "waiting")
  /\ UNCHANGED <<hookVars, kind, cliVars, textVars, open, verdicts, events>>

\* emitAssistantStreamEnded posts with the turn's context: once that is cancelled the server is
\* not told.
EndStream == open' = (open /\ stopped)

\* Mutant: the stream is left open.
ProcessFailedOpen ==
  /\ cli = "failed"
  /\ Go("waiting", "failed")
  /\ cleanupClaudeHooks(Me)
  /\ UNCHANGED <<kind, cliVars, textVars, open, verdicts, events>>

\* Wait returned an error.
ProcessFailed ==
  /\ cli = "failed"
  /\ Go("waiting", "failed")
  /\ EndStream
  /\ cleanupClaudeHooks(Me)
  /\ UNCHANGED <<kind, cliVars, textVars, verdicts, events>>

\* Mutant: an unreadable stream is no error.
ParseFailedOk ==
  /\ cli = "ok" /\ tooLong
  /\ Go("waiting", "returned")
  /\ cleanupClaudeHooks(Me)
  /\ UNCHANGED <<kind, cliVars, textVars, open, verdicts, events>>

\* scanErr.
ParseFailed ==
  /\ cli = "ok" /\ tooLong
  /\ Go("waiting", "failed")
  /\ cleanupClaudeHooks(Me)
  /\ UNCHANGED <<kind, cliVars, textVars, open, verdicts, events>>

\* The stream is ended and the hooks are gone when BeforeComplete looks at the workspace.
RunBeforeComplete ==
  /\ cli = "ok" /\ ~tooLong
  /\ Go("waiting", "completing")
  /\ EndStream
  /\ cleanupClaudeHooks(Me)
  /\ UNCHANGED <<kind, cliVars, textVars, verdicts, events>>

\* turn.completed, posted or left to the outbox.
EmitCompleted ==
  /\ pc = "completing"
  /\ \E to \in {"returned", "unposted"} : pc' = to
  /\ verdicts' = Append(verdicts, "completed")
  /\ UNCHANGED <<hookVars, kind, cliVars, textVars, open, events>>

-----------------------------------------------------------------------------

Begin == Setup \/ SetupFails \/ StartCLI \/ StartFails
Read == GeminiMessage \/ GeminiResult \/ ClaudeDelta \/ ClaudeSnapshot \/ ClaudeResult
Process == CLIExits \/ LineTooLong \/ ErrorLineTooLong \/ Stop \/ Kill
Finish == EndOfOutput \/ ProcessFailed \/ ParseFailed \/ RunBeforeComplete \/ EmitCompleted

\* Another Claude turn of the workspace begins or ends.
OtherTurn(t) ==
  /\ IF saved[t] = Nothing THEN installClaudeWorkspaceHooks(t) ELSE cleanupClaudeHooks(t)
  /\ UNCHANGED <<kind, pc, cliVars, textVars, open, verdicts, events>>

Next == \/ Begin \/ Read \/ FlushDeltas \/ Process \/ Finish
        \/ \E t \in Turns \ {Me} : OtherTurn(t)

Spec == Init /\ [][Next]_vars

\* RunTurn goes on with its own steps, and the kernel kills what is to be killed; the CLI need not
\* write or exit.
FairSpec == Spec /\ WF_vars(StartCLI \/ StartFails) /\ WF_vars(Finish) /\ WF_vars(Kill)

-----------------------------------------------------------------------------
(* Properties.                                                             *)

\* After a result nothing of what the assistant said is left in the buffer, which is dropped when
\* RunTurn returns.
ReplyIsSaid == answered => ~buffered

\* A result completes the item under which the deltas before it were shown, so that the reply is
\* not there twice: the id of Claude's message comes too late to be used.
CompletedAsStreamed == closing[1] # None => closing[2] = closing[1]

\* A stream that was announced is ended before the change set is built and before RunTurn returns,
\* also when the CLI failed in the middle of it; except for an output that could not be read to
\* its end, and a turn that was stopped.
StreamIsEnded == open /\ ~tooLong /\ ~stopped => pc \in {"reading", "waiting"}

\* Where no two turns overlapped, the hooks are in the workspace no longer than the CLI, so that
\* the change set does not show them, and the user's settings come back.
LoneTurnCleansUp ==
  ~overlapped => SettingsRestored /\ (Me \in hooked => pc \in {"setup", "reading", "waiting"})

\* What the dispatcher relies on.
runnerState ==
  IF pc \in {"idle", "setup", "reading", "waiting"} THEN "running" ELSE pc

Runner == INSTANCE TurnRunner WITH state <- runnerState
ImplementsRunner == Runner!RunnerSpec

\* The reply's item is the current one until something completes it; in Claude's stream only a
\* result does. The turn's hooks are there while its CLI may be.
TextInv ==
  /\ streamed # None /\ ~completed => item = streamed
  /\ kind = "claude" => ~completed

IInv ==
  /\ HooksDataOK /\ DataOK /\ HooksInv
  /\ saved[Me] # Nothing => pc \in {"setup", "reading", "waiting"}
  /\ TextInv /\ ReplyIsSaid /\ CompletedAsStreamed /\ StreamIsEnded

\* A turn that is stopped returns, also when its CLI is blocked on an output nobody reads.
StoppedTurnReturns == stopped ~> pc \in Over
===============================================================================
