------------------------------- MODULE CodexTurn -------------------------------
(***************************************************************************)
(* RunTurn of the Codex runner (runner_codex.go): a JSON-RPC conversation  *)
(* with a CLI that answers requests, sends notifications and asks for      *)
(* approvals in any order, and may stop talking or die at any point.       *)
(*                                                                         *)
(* Messages are read one at a time, by request() while an answer is        *)
(* awaited and by the loop of RunTurn afterwards; both hand them to        *)
(* handleAsyncMessage, so the handler of a message is one action, up to    *)
(* the point where it waits for the user or for a post.                    *)
(***************************************************************************)
EXTENDS Naturals, Sequences

CONSTANTS Commands,       \* the commands the CLI may ask about
          Risk,           \* [Commands -> RiskLevels], from the command policy
          MaxMessages,    \* bound on the CLI's messages
          NoCommand

RiskLevels == {"safe_read", "guarded_write", "destructive"}

ASSUME CodexAssumption ==
  /\ Risk \in [Commands -> RiskLevels]
  /\ NoCommand \notin Commands
  /\ MaxMessages \in Nat

VARIABLES
  pc,             \* where RunTurn is
  result,         \* the error it returned, "ok" if none
  ref,            \* has it a thread to return?
  readOnly,       \* the turn's profile
  cli,            \* "up", or "ended": the next read is an end of file
  stopped,        \* the turn's context is cancelled
  messages,       \* how many notifications and requests were read
  commandsDone,   \* completedCommandCount, as far as it matters
  earlyFinalize, commandDenied, deniedByFingerprint,
  buffered,       \* the text buffer holds deltas
  question,       \* the command the user is asked about
  answer,         \* what the server has for the question
  verdicts,       \* the terminal events emitted
  early,          \* was one emitted before turn/start was answered?
  accepted,       \* how often each command was accepted
  approvals,      \* how often the user approved it
  deniedByUser,   \* the commands the user denied at some time
  edits           \* how many file changes were accepted

turnVars == <<commandsDone, earlyFinalize, buffered>>
denialVars == <<commandDenied, deniedByFingerprint, accepted, edits>>
userVars == <<question, answer, approvals, deniedByUser>>
callVars == <<pc, result, ref>>
verdictVars == <<verdicts, early>>
vars == <<callVars, readOnly, cli, stopped, messages, turnVars, denialVars, userVars, verdictVars>>

FlagsOK ==
  /\ ref \in BOOLEAN /\ readOnly \in BOOLEAN /\ stopped \in BOOLEAN
  /\ earlyFinalize \in BOOLEAN /\ buffered \in BOOLEAN /\ commandDenied \in BOOLEAN /\ early \in BOOLEAN

DataOK ==
  /\ pc \in {"spawning", "opening", "starting", "reading", "completing", "returned"}
  /\ result \in {"none", "ok", "unposted", "disconnected", "error"}
  /\ cli \in {"up", "ended"}
  /\ messages \in Nat
  /\ commandsDone \in 0..2
  /\ deniedByFingerprint \subseteq Commands /\ deniedByUser \subseteq Commands
  /\ accepted \in [Commands -> Nat] /\ approvals \in [Commands -> Nat]
  /\ edits \in Nat
  /\ question \in Commands \cup {NoCommand}
  /\ answer \in {"pending", "approve", "deny"}
  /\ verdicts \in Seq({"completed", "failed"})

TypeOK == FlagsOK /\ DataOK

Init ==
  /\ pc = "spawning" /\ result = "none" /\ ref = FALSE
  /\ readOnly \in BOOLEAN
  /\ cli = "up" /\ stopped = FALSE
  /\ messages = 0 /\ commandsDone = 0
  /\ earlyFinalize = FALSE /\ buffered = FALSE
  /\ commandDenied = FALSE /\ deniedByFingerprint = {} /\ deniedByUser = {}
  /\ accepted = [c \in Commands |-> 0] /\ approvals = [c \in Commands |-> 0]
  /\ edits = 0
  /\ question = NoCommand /\ answer = "pending"
  /\ verdicts = <<>> /\ early = FALSE

Running == pc \in {"starting", "reading"} /\ question = NoCommand

Return(r) == pc' = "returned" /\ result' = r /\ UNCHANGED ref
Stay == UNCHANGED callVars

\* After a message was handled without an error, request() looks at the context; the loop of
\* RunTurn does not.
Continue == IF pc = "starting" /\ stopped THEN Return("error") ELSE Stay

-----------------------------------------------------------------------------
(* Opening the conversation.                                               *)

\* startCodexRPC and initialize; what the CLI sends meanwhile is ignored.
StartCLI ==
  /\ pc = "spawning" /\ cli = "up"
  /\ pc' = "opening"
  /\ UNCHANGED <<result, ref, readOnly, cli, stopped, messages, turnVars, denialVars, userVars, verdictVars>>

\* thread/start or thread/resume, then turn/start is sent.
OpenThread ==
  /\ pc = "opening" /\ cli = "up"
  /\ pc' = "starting" /\ ref' = TRUE
  /\ UNCHANGED <<result, readOnly, cli, stopped, messages, turnVars, denialVars, userVars, verdictVars>>

\* The CLI refuses a request, or ends before it answers.
SetupFails ==
  /\ pc \in {"spawning", "opening"}
  /\ Return("error")
  /\ UNCHANGED <<readOnly, cli, stopped, messages, turnVars, denialVars, userVars, verdictVars>>

\* The answer to turn/start.  A read-only turn may have its final message by now.
TurnStarted ==
  /\ pc = "starting" /\ Running /\ cli = "up"
  /\ pc' = IF earlyFinalize THEN "completing" ELSE "reading"
  /\ buffered' = (buffered /\ ~earlyFinalize)
  /\ UNCHANGED <<result, ref, readOnly, cli, stopped, messages, commandsDone, earlyFinalize,
                 denialVars, userVars, verdictVars>>

TurnRefused ==
  /\ pc = "starting" /\ Running
  /\ Return("error")
  /\ UNCHANGED <<readOnly, cli, stopped, messages, turnVars, denialVars, userVars, verdictVars>>

-----------------------------------------------------------------------------
(* The CLI's messages.                                                     *)

Receive ==
  /\ Running /\ cli = "up" /\ messages < MaxMessages
  /\ messages' = messages + 1
  /\ UNCHANGED <<readOnly, cli, stopped>>

Delta ==
  /\ Receive /\ Continue
  /\ buffered' = TRUE
  /\ UNCHANGED <<commandsDone, earlyFinalize, denialVars, userVars, verdictVars>>

\* A timer or a full buffer sends the deltas (EventBuffer).
FlushDeltas ==
  /\ buffered /\ buffered' = FALSE
  /\ UNCHANGED <<callVars, readOnly, cli, stopped, messages, commandsDone, earlyFinalize,
                 denialVars, userVars, verdictVars>>

\* The items and notifications that change nothing here, and the requests for permissions, which
\* are answered with none.
OtherMessage ==
  /\ Receive /\ Continue
  /\ UNCHANGED <<turnVars, denialVars, userVars, verdictVars>>

\* A command of the CLI begins; the event is posted, and an error ends the turn.
CommandStarted ==
  /\ Receive /\ (Continue \/ Return("error"))
  /\ UNCHANGED <<turnVars, denialVars, userVars, verdictVars>>

CommandCompleted ==
  /\ Receive /\ (Continue \/ Return("error"))
  /\ commandsDone' = IF commandsDone < 2 THEN commandsDone + 1 ELSE 2
  /\ UNCHANGED <<earlyFinalize, buffered, denialVars, userVars, verdictVars>>

\* shouldEarlyFinalizeReadOnlyTurn: a long message after two commands is the answer.
EarlyFinalize(long) == readOnly /\ long /\ commandsDone >= 2

\* The loop of RunTurn finalizes at once, request() only when turn/start is answered.
AgentMessage(long) ==
  /\ Receive
  /\ buffered' = FALSE
  /\ earlyFinalize' = (earlyFinalize \/ EarlyFinalize(long))
  /\ IF earlyFinalize' /\ pc = "reading"
     THEN pc' = "completing" /\ UNCHANGED <<result, ref>> ELSE Continue
  /\ UNCHANGED <<commandsDone, denialVars, userVars, verdictVars>>

\* The completed message could not be posted.
AgentMessageFails ==
  /\ Receive /\ Return("error")
  /\ buffered' = FALSE
  /\ UNCHANGED <<commandsDone, earlyFinalize, denialVars, userVars, verdictVars>>

-----------------------------------------------------------------------------
(* Approvals (handleCommandApproval).                                      *)

\* An answer cannot be written once the CLI is gone, and the error ends the turn.
Respond == Continue \/ Return("error")

Accept(c) ==
  /\ Respond
  /\ accepted' = [accepted EXCEPT ![c] = @ + 1]
  /\ UNCHANGED <<commandDenied, edits>>

Decline ==
  /\ Respond
  /\ commandDenied' = TRUE
  /\ UNCHANGED <<accepted, edits>>

\* allowsCommandForProfile and shouldAutoApprove: an allowed command is a read or a write.
BlockedByProfile(c) == readOnly /\ Risk[c] = "guarded_write"
AutoApproved(c) == Risk[c] # "destructive"

AcceptAlone(c) ==
  /\ ~BlockedByProfile(c) /\ AutoApproved(c)
  /\ Receive /\ Accept(c)
  /\ UNCHANGED <<turnVars, deniedByFingerprint, userVars, verdictVars>>

\* The profile forbids it, the user denied the same command before, or the question could not be
\* posted.
DeclineAlone(c) ==
  /\ \/ BlockedByProfile(c)
     \/ ~AutoApproved(c)
  /\ Receive /\ Decline
  /\ UNCHANGED <<turnVars, deniedByFingerprint, userVars, verdictVars>>

AskUser(c) ==
  /\ ~BlockedByProfile(c) /\ ~AutoApproved(c) /\ c \notin deniedByFingerprint
  /\ Receive
  /\ question' = c /\ answer' = "pending"
  /\ UNCHANGED <<callVars, turnVars, denialVars, approvals, deniedByUser, verdictVars>>

UserAnswers(d) ==
  /\ question # NoCommand /\ answer = "pending"
  /\ answer' = d
  /\ IF d = "approve"
     THEN approvals' = [approvals EXCEPT ![question] = @ + 1] /\ UNCHANGED deniedByUser
     ELSE deniedByUser' = deniedByUser \cup {question} /\ UNCHANGED approvals
  /\ UNCHANGED <<callVars, readOnly, cli, stopped, messages, turnVars, denialVars, question, verdictVars>>

\* waitForDecision has the user's answer.
PollApproved ==
  /\ answer = "approve"
  /\ Accept(question)
  /\ question' = NoCommand /\ answer' = "pending"
  /\ UNCHANGED <<readOnly, cli, stopped, messages, turnVars, deniedByFingerprint, approvals,
                 deniedByUser, verdictVars>>

PollDenied ==
  /\ answer = "deny"
  /\ Decline
  /\ deniedByFingerprint' = deniedByFingerprint \cup {question}
  /\ question' = NoCommand /\ answer' = "pending"
  /\ UNCHANGED <<readOnly, cli, stopped, messages, turnVars, approvals, deniedByUser, verdictVars>>

\* Mutant: a question that is given up counts as approved.
PollFailsApproves ==
  /\ question # NoCommand
  /\ Accept(question)
  /\ question' = NoCommand /\ answer' = "pending"
  /\ UNCHANGED <<readOnly, cli, stopped, messages, turnVars, deniedByFingerprint, approvals,
                 deniedByUser, verdictVars>>

\* Mutant: the poll does not look at the context.
PollOutlivesContext ==
  /\ ~stopped /\ question # NoCommand
  /\ Decline
  /\ question' = NoCommand /\ answer' = "pending"
  /\ UNCHANGED <<readOnly, cli, stopped, messages, turnVars, deniedByFingerprint, approvals,
                 deniedByUser, verdictVars>>

\* A poll that fails, or a stopped turn, declines, whatever the user answers; nothing is remembered
\* of the command.
PollFails ==
  /\ question # NoCommand
  /\ Decline
  /\ question' = NoCommand /\ answer' = "pending"
  /\ UNCHANGED <<readOnly, cli, stopped, messages, turnVars, deniedByFingerprint, approvals,
                 deniedByUser, verdictVars>>

\* Mutant: only the read-only profile keeps file changes from being accepted.
FileChangeByProfile ==
  /\ Receive /\ Respond
  /\ edits' = IF readOnly THEN edits ELSE edits + 1
  /\ UNCHANGED <<turnVars, commandDenied, deniedByFingerprint, accepted, userVars, verdictVars>>

\* A file change is accepted for the session, unless the turn is read-only or a command of it
\* was declined.
FileChange ==
  /\ Receive /\ Respond
  /\ edits' = IF readOnly \/ commandDenied THEN edits ELSE edits + 1
  /\ UNCHANGED <<turnVars, commandDenied, deniedByFingerprint, accepted, userVars, verdictVars>>

-----------------------------------------------------------------------------
(* The end of the turn.                                                    *)

\* emitTerminalEvent: posted, or put into the outbox with an error for the caller.
Emit(verdict) == verdicts' = Append(verdicts, verdict) /\ early' = (early \/ pc = "starting")

\* turn/completed with status completed, in the loop: the hook runs, then the verdict is emitted.
TurnCompleted ==
  /\ Receive /\ pc = "reading" /\ pc' = "completing"
  /\ buffered' = FALSE
  /\ UNCHANGED <<result, ref, commandsDone, earlyFinalize, denialVars, userVars, verdictVars>>

\* The verdict of turn/completed or of an early finalize.
EmitCompleted ==
  /\ pc = "completing"
  /\ Emit("completed")
  /\ Return("ok") \/ Return("unposted")
  /\ UNCHANGED <<readOnly, cli, stopped, messages, turnVars, denialVars, userVars>>

\* turn/completed with another status, or an error notification.
TurnFailed ==
  /\ Receive /\ pc = "reading"
  /\ Emit("failed")
  /\ buffered' = FALSE
  /\ Return("ok") \/ Return("unposted")
  /\ UNCHANGED <<commandsDone, earlyFinalize, denialVars, userVars>>

\* The same messages while turn/start is not answered: the verdict is emitted, after the hook if it
\* is "completed", but request() drops what handleAsyncMessage says about the turn being over.
EarlyVerdict ==
  /\ Receive /\ pc = "starting"
  /\ \E verdict \in {"completed", "failed"} : Emit(verdict)
  /\ buffered' = FALSE
  /\ Continue \/ Return("unposted")
  /\ UNCHANGED <<commandsDone, earlyFinalize, denialVars, userVars>>

\* The stream to the model broke; the CLI says whether it tries again.
StreamDisconnected ==
  /\ Receive
  /\ buffered' = FALSE
  /\ Continue \/ Return("disconnected")
  /\ UNCHANGED <<commandsDone, earlyFinalize, denialVars, userVars, verdictVars>>

\* Mutant: the end of the CLI's output is the end of the turn.
ReadEndsTurn ==
  /\ Running /\ cli = "ended"
  /\ Return("ok")
  /\ UNCHANGED <<readOnly, cli, stopped, messages, turnVars, denialVars, userVars, verdictVars>>

\* The end of the CLI's output, or a line that is too long or no JSON.
ReadFails ==
  /\ Running /\ cli = "ended"
  /\ Return("error")
  /\ UNCHANGED <<readOnly, cli, stopped, messages, turnVars, denialVars, userVars, verdictVars>>

CLIEnds ==
  /\ cli = "up" /\ pc # "returned"
  /\ cli' = "ended"
  /\ UNCHANGED <<callVars, readOnly, stopped, messages, turnVars, denialVars, userVars, verdictVars>>

\* The turn's context is cancelled: SIGTERM for the CLI, SIGKILL ten seconds later.
Stop ==
  /\ ~stopped /\ pc # "returned"
  /\ stopped' = TRUE
  /\ UNCHANGED <<callVars, readOnly, cli, messages, turnVars, denialVars, userVars, verdictVars>>

-----------------------------------------------------------------------------

Open == StartCLI \/ OpenThread \/ SetupFails \/ TurnStarted \/ TurnRefused

Handle ==
  \/ Delta \/ OtherMessage \/ CommandStarted \/ CommandCompleted \/ AgentMessageFails
  \/ \E long \in BOOLEAN : AgentMessage(long)
  \/ \E c \in Commands : AcceptAlone(c) \/ DeclineAlone(c) \/ AskUser(c)
  \/ FileChange \/ TurnCompleted \/ TurnFailed \/ EarlyVerdict \/ StreamDisconnected

Poll == PollApproved \/ PollDenied \/ PollFails

Next ==
  \/ Open \/ Handle \/ Poll \/ FlushDeltas \/ EmitCompleted \/ ReadFails
  \/ CLIEnds \/ Stop \/ \E d \in {"approve", "deny"} : UserAnswers(d)

Spec == Init /\ [][Next]_vars

\* RunTurn goes on when it can; a poll sees a cancelled context and an answer; a stopped CLI ends.
\* The CLI need not answer or send anything, the user need not answer, and a poll need not fail.
Fairness ==
  /\ WF_vars(EmitCompleted)
  /\ WF_vars(ReadFails)
  /\ WF_vars(pc \in {"spawning", "opening"} /\ cli = "ended" /\ SetupFails)
  /\ WF_vars(PollApproved \/ PollDenied)
  /\ WF_vars(stopped /\ PollFails)
  /\ WF_vars(stopped /\ CLIEnds)

FairSpec == Spec /\ Fairness

-----------------------------------------------------------------------------
(* Properties.                                                             *)

\* A command that needs the user's approval is accepted once for each approval the user gave.
GrantedByUser == \A c \in Commands : ~AutoApproved(c) => accepted[c] <= approvals[c]

\* The invariant behind the theorems of CodexTurnProofs.  What the user said is known to the daemon,
\* or is the answer to the question it still asks.
QuestionInv ==
  /\ question # NoCommand => pc \in {"starting", "reading"} /\ ~AutoApproved(question)
  /\ question = NoCommand => answer = "pending"
  /\ deniedByUser # {} => commandDenied \/ answer = "deny"

\* An approval that was not used yet is the answer to the question that is asked.
GrantInv ==
  \A c \in Commands :
    ~AutoApproved(c) => accepted[c] + (IF question = c /\ answer = "approve" THEN 1 ELSE 0) <= approvals[c]

\* Before it returns, and when it returns an error of its own, RunTurn has emitted nothing, unless
\* the CLI was early; the text is sent before the hook runs.
VerdictInv ==
  /\ pc = "returned" <=> result # "none"
  /\ ~early /\ result \in {"none", "error", "disconnected"} => verdicts = <<>>
  /\ pc = "completing" => ~buffered

IInv == DataOK /\ QuestionInv /\ GrantInv /\ VerdictInv

\* Once the user denied a command no file change of the turn is accepted, whether or not the
\* daemon got to see the answer.
DenialStopsEdits == [][edits' # edits => deniedByUser = {}]_vars

\* The text of a turn is sent before its verdict.
TextBeforeVerdict == [][verdicts' # verdicts => ~buffered']_vars

\* What the dispatcher relies on, as long as the CLI answers turn/start before it reports the end.
runnerState ==
  CASE early \/ result \in {"disconnected", "error"} -> "failed"
    [] ~early /\ result = "none" -> IF pc = "completing" THEN "completing" ELSE "running"
    [] ~early /\ result = "ok" -> "returned"
    [] ~early /\ result = "unposted" -> "unposted"

Runner == INSTANCE TurnRunner WITH state <- runnerState,
                                   verdicts <- IF early THEN <<>> ELSE verdicts
ImplementsRunner == Runner!RunnerSpec

\* A turn that is stopped returns, also when the user never answers.
StoppedTurnReturns == stopped ~> pc = "returned"

\* The verdict of an error notification is there "so the user sees the error instead of the turn
\* hanging forever": a turn with a verdict is over.
VerdictEndsTurn == verdicts # <<>> ~> pc = "returned"
===============================================================================
