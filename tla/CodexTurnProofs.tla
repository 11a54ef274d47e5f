--------------------------- MODULE CodexTurnProofs ---------------------------
(***************************************************************************)
(* What a Codex turn promises its user and its dispatcher, for any set of  *)
(* commands and any number of messages.                                    *)
(***************************************************************************)
EXTENDS CodexTurn, TLAPS

USE CodexAssumption

Verdicts == {"completed", "failed"}

\* The initial states satisfy the inductive invariant.
LEMMA CodexInit == Init => IInv
BY DEF Init, IInv, DataOK, QuestionInv, GrantInv, VerdictInv

\* A verdict is appended to a sequence of verdicts.
LEMMA EmitType ==
  ASSUME DataOK, NEW v \in Verdicts, Emit(v)
  PROVE  verdicts' \in Seq(Verdicts)
BY DEF DataOK, Emit, Verdicts

\* Opening the conversation touches neither the user's part nor the verdicts.
LEMMA OpenKeepsIInv ==
  ASSUME IInv, Open
  PROVE  IInv'
<1> USE DEF IInv, DataOK, QuestionInv, GrantInv, VerdictInv, AutoApproved, RiskLevels,
       turnVars, denialVars, userVars, callVars, verdictVars, Return, Running
<1>1. CASE StartCLI
  BY <1>1 DEF StartCLI
<1>2. CASE OpenThread
  BY <1>2 DEF OpenThread
<1>3. CASE SetupFails
  BY <1>3 DEF SetupFails
<1>4. CASE TurnStarted
  BY <1>4 DEF TurnStarted
<1>5. CASE TurnRefused
  BY <1>5 DEF TurnRefused
<1> QED
  BY <1>1, <1>2, <1>3, <1>4, <1>5 DEF Open

\* A message that is handled lets the turn go on, end it, or finalize it.
LEMMA MessageKeepsIInv ==
  ASSUME IInv,
         \/ Delta \/ OtherMessage \/ CommandStarted \/ CommandCompleted \/ AgentMessageFails
         \/ \E long \in BOOLEAN : AgentMessage(long)
         \/ FileChange \/ StreamDisconnected
  PROVE  IInv'
<1> USE DEF IInv, DataOK, QuestionInv, GrantInv, VerdictInv, AutoApproved, RiskLevels,
       turnVars, denialVars, userVars, callVars, verdictVars, Return, Running, Receive, Continue, Stay,
       Respond
<1>1. CASE Delta
  BY <1>1 DEF Delta
<1>2. CASE OtherMessage
  BY <1>2 DEF OtherMessage
<1>3. CASE CommandStarted
  BY <1>3 DEF CommandStarted
<1>4. CASE CommandCompleted
  BY <1>4 DEF CommandCompleted
<1>5. CASE AgentMessageFails
  BY <1>5 DEF AgentMessageFails
<1>6. ASSUME NEW long \in BOOLEAN, AgentMessage(long)
      PROVE  IInv'
  BY <1>6 DEF AgentMessage, EarlyFinalize
<1>7. CASE FileChange
  BY <1>7 DEF FileChange
<1>8. CASE StreamDisconnected
  BY <1>8 DEF StreamDisconnected
<1> QED
  BY <1>1, <1>2, <1>3, <1>4, <1>5, <1>6, <1>7, <1>8

\* A command is accepted without a question only if it needs none.
LEMMA ApprovalKeepsIInv ==
  ASSUME IInv,
         \/ \E c \in Commands : AcceptAlone(c) \/ DeclineAlone(c) \/ AskUser(c)
         \/ Poll
         \/ \E d \in {"approve", "deny"} : UserAnswers(d)
  PROVE  IInv'
<1> USE DEF IInv, DataOK, QuestionInv, GrantInv, VerdictInv, AutoApproved, RiskLevels,
       turnVars, denialVars, userVars, callVars, verdictVars, Return, Running, Receive, Continue, Stay,
       Respond, Accept, Decline
<1>1. ASSUME NEW c \in Commands, AcceptAlone(c)
      PROVE  IInv'
  BY <1>1 DEF AcceptAlone
<1>2. ASSUME NEW c \in Commands, DeclineAlone(c)
      PROVE  IInv'
  BY <1>2 DEF DeclineAlone
<1>3. ASSUME NEW c \in Commands, AskUser(c)
      PROVE  IInv'
  BY <1>3 DEF AskUser
<1>4. CASE PollApproved
  BY <1>4 DEF PollApproved
<1>5. CASE PollDenied
  BY <1>5 DEF PollDenied
<1>6. CASE PollFails
  BY <1>6 DEF PollFails
<1>7. ASSUME NEW d \in {"approve", "deny"}, UserAnswers(d)
      PROVE  IInv'
  BY <1>7 DEF UserAnswers
<1> QED
  BY <1>1, <1>2, <1>3, <1>4, <1>5, <1>6, <1>7 DEF Poll

\* The end of the turn, and what goes on around RunTurn.
LEMMA EndKeepsIInv ==
  ASSUME IInv,
         \/ TurnCompleted \/ TurnFailed \/ EarlyVerdict \/ EmitCompleted
         \/ FlushDeltas \/ ReadFails \/ CLIEnds \/ Stop \/ UNCHANGED vars
  PROVE  IInv'
<1> USE DEF IInv, DataOK, QuestionInv, GrantInv, VerdictInv, AutoApproved, RiskLevels,
       turnVars, denialVars, userVars, callVars, verdictVars, Return, Running, Receive, Continue, Stay
<1>1. CASE TurnCompleted
  BY <1>1 DEF TurnCompleted
<1>2. CASE TurnFailed
  BY <1>2, EmitType DEF TurnFailed, Emit, Verdicts
<1>3. CASE EarlyVerdict
  <2>1. PICK v \in Verdicts : Emit(v)
    BY <1>3 DEF EarlyVerdict, Verdicts
  <2>2. verdicts' \in Seq(Verdicts)
    BY <2>1, EmitType
  <2> QED
    <3>1. early' /\ pc = "starting" /\ question = NoCommand
      BY <1>3, <2>1 DEF EarlyVerdict, Emit
    <3> QED
      BY <1>3, <2>2, <3>1 DEF EarlyVerdict, Verdicts
<1>4. CASE EmitCompleted
  BY <1>4, EmitType DEF EmitCompleted, Emit, Verdicts
<1>5. CASE FlushDeltas
  BY <1>5 DEF FlushDeltas
<1>6. CASE ReadFails
  BY <1>6 DEF ReadFails
<1>7. CASE CLIEnds
  BY <1>7 DEF CLIEnds
<1>8. CASE Stop
  BY <1>8 DEF Stop
<1>9. CASE UNCHANGED vars
  BY <1>9 DEF vars
<1> QED
  BY <1>1, <1>2, <1>3, <1>4, <1>5, <1>6, <1>7, <1>8, <1>9

\* Every step keeps the inductive invariant.
LEMMA CodexStep == IInv /\ [Next]_vars => IInv'
BY OpenKeepsIInv, MessageKeepsIInv, ApprovalKeepsIInv, EndKeepsIInv DEF Next, Handle

\* A Codex turn is always in a state of the inductive invariant.
THEOREM CodexInvariant == Spec => []IInv
BY CodexInit, CodexStep, PTL DEF Spec

\* No command that needs the user's approval is accepted more often than the user approved it.
THEOREM ApprovalsAreSpent == Spec => []GrantedByUser
<1>1. IInv => GrantedByUser
  BY DEF IInv, DataOK, GrantInv, GrantedByUser
<1> QED
  BY <1>1, CodexInvariant, PTL

\* No file change is accepted once the user denied a command: the denial was seen, or the turn is
\* still busy with the question.
THEOREM DenialStopsEditing == Spec => DenialStopsEdits
<1>1. IInv /\ [Next]_vars => [edits' # edits => deniedByUser = {}]_vars
  <2> SUFFICES ASSUME IInv, Next, edits' # edits PROVE deniedByUser = {}
    OBVIOUS
  <2>1. FileChange
    BY DEF Next, Open, Handle, Poll, StartCLI, OpenThread, SetupFails, TurnStarted, TurnRefused, Delta,
       OtherMessage, CommandStarted, CommandCompleted, AgentMessage, AgentMessageFails, AcceptAlone,
       DeclineAlone, AskUser, Accept, Decline, TurnCompleted, TurnFailed, EarlyVerdict,
       StreamDisconnected, PollApproved, PollDenied, PollFails, FlushDeltas, EmitCompleted, ReadFails,
       CLIEnds, Stop, UserAnswers, denialVars
  <2> QED
    BY <2>1 DEF FileChange, Receive, Running, IInv, QuestionInv
<1> QED
  BY <1>1, CodexInvariant, PTL DEF DenialStopsEdits, Spec

\* The buffer is empty when a verdict is emitted.
THEOREM TextComesFirst == Spec => TextBeforeVerdict
<1>1. IInv /\ [Next]_vars => [verdicts' # verdicts => ~buffered']_vars
  <2> SUFFICES ASSUME IInv, Next, verdicts' # verdicts PROVE ~buffered'
    OBVIOUS
  <2>1. TurnFailed \/ EarlyVerdict \/ EmitCompleted
    BY DEF Next, Open, Handle, Poll, StartCLI, OpenThread, SetupFails, TurnStarted, TurnRefused, Delta,
       OtherMessage, CommandStarted, CommandCompleted, AgentMessage, AgentMessageFails, AcceptAlone,
       DeclineAlone, AskUser, FileChange, TurnCompleted, StreamDisconnected, PollApproved, PollDenied,
       PollFails, FlushDeltas, ReadFails, CLIEnds, Stop, UserAnswers, verdictVars
  <2> QED
    BY <2>1 DEF TurnFailed, EarlyVerdict, EmitCompleted, IInv, VerdictInv, turnVars
<1> QED
  BY <1>1, CodexInvariant, PTL DEF TextBeforeVerdict, Spec

\* A step that ends nothing is a stutter of the abstract runner.
LEMMA QuietStep ==
  ASSUME UNCHANGED <<result, early, verdicts>>, pc = "completing" <=> pc' = "completing"
  PROVE  UNCHANGED <<runnerState, IF early THEN <<>> ELSE verdicts>>
BY DEF runnerState

\* A step that returns an error without a verdict is the abstract runner's failure, or a stutter
\* once the CLI was early.
LEMMA FailStep ==
  ASSUME IInv, Running, UNCHANGED <<early, verdicts>>, pc' = "returned",
         result' \in {"error", "disconnected"}
  PROVE  Runner!Fail \/ UNCHANGED <<runnerState, IF early THEN <<>> ELSE verdicts>>
BY DEF runnerState, Runner!Fail, IInv, VerdictInv, DataOK, Running

\* Every step of a Codex turn is a step of the abstract runner or a stutter.
LEMMA RunnerStep ==
  ASSUME IInv, [Next]_vars
  PROVE  [Runner!RunnerNext]_(Runner!runnerVars)
<1> USE DEF Runner!runnerVars, Runner!RunnerNext, IInv, VerdictInv, turnVars, denialVars, userVars,
       callVars, verdictVars, Return, Running, Receive, Continue, Stay, Respond
<1>1. CASE Open
  <2>1. CASE StartCLI \/ OpenThread
    BY <2>1, QuietStep DEF StartCLI, OpenThread
  <2>2. CASE SetupFails \/ TurnRefused
    BY <2>2 DEF SetupFails, TurnRefused, runnerState, Runner!Fail
  <2>3. CASE TurnStarted
    <3>1. /\ UNCHANGED <<result, early, verdicts>>
          /\ result = "none" /\ pc = "starting" /\ pc' \in {"completing", "reading"}
      BY <2>3 DEF TurnStarted
    <3> QED
      BY <3>1 DEF runnerState, Runner!RunHook
  <2> QED
    BY <1>1, <2>1, <2>2, <2>3 DEF Open
<1>2. CASE Delta \/ OtherMessage \/ CommandStarted \/ CommandCompleted \/ AgentMessageFails
           \/ FileChange \/ StreamDisconnected
  <2>1. /\ UNCHANGED <<early, verdicts>>
        /\ \/ UNCHANGED <<pc, result>>
           \/ pc' = "returned" /\ result' \in {"error", "disconnected"}
    BY <1>2 DEF Delta, OtherMessage, CommandStarted, CommandCompleted, AgentMessageFails, FileChange,
       StreamDisconnected
  <2>2. Running
    BY <1>2 DEF Delta, OtherMessage, CommandStarted, CommandCompleted, AgentMessageFails, FileChange,
       StreamDisconnected
  <2> QED
    BY <2>1, <2>2, QuietStep, FailStep
<1>3. ASSUME NEW long \in BOOLEAN, AgentMessage(long)
      PROVE  [Runner!RunnerNext]_(Runner!runnerVars)
  <2>1. CASE UNCHANGED <<pc, result>>
    BY <1>3, <2>1, QuietStep DEF AgentMessage
  <2>2. CASE pc' = "completing"
    BY <1>3, <2>2 DEF AgentMessage, runnerState, Runner!RunHook
  <2>3. CASE pc' = "returned"
    BY <1>3, <2>3, FailStep DEF AgentMessage
  <2> QED
    BY <1>3, <2>1, <2>2, <2>3 DEF AgentMessage
<1>4. ASSUME NEW c \in Commands, AcceptAlone(c) \/ DeclineAlone(c) \/ AskUser(c)
      PROVE  [Runner!RunnerNext]_(Runner!runnerVars)
  BY <1>4, QuietStep, FailStep DEF AcceptAlone, DeclineAlone, AskUser, Accept, Decline
<1>5. CASE Poll
  <2>1. pc \in {"starting", "reading"}
    BY <1>5 DEF Poll, PollApproved, PollDenied, PollFails, QuestionInv
  <2> QED
    BY <1>5, <2>1, QuietStep DEF Poll, PollApproved, PollDenied, PollFails, Accept, Decline, runnerState,
       Runner!Fail
<1>6. CASE TurnCompleted
  BY <1>6 DEF TurnCompleted, runnerState, Runner!RunHook
<1>7. CASE TurnFailed
  BY <1>7 DEF TurnFailed, Emit, runnerState, Runner!Report
<1>8. CASE EarlyVerdict
  BY <1>8 DEF EarlyVerdict, Emit, runnerState, Runner!Fail
<1>9. CASE EmitCompleted
  BY <1>9 DEF EmitCompleted, Emit, runnerState, Runner!Report
<1>10. CASE ReadFails
  BY <1>10, FailStep DEF ReadFails
<1>11. CASE \/ FlushDeltas \/ CLIEnds \/ Stop \/ UNCHANGED vars
            \/ \E d \in {"approve", "deny"} : UserAnswers(d)
  BY <1>11, QuietStep DEF FlushDeltas, CLIEnds, Stop, UserAnswers, vars
<1> QED
  BY <1>1, <1>2, <1>3, <1>4, <1>5, <1>6, <1>7, <1>8, <1>9, <1>10, <1>11 DEF Next, Handle

\* A Codex turn keeps the runner's promise to the dispatcher: the hook once and before a completed
\* verdict, one verdict, and none with an error, unless the CLI reports the end of a turn it has not
\* yet agreed to start.
THEOREM CodexImplementsRunner == Spec => ImplementsRunner
<1>1. Init => Runner!RunnerInit
  BY DEF Init, Runner!RunnerInit, runnerState
<1> QED
  BY <1>1, RunnerStep, CodexInvariant, PTL DEF ImplementsRunner, Runner!RunnerSpec, Spec
===============================================================================
