--------------------------- MODULE StreamTurnProofs ---------------------------
(***************************************************************************)
(* What a Gemini or Claude turn leaves behind and promises its dispatcher, *)
(* for any number of events and of turns in the workspace.                 *)
(***************************************************************************)
EXTENDS StreamTurn, TLAPS

USE StreamAssumption

-----------------------------------------------------------------------------
(* The hooks, of this turn or another.                                     *)

\* Installing keeps them in order: a turn that is the first one saves the user's settings.
LEMMA InstallKeepsHooks ==
  ASSUME NEW t \in Turns, saved[t] = Nothing, HooksDataOK, HooksInv, installClaudeWorkspaceHooks(t)
  PROVE  /\ HooksDataOK' /\ HooksInv'
         /\ \A u \in Turns \ {t} : saved'[u] = saved[u]
<1> USE DEF HooksDataOK, installClaudeWorkspaceHooks
<1>1. HooksDataOK'
  BY DEF Settings, Saved
<1>2. /\ \A u \in Turns \ {t} : saved'[u] = saved[u]
      /\ saved'[t] = <<settings.exists, hooked>>
      /\ settings'.had = settings.had /\ settings'.dir
  BY DEF Settings
<1>3. ASSUME ~overlapped'
      PROVE  SettingsRestored' /\ Alone(t)' /\ \A u \in Turns \ {t} : saved'[u] = Nothing
  <2>1. ~overlapped /\ \A u \in Turns : saved[u] = Nothing
    BY <1>3
  <2>2. hooked = {} /\ settings.exists = settings.had
    BY <2>1 DEF HooksInv, SettingsRestored
  <2>3. Alone(t)'
    BY <1>2, <2>2 DEF Alone
  <2>4. saved'[t] # Nothing
    BY <1>2 DEF Nothing
  <2> QED
    BY <1>2, <2>1, <2>3, <2>4 DEF SettingsRestored
<1>4. HooksInv'
  BY <1>2, <1>3 DEF HooksInv
<1> QED
  BY <1>1, <1>2, <1>4

\* The clean-up of a turn that was alone puts the user's settings back.
LEMMA CleanupKeepsHooks ==
  ASSUME NEW t \in Turns, HooksDataOK, HooksInv, cleanupClaudeHooks(t)
  PROVE  /\ HooksDataOK' /\ HooksInv'
         /\ saved'[t] = Nothing
         /\ \A u \in Turns \ {t} : saved'[u] = saved[u]
<1> USE DEF HooksDataOK
<1>1. /\ saved' = [saved EXCEPT ![t] = Nothing] /\ UNCHANGED overlapped
  BY DEF cleanupClaudeHooks
<1>2. saved'[t] = Nothing /\ \A u \in Turns \ {t} : saved'[u] = saved[u]
  BY <1>1
<1>3. settings' \in Settings /\ hooked' \subseteq Turns
  <2>1. saved[t] # Nothing => saved[t][2] \subseteq Turns
    BY DEF Saved, Nothing
  <2> QED
    BY <2>1 DEF cleanupClaudeHooks, Settings
<1>4. HooksDataOK'
  BY <1>1, <1>3 DEF Saved
<1>5. CASE saved[t] = Nothing
  <2>1. UNCHANGED <<settings, hooked, saved, overlapped>>
    BY <1>1, <1>5 DEF cleanupClaudeHooks
  <2> QED
    BY <1>2, <1>4, <2>1 DEF HooksInv, SettingsRestored, Alone
<1>6. CASE saved[t] # Nothing
  <2>1. ASSUME ~overlapped'
        PROVE  SettingsRestored' /\ \A u \in Turns : saved'[u] = Nothing
    <3>1. Alone(t) /\ \A u \in Turns \ {t} : saved[u] = Nothing
      BY <1>1, <1>6, <2>1 DEF HooksInv
    <3>2. saved[t][1] = settings.had /\ saved[t][2] = {} /\ settings.had \in BOOLEAN
      BY <3>1 DEF Alone, Settings
    <3>3. CASE settings.had
      <4>1. settings' = [settings EXCEPT !.exists = TRUE] /\ hooked' = {}
        BY <1>6, <3>1, <3>2, <3>3 DEF cleanupClaudeHooks, Alone
      <4> QED
        BY <1>2, <3>1, <3>3, <4>1 DEF SettingsRestored, Settings
    <3>4. CASE ~settings.had
      <4>1. settings' = [settings EXCEPT !.exists = FALSE, !.dir = settings.shared] /\ hooked' = {}
        BY <1>6, <3>1, <3>2, <3>4 DEF cleanupClaudeHooks, Alone
      <4> QED
        BY <1>2, <3>1, <3>4, <4>1 DEF SettingsRestored, Settings
    <3> QED
      BY <3>2, <3>3, <3>4
  <2> QED
    BY <1>2, <1>4, <2>1 DEF HooksInv
<1> QED
  BY <1>2, <1>4, <1>5, <1>6

\* Where the hooks are left alone their invariants are.
LEMMA KeptHooks ==
  ASSUME UNCHANGED hookVars, HooksDataOK, HooksInv
  PROVE  HooksDataOK' /\ HooksInv'
BY DEF hookVars, HooksDataOK, HooksInv, SettingsRestored, Alone

-----------------------------------------------------------------------------
(* The turn.                                                               *)

\* The initial states satisfy the inductive invariant.
LEMMA StreamInit == Init => IInv
<1> SUFFICES ASSUME Init PROVE IInv
  OBVIOUS
<1>1. HooksDataOK /\ HooksInv /\ saved[Me] = Nothing
  BY DEF Init, HooksInit, HooksDataOK, HooksInv, SettingsRestored, Saved, Settings
<1>2. DataOK
  BY DEF Init, DataOK, Items
<1> QED
  BY <1>1, <1>2 DEF Init, IInv, TextInv, ReplyIsSaid, CompletedAsStreamed, StreamIsEnded

\* An item id the runner uses is one.
LEMMA ItemIds ==
  ASSUME DataOK
  PROVE  /\ ClosingItem \in Items /\ NextIndex \in Nat
         /\ \A i \in Items : UseItem(i) => item' \in Items /\ index' \in Nat
         /\ \A e \in GeminiEvents : GeminiItem(e) \in Items
         /\ Given \subseteq Items /\ None \in Items /\ Fallback(index + 1) \in Items
<1>1. /\ index \in Nat /\ index + 1 \in Nat /\ item \in Items
      /\ Fallback(index + 1) \in Items /\ Given \subseteq Items /\ None \in Items
  BY DEF DataOK, Items, Fallback
<1>2. \A i \in Items : UseItem(i) => item' \in Items /\ index' \in Nat
  BY <1>1 DEF UseItem
<1>3. ASSUME NEW e \in GeminiEvents
      PROVE  GeminiItem(e) \in Items
  <2>1. e.id \in Items
    BY <1>1 DEF GeminiEvents
  <2> QED
    BY <1>1, <2>1 DEF GeminiItem
<1>4. ClosingItem \in Items /\ NextIndex \in Nat
  BY <1>1 DEF ClosingItem, NextIndex
<1> QED
  BY <1>1, <1>2, <1>3, <1>4

\* The events: what was said is in the buffer or out, and what was shown keeps its item.
LEMMA ReadKeepsIInv ==
  ASSUME IInv, Read
  PROVE  IInv'
<1>1. UNCHANGED hookVars /\ pc = "reading" /\ UNCHANGED <<kind, pc, cli, verdicts>>
  BY DEF Read, Event, cliVars, GeminiMessage, GeminiResult, ClaudeDelta, ClaudeSnapshot, ClaudeResult
<1>2. HooksDataOK' /\ HooksInv' /\ StreamIsEnded' /\ (saved'[Me] # Nothing => pc' \in {"setup", "reading", "waiting"})
  BY <1>1, KeptHooks DEF IInv, StreamIsEnded
<1>3. events' \in Nat
  BY DEF IInv, DataOK, Read, Event, GeminiMessage, GeminiResult, ClaudeDelta, ClaudeSnapshot, ClaudeResult
<1> DEFINE TypesOK == /\ item' \in Items /\ index' \in Nat /\ streamed' \in Items
                      /\ closing' \in Items \X Items
           TextOK == TextInv' /\ ReplyIsSaid' /\ CompletedAsStreamed'
<1>4. ASSUME GeminiMessage PROVE TypesOK /\ TextOK
  <2>1. PICK e \in GeminiEvents :
          /\ kind = "gemini" /\ UseItem(GeminiItem(e))
          /\ \/ Append_(GeminiItem(e)) /\ UNCHANGED completed
             \/ /\ answered' = FALSE /\ completed' = TRUE
                /\ UNCHANGED <<streamed, closing>>
    BY <1>4 DEF GeminiMessage, Event
  <2>2. GeminiItem(e) \in Items /\ item' \in Items /\ index' \in Nat /\ item' = GeminiItem(e)
    BY <2>1, ItemIds DEF UseItem, IInv
  <2>3. TypesOK
    BY <2>1, <2>2 DEF Append_, IInv, DataOK
  <2>4. TextOK
    BY <1>1, <2>1, <2>2 DEF Append_, IInv, TextInv, ReplyIsSaid, CompletedAsStreamed
  <2> QED
    BY <2>3, <2>4
<1>5. ASSUME GeminiResult PROVE TypesOK /\ TextOK
  <2>1. TypesOK
    BY <1>5, ItemIds DEF GeminiResult, Close, IInv, DataOK
  <2>2. TextOK
    <3>1. kind = "gemini" /\ UNCHANGED kind /\ item' = item /\ buffered' = FALSE /\ completed' = TRUE
      BY <1>1, <1>5 DEF GeminiResult, Event
    <3>2. CASE completed
      BY <1>5, <3>1, <3>2 DEF GeminiResult, IInv, TextInv, ReplyIsSaid, CompletedAsStreamed
    <3>3. CASE ~completed
      <4>1. closing' = <<streamed, ClosingItem>> /\ (streamed # None => item = streamed)
        BY <1>5, <3>3 DEF GeminiResult, Close, IInv, TextInv
      <4> QED
        BY <3>1, <4>1 DEF ClosingItem, TextInv, ReplyIsSaid, CompletedAsStreamed
    <3> QED
      BY <3>2, <3>3
  <2> QED
    BY <2>1, <2>2
<1>6. ASSUME ClaudeDelta PROVE TypesOK /\ TextOK
  <2>1. TypesOK
    BY <1>6, ItemIds DEF ClaudeDelta, Append_, UseItem, IInv, DataOK
  <2>2. TextOK
    BY <1>1, <1>6 DEF ClaudeDelta, Append_, UseItem, IInv, TextInv, ReplyIsSaid, CompletedAsStreamed
  <2> QED
    BY <2>1, <2>2
<1>7. ASSUME ClaudeSnapshot PROVE TypesOK /\ TextOK
  <2> DEFINE Named(i) == IF item = None THEN i ELSE item
             Id(i) == IF Named(i) # None THEN Named(i) ELSE Fallback(index + 1)
  <2>1. PICK i \in {None} \cup Given :
          /\ UNCHANGED completed
          /\ \/ /\ item' = Named(i)
                /\ UNCHANGED <<index, buffered, streamed, closing, answered>>
             \/ /\ UseItem(Id(i))
                /\ Append_(Id(i)) \/ UNCHANGED <<said, buffered, streamed, closing, answered>>
    BY <1>7 DEF ClaudeSnapshot
  <2>2. i \in Items /\ item \in Items /\ Fallback(index + 1) \in Items
    BY <2>1, ItemIds DEF IInv, DataOK
  <2>3. Named(i) \in Items /\ Id(i) \in Items
    BY <2>2
  <2>4. (item # None => item = Named(i) /\ item = Id(i)) /\ item' \in {Named(i), Id(i)}
    BY <2>1 DEF UseItem
  <2> HIDE DEF Named, Id
  <2>5. TypesOK
    BY <2>1, <2>3, ItemIds DEF Append_, UseItem, IInv, DataOK
  <2>6. TextOK
    BY <1>1, <2>1, <2>4 DEF Append_, UseItem, IInv, TextInv, ReplyIsSaid, CompletedAsStreamed
  <2> QED
    BY <2>5, <2>6
<1>8. ASSUME ClaudeResult PROVE TypesOK /\ TextOK
  <2>1. TypesOK
    BY <1>8, ItemIds DEF ClaudeResult, Close, IInv, DataOK
  <2>2. buffered' = FALSE /\ UNCHANGED <<kind, completed>>
    BY <1>1, <1>8 DEF ClaudeResult
  <2>3. CASE UNCHANGED <<item, streamed, closing>>
    BY <2>1, <2>2, <2>3 DEF IInv, TextInv, ReplyIsSaid, CompletedAsStreamed
  <2>4. CASE item' = None /\ Close
    <3>1. closing' = <<streamed, ClosingItem>> /\ streamed' = None /\ (streamed # None => item = streamed)
      BY <1>8, <2>4 DEF ClaudeResult, Event, Close, IInv, TextInv
    <3> QED
      BY <2>1, <2>2, <3>1 DEF ClosingItem, IInv, TextInv, ReplyIsSaid, CompletedAsStreamed
  <2> QED
    BY <1>8, <2>1, <2>3, <2>4 DEF ClaudeResult
<1>9. TypesOK /\ TextOK
  BY <1>4, <1>5, <1>6, <1>7, <1>8 DEF Read
<1> QED
  BY <1>1, <1>2, <1>3, <1>9 DEF IInv, DataOK

\* Starting the CLI and winding the turn up: the hooks come first and go last.
LEMMA RunKeepsIInv ==
  ASSUME IInv, Begin \/ Process \/ Finish \/ FlushDeltas
  PROVE  IInv'
<1> USE DEF IInv, DataOK, TextInv, ReplyIsSaid, CompletedAsStreamed, StreamIsEnded, Go, textVars, cliVars, Over
<1>1. CASE Setup
  <2>1. saved[Me] = Nothing
    BY <1>1 DEF Setup
  <2>2. HooksDataOK' /\ HooksInv'
    BY <1>1, <2>1, InstallKeepsHooks, KeptHooks DEF Setup, installFails
  <2> QED
    BY <1>1, <2>2 DEF Setup
<1>2. CASE SetupFails \/ StartCLI
  BY <1>2, KeptHooks DEF SetupFails, StartCLI, hookVars
<1>3. CASE StartFails \/ ProcessFailed \/ ParseFailed \/ RunBeforeComplete
  <2>1. cleanupClaudeHooks(Me)
    BY <1>3 DEF StartFails, ProcessFailed, ParseFailed, RunBeforeComplete
  <2>2. HooksDataOK' /\ HooksInv' /\ saved'[Me] = Nothing
    BY <2>1, CleanupKeepsHooks
  <2>3. CASE ProcessFailed \/ RunBeforeComplete
    <3>1. open' = (open /\ stopped)
      BY <2>3 DEF ProcessFailed, RunBeforeComplete, EndStream
    <3>2. open' \in BOOLEAN
      BY <3>1, Zenon
    <3>3. StreamIsEnded'
      BY <1>3, <2>3, <3>1 DEF ProcessFailed, RunBeforeComplete
    <3> QED
      BY <2>2, <2>3, <3>2, <3>3 DEF ProcessFailed, RunBeforeComplete
  <2> QED
    BY <1>3, <2>2, <2>3 DEF StartFails, ParseFailed
<1>4. CASE CLIExits \/ LineTooLong \/ ErrorLineTooLong \/ Stop \/ Kill
  BY <1>4, KeptHooks DEF CLIExits, LineTooLong, ErrorLineTooLong, Stop, Kill, hookVars
<1>5. CASE EndOfOutput \/ FlushDeltas
  BY <1>5, KeptHooks DEF EndOfOutput, FlushDeltas, hookVars
<1>6. CASE EmitCompleted
  BY <1>6, KeptHooks DEF EmitCompleted, hookVars
<1> QED
  BY <1>1, <1>2, <1>3, <1>4, <1>5, <1>6 DEF Begin, Process, Finish

\* Every step keeps the inductive invariant.
LEMMA StreamStep == IInv /\ [Next]_vars => IInv'
<1> SUFFICES ASSUME IInv, [Next]_vars PROVE IInv'
  OBVIOUS
<1>1. ASSUME NEW t \in Turns \ {Me}, OtherTurn(t)
      PROVE  IInv'
  <2>1. HooksDataOK' /\ HooksInv' /\ saved'[Me] = saved[Me]
    BY <1>1, InstallKeepsHooks, CleanupKeepsHooks DEF OtherTurn, IInv
  <2> QED
    BY <1>1, <2>1 DEF OtherTurn, IInv, DataOK, TextInv, ReplyIsSaid, CompletedAsStreamed, StreamIsEnded,
       textVars, cliVars
<1>2. CASE UNCHANGED vars
  BY <1>2, KeptHooks DEF vars, hookVars, IInv, DataOK, TextInv, ReplyIsSaid, CompletedAsStreamed,
     StreamIsEnded, textVars, cliVars
<1> QED
  BY <1>1, <1>2, ReadKeepsIInv, RunKeepsIInv DEF Next

\* A turn is always in a state of the inductive invariant.
THEOREM StreamInvariant == Spec => []IInv
BY StreamInit, StreamStep, PTL DEF Spec

\* After a result nothing of what the assistant said is left in the buffer.
THEOREM ReplyIsSent == Spec => []ReplyIsSaid
<1>1. IInv => ReplyIsSaid
  BY DEF IInv
<1> QED
  BY <1>1, StreamInvariant, PTL

\* Whatever ids the CLI gives, and when, a result completes the item the deltas were shown under.
THEOREM CompletedOnce == Spec => []CompletedAsStreamed
<1>1. IInv => CompletedAsStreamed
  BY DEF IInv
<1> QED
  BY <1>1, StreamInvariant, PTL

\* A stream that was announced is ended on every way out (emitAssistantStreamEnded), but for an
\* unreadable output and a turn that was stopped, whose context no longer lets a post through.
THEOREM StreamEnds == Spec => []StreamIsEnded
<1>1. IInv => StreamIsEnded
  BY DEF IInv
<1> QED
  BY <1>1, StreamInvariant, PTL

\* Of any number of turns in a workspace, each puts the user's settings back while no two overlap.
THEOREM LoneTurnsCleanUp == Spec => []LoneTurnCleansUp
<1>1. IInv => LoneTurnCleansUp
  <2> SUFFICES ASSUME IInv, ~overlapped
               PROVE  SettingsRestored /\ (Me \in hooked => pc \in {"setup", "reading", "waiting"})
    BY DEF LoneTurnCleansUp
  <2>1. SettingsRestored
    BY DEF IInv, HooksInv
  <2>2. ASSUME Me \in hooked
        PROVE  saved[Me] # Nothing
    <3>1. PICK t \in Turns : saved[t] # Nothing
      BY <2>1, <2>2 DEF SettingsRestored
    <3>2. hooked = {t}
      BY <3>1 DEF IInv, HooksInv, Alone
    <3> QED
      BY <2>2, <3>1, <3>2
  <2> QED
    BY <2>1, <2>2 DEF IInv
<1> QED
  BY <1>1, StreamInvariant, PTL

\* Every step is a step of the abstract runner or a stutter.
LEMMA RunnerStep ==
  ASSUME [Next]_vars
  PROVE  [Runner!RunnerNext]_(Runner!runnerVars)
<1> USE DEF Runner!runnerVars, runnerState, Go, Over
<1>1. CASE Read \/ FlushDeltas \/ Process \/ (\E t \in Turns \ {Me} : OtherTurn(t)) \/ UNCHANGED vars
  <2>1. UNCHANGED verdicts /\ (UNCHANGED pc \/ (pc = "reading" /\ pc' = "waiting"))
    BY <1>1 DEF Read, Event, GeminiMessage, GeminiResult, ClaudeDelta, ClaudeSnapshot, ClaudeResult, FlushDeltas,
       Process, CLIExits, LineTooLong, ErrorLineTooLong, Stop, Kill, OtherTurn, vars
  <2> QED
    BY <2>1
<1>2. CASE Begin
  BY <1>2 DEF Begin, Setup, SetupFails, StartCLI, StartFails, Runner!RunnerNext, Runner!Fail
<1>3. CASE Finish
  BY <1>3 DEF Finish, EndOfOutput, ProcessFailed, ParseFailed, RunBeforeComplete, EmitCompleted,
     Runner!RunnerNext, Runner!Fail, Runner!RunHook, Runner!Report
<1> QED
  BY <1>1, <1>2, <1>3 DEF Next

\* A Gemini or Claude turn keeps the runner's promise to the dispatcher.
THEOREM StreamImplementsRunner == Spec => ImplementsRunner
<1>1. Init => Runner!RunnerInit
  BY DEF Init, Runner!RunnerInit, runnerState
<1> QED
  BY <1>1, RunnerStep, PTL DEF ImplementsRunner, Runner!RunnerSpec, Spec
===============================================================================
