---------------------------- MODULE TerminalOutbox ----------------------------
(***************************************************************************)
(* How a turn's terminal event reaches the server.  The worker that ends a *)
(* turn posts the event a few times (emitTerminalEvent) and, when all the  *)
(* posts fail, appends it to a JSONL file (enqueuePendingTerminalEvent).   *)
(* One goroutine replays that file at start and then at every tick         *)
(* (drainPendingTerminalEvents): it reads all records, posts each, and     *)
(* replaces the file by the records still refused.  A mutex covers the     *)
(* append and the whole replay.  The process may die at any point; the     *)
(* file survives.                                                          *)
(*                                                                         *)
(* The file is the set of events it holds: a terminal event is appended at *)
(* most once, and no property here is about the order of the records.      *)
(* A send the server never saw leaves no trace.                            *)
(***************************************************************************)
EXTENDS Naturals

CONSTANTS Events,            \* terminal events, one per emitTerminalEvent call
          LongEvents,        \* those whose record, with its last error, exceeds 64 KiB
          TerminalAttempts,  \* terminalEventPostAttempts
          MaxFaults,         \* bound: lost replies, failed rewrites and crashes, together
          MaxTorn            \* bound: appends cut in the middle of the line

ASSUME OutboxAssumption ==
  /\ LongEvents \in SUBSET Events
  /\ TerminalAttempts \in Nat \ {0}
  /\ MaxFaults \in Nat
  /\ MaxTorn \in Nat

VARIABLES
  emitter,   \* program counter of each event's emitTerminalEvent
  attempt,   \* the attempt it is at
  file,      \* events with a record in pending-terminal-events.jsonl
  torn,      \* number of lines of the file that do not decode
  drain,     \* program counter of the replay; the mutex is held unless "idle"
  todo,      \* records read and not posted yet
  kept,      \* records to write back (remaining)
  received,  \* how many times the server accepted each event
  faults     \* faults so far

vars == <<emitter, attempt, file, torn, drain, todo, kept, received, faults>>

InFlight == {"sending", "enqueueing"}
EmitterStates == {"idle", "posted", "queued", "unqueued", "dead"} \cup InFlight

TypeOK ==
  /\ emitter \in [Events -> EmitterStates]
  /\ attempt \in [Events -> 1 .. TerminalAttempts]
  /\ file \in SUBSET Events
  /\ torn \in 0 .. MaxTorn
  /\ drain \in {"idle", "posting"}
  /\ todo \in SUBSET Events
  /\ kept \in SUBSET Events
  /\ received \in [Events -> Nat]
  /\ faults \in 0 .. MaxFaults

Init ==
  /\ emitter = [e \in Events |-> "idle"]
  /\ attempt = [e \in Events |-> 1]
  /\ file = {} /\ torn = 0
  /\ drain = "idle" /\ todo = {} /\ kept = {}
  /\ received = [e \in Events |-> 0]
  /\ faults = 0

-----------------------------------------------------------------------------
outbox == <<file, torn>>
replay == <<drain, todo, kept>>

\* The emitter of e moves on.
Move(e, from, to) == emitter[e] = from /\ emitter' = [emitter EXCEPT ![e] = to]

Accept(e) == received' = [received EXCEPT ![e] = @ + 1]

Fault == faults < MaxFaults /\ faults' = faults + 1

MutexFree == drain = "idle"

-----------------------------------------------------------------------------
(* emitTerminalEvent, one call per event.                                  *)

Emit(e) ==
  /\ Move(e, "idle", "sending")
  /\ UNCHANGED <<attempt, outbox, replay, received, faults>>

\* A post is answered 202.
PostAccepted(e) ==
  /\ Move(e, "sending", "posted")
  /\ Accept(e)
  /\ UNCHANGED <<attempt, outbox, replay, faults>>

\* The server accepts a send whose answer is lost; another send or another attempt follows.
PostUnanswered(e) ==
  /\ emitter[e] = "sending"
  /\ Accept(e)
  /\ Fault
  /\ UNCHANGED <<emitter, attempt, outbox, replay>>

\* An attempt ends in an error and is not the last one.
PostFails(e) ==
  /\ emitter[e] = "sending"
  /\ attempt[e] < TerminalAttempts
  /\ attempt' = [attempt EXCEPT ![e] = @ + 1]
  /\ UNCHANGED <<emitter, outbox, replay, received, faults>>

LastPostFails(e) ==
  /\ Move(e, "sending", "enqueueing")
  /\ attempt[e] = TerminalAttempts
  /\ UNCHANGED <<attempt, outbox, replay, received, faults>>

\* enqueuePendingTerminalEvent appends the record.
Enqueue(e) ==
  /\ MutexFree
  /\ Move(e, "enqueueing", "queued")
  /\ file' = file \cup {e}
  /\ UNCHANGED <<attempt, torn, replay, received, faults>>

\* The append returns an error and wrote nothing; emitTerminalEvent only logs it.
EnqueueFails(e) ==
  /\ MutexFree
  /\ Move(e, "enqueueing", "unqueued")
  /\ UNCHANGED <<attempt, outbox, replay, received, faults>>

\* The append wrote part of the line: the disk is full, or the process dies on it (Crash).
EnqueueTorn(e) ==
  /\ MutexFree
  /\ torn < MaxTorn
  /\ Move(e, "enqueueing", "unqueued")
  /\ torn' = torn + 1
  /\ UNCHANGED <<attempt, file, replay, received, faults>>

-----------------------------------------------------------------------------
(* drainPendingTerminalEvents.                                             *)

\* Every line decodes and fits the scanner's buffer.
Readable == torn = 0 /\ file \cap LongEvents = {}

\* The records are read; a line that does not decode, or a record that is too long for the
\* scanner (ErrTooLong), ends the replay here, every time.
DrainRead ==
  /\ MutexFree
  /\ file # {} /\ Readable
  /\ drain' = "posting" /\ todo' = file /\ kept' = {}
  /\ UNCHANGED <<emitter, attempt, outbox, received, faults>>

\* Mutant: a record that was accepted is written back.
DrainAcceptedKept(e) ==
  /\ e \in todo
  /\ todo' = todo \ {e} /\ kept' = kept \cup {e}
  /\ Accept(e)
  /\ UNCHANGED <<emitter, attempt, outbox, drain, faults>>

DrainAccepted(e) ==
  /\ e \in todo
  /\ todo' = todo \ {e}
  /\ Accept(e)
  /\ UNCHANGED <<emitter, attempt, outbox, drain, kept, faults>>

DrainUnanswered(e) ==
  /\ e \in todo
  /\ Accept(e)
  /\ Fault
  /\ UNCHANGED <<emitter, attempt, outbox, replay>>

\* Mutant: a record that is refused again is not written back.
DrainRefusedDropped(e) ==
  /\ e \in todo
  /\ todo' = todo \ {e}
  /\ UNCHANGED <<emitter, attempt, outbox, drain, kept, received, faults>>

\* postEvent returned an error, or the context is cancelled (shutdown).
DrainRefused(e) ==
  /\ e \in todo
  /\ todo' = todo \ {e} /\ kept' = kept \cup {e}
  /\ UNCHANGED <<emitter, attempt, outbox, drain, received, faults>>

\* The kept records replace the file: a temporary file renamed, or a removal.
DrainRewrite ==
  /\ drain = "posting" /\ todo = {}
  /\ file' = kept
  /\ drain' = "idle" /\ kept' = {}
  /\ UNCHANGED <<emitter, attempt, torn, todo, received, faults>>

\* The rewrite fails before the rename: the file still has the records that were accepted.
DrainRewriteFails ==
  /\ drain = "posting" /\ todo = {}
  /\ Fault
  /\ drain' = "idle" /\ kept' = {}
  /\ UNCHANGED <<emitter, attempt, outbox, todo, received>>

-----------------------------------------------------------------------------
\* The process dies and starts again: calls in flight and the replay are gone.
Crash ==
  /\ Fault
  /\ emitter' = [e \in Events |-> IF emitter[e] \in InFlight THEN "dead" ELSE emitter[e]]
  /\ drain' = "idle" /\ todo' = {} /\ kept' = {}
  /\ UNCHANGED <<attempt, outbox, received>>

PostEvent(e) == PostAccepted(e) \/ PostUnanswered(e) \/ PostFails(e) \/ LastPostFails(e)

EnqueuePending(e) == Enqueue(e) \/ EnqueueFails(e) \/ EnqueueTorn(e)

DrainRecord(e) == DrainAccepted(e) \/ DrainUnanswered(e) \/ DrainRefused(e)

DrainStep == DrainRead \/ DrainRewrite \/ DrainRewriteFails

Next ==
  \/ \E e \in Events : Emit(e) \/ PostEvent(e) \/ EnqueuePending(e) \/ DrainRecord(e)
  \/ DrainStep
  \/ Crash

Spec == Init /\ [][Next]_vars

\* Every call in progress goes on, and the replay goroutine is always there (the daemon is
\* restarted after a crash).  Go's mutex lets nobody starve, so an append that can get it
\* again and again does.  The last conjunct is about the server: it does not refuse for ever
\* an event that is sent again and again.
Fairness ==
  /\ \A e \in Events :
       /\ WF_vars(PostEvent(e))
       /\ SF_vars(EnqueuePending(e))
       /\ WF_vars(DrainAccepted(e) \/ DrainRefused(e))
  /\ WF_vars(DrainRead)
  /\ WF_vars(DrainRewrite)
  /\ \A e \in Events : SF_vars(DrainAccepted(e))

FairSpec == Spec /\ Fairness

-----------------------------------------------------------------------------
(* The inductive invariant.                                                *)

FileInv == \A e \in file : emitter[e] = "queued"

\* The replay works on the records of the file; those it is done with were accepted.
ReplayInv ==
  /\ todo \cup kept \subseteq file
  /\ todo \cap kept = {}
  /\ drain = "idle" => todo = {} /\ kept = {}
  /\ drain = "posting" => \A e \in file \ (todo \cup kept) : received[e] > 0

\* Events that may still be sent.
Due ==
  {e \in Events : emitter[e] \in {"idle"} \cup InFlight}
    \cup (IF drain = "idle" THEN file ELSE todo \cup kept)

CountInv == \A e \in Due : received[e] <= faults

-----------------------------------------------------------------------------
(* Properties.                                                             *)

\* An event whose append succeeded is in the file until the server has accepted it: not even
\* a replay that overlaps appends, fails half-way or dies removes one that was never
\* delivered.
QueuedNotLost == \A e \in Events : emitter[e] = "queued" => e \in file \/ received[e] > 0

\* Retries may deliver an event more than once, but each extra delivery is paid for by a
\* lost reply, a failed rewrite or a crash.
DuplicatesAccounted == \A e \in Events : received[e] <= 1 + faults

IInv == TypeOK /\ FileInv /\ ReplayInv /\ QueuedNotLost /\ CountInv /\ DuplicatesAccounted

\* The outbox keeps the promise of TerminalDelivery: what is on disk is owed, and an event is
\* lost only if it never got there.
DeliveryStatus(e) ==
  IF received[e] > 0 THEN "delivered"
  ELSE IF e \in file THEN "owed"
  ELSE IF emitter[e] \in {"queued", "unqueued", "dead"} THEN "lost" ELSE "new"

Delivery == INSTANCE TerminalDelivery WITH status <- [e \in Events |-> DeliveryStatus(e)]
DeliverySpec == Delivery!Spec

\* A queued event is delivered in the end, whatever replays fail or crash in between, as long
\* as the file can be read: once it holds a line that is cut short, or a record over 64 KiB, no
\* event in it is sent again (readPendingTerminalEventRecords).
QueuedIsDelivered ==
  \A e \in Events : emitter[e] = "queued" ~> received[e] > 0 \/ ~Readable

\* What a log line of handleRunnerDispatch says of a terminal event that could not be posted:
\* it is "already queued for retry", so it is delivered in the end.
\* Not true of the code: see the known deviations in README.md.
EveryQueuedIsDelivered == \A e \in Events : emitter[e] = "queued" ~> received[e] > 0
===============================================================================
