------------------------------ MODULE EventBuffer ------------------------------
(***************************************************************************)
(* The assistant.delta events of one turn: the runner appends the text its *)
(* CLI streams to a buffer (runner_buffer.go) that is flushed by a timer,  *)
(* when it is full, when the text of another item begins, and by the       *)
(* runner itself before it reports an item or the turn as completed.       *)
(*                                                                         *)
(* All flushes but the runner's own are goroutines: they take the buffer's *)
(* text under its mutex and post it after unlocking, so several posts are  *)
(* in flight at once and reach the server in any order.                    *)
(*                                                                         *)
(* A chunk of text is the number of its Append; the text of the buffer and *)
(* of a post is a set of chunks, in the order of their numbers.  All       *)
(* chunks have the same length.                                            *)
(***************************************************************************)
EXTENDS Naturals, FiniteSets

CONSTANTS MaxChunks,   \* bound: chunks the CLI streams in the turn
          MaxItems,    \* bound: items it streams them for
          FullAt       \* chunks that make up the 100 bytes at which the buffer is full

ASSUME BufferAssumption ==
  MaxChunks \in Nat /\ MaxItems \in Nat \ {0} /\ FullAt \in Nat \ {0}

Chunks == 1 .. MaxChunks
Items == 1 .. MaxItems
NoItem == 0

VARIABLES
  chunks,    \* number of chunks appended so far
  owner,     \* the item each chunk belongs to
  item,      \* the item the CLI is streaming
  text,      \* eb.builder
  label,     \* eb.itemID
  timer,     \* eb.timer is running
  flushers,  \* number of goroutines that were started to flush and have not taken the text yet
  closed,    \* eb.closed
  posts,     \* the assistant.delta events that are being posted
  runner,    \* where the runner is
  ending,    \* the runner flushes because the turn, not an item, is completed
  own,       \* the text of the runner's own flush
  shown,     \* chunks the server has received
  lost,      \* chunks of posts that failed
  completed  \* items whose assistant.message.completed the server has received

buffer == <<text, label>>
stream == <<chunks, owner, item>>
server == <<shown, lost, completed>>
vars == <<stream, buffer, timer, flushers, closed, posts, runner, ending, own, server>>

Posts == [label : Items, text : (SUBSET Chunks) \ {{}}]

TypeOK ==
  /\ chunks \in 0 .. MaxChunks
  /\ owner \in [Chunks -> Items \cup {NoItem}]
  /\ item \in Items
  /\ text \in SUBSET Chunks
  /\ label \in Items \cup {NoItem}
  /\ timer \in BOOLEAN
  /\ flushers \in Nat
  /\ closed \in BOOLEAN
  /\ posts \in SUBSET Posts
  /\ runner \in {"reading", "flushing", "posting", "reporting", "over"}
  /\ ending \in BOOLEAN
  /\ own \in SUBSET Chunks
  /\ shown \in SUBSET Chunks
  /\ lost \in SUBSET Chunks
  /\ completed \in SUBSET Items

Init ==
  /\ chunks = 0 /\ owner = [n \in Chunks |-> NoItem] /\ item = 1
  /\ text = {} /\ label = NoItem
  /\ timer = FALSE /\ flushers = 0 /\ closed = FALSE
  /\ posts = {}
  /\ runner = "reading" /\ ending = FALSE /\ own = {}
  /\ shown = {} /\ lost = {} /\ completed = {}

-----------------------------------------------------------------------------
(* Append and the flushes it starts.                                       *)

Write(i) ==
  /\ chunks' = chunks + 1
  /\ owner' = [owner EXCEPT ![chunks + 1] = i]
  /\ item' = i
  /\ text' = text \cup {chunks + 1}

OtherItem(i) == text # {} /\ label # NoItem /\ label # i
Full == Cardinality(text) + 1 >= FullAt

\* Mutant: whether the buffer is empty is looked up after the text was written.
ScheduleAfterWrite(i) ==
  /\ timer' = (timer /\ ~OtherItem(i) /\ ~Full)
  /\ flushers' = flushers + (IF OtherItem(i) THEN 1 ELSE 0) + (IF Full THEN 1 ELSE 0)

\* The timer is started for the first text, and stopped when a flush is started instead.
Schedule(i) ==
  /\ timer' = (text = {} \/ (timer /\ ~OtherItem(i) /\ ~Full))
  /\ flushers' = flushers + (IF OtherItem(i) THEN 1 ELSE 0) + (IF text # {} /\ Full THEN 1 ELSE 0)

\* The runner reads a delta of the current item, unless that is completed, or of the next.
Append(i) ==
  /\ runner = "reading" /\ chunks < MaxChunks
  /\ i \in ({item, item + 1} \cap Items) \ completed
  /\ Write(i)
  /\ label' = i
  /\ Schedule(i)
  /\ UNCHANGED <<closed, posts, runner, ending, own, server>>

TimerFires ==
  /\ timer
  /\ timer' = FALSE
  /\ flushers' = flushers + 1
  /\ UNCHANGED <<stream, buffer, closed, posts, runner, ending, own, server>>

\* Mutant: the text is posted and stays in the buffer.
TakeKeepsText ==
  /\ text' = text /\ label' = NoItem
  /\ posts' = IF text = {} THEN posts ELSE posts \cup {[label |-> label, text |-> text]}

\* doFlush takes the text under the mutex and goes on to post it, unless there is none.
Take ==
  /\ text' = {} /\ label' = NoItem
  /\ posts' = IF text = {} THEN posts ELSE posts \cup {[label |-> label, text |-> text]}

\* A flush goroutine runs; closing the buffer does not stop it.
FlushRuns ==
  /\ flushers > 0
  /\ flushers' = flushers - 1
  /\ Take
  /\ UNCHANGED <<stream, timer, closed, runner, ending, own, server>>

-----------------------------------------------------------------------------
(* postEvent for one assistant.delta: the server gets it once or more, or  *)
(* never.                                                                  *)

PostAccepted(p) ==
  /\ shown' = shown \cup p.text
  /\ posts' = posts \ {p}
  /\ UNCHANGED <<stream, buffer, timer, flushers, closed, runner, ending, own, lost, completed>>

PostUnanswered(p) ==
  /\ shown' = shown \cup p.text
  /\ UNCHANGED <<stream, buffer, timer, flushers, closed, posts, runner, ending, own, lost, completed>>

\* Three attempts or five seconds are over: the error is logged and remembered.
PostFails(p) ==
  /\ lost' = lost \cup p.text
  /\ posts' = posts \ {p}
  /\ UNCHANGED <<stream, buffer, timer, flushers, closed, runner, ending, own, shown, completed>>

-----------------------------------------------------------------------------
(* The runner.                                                             *)

\* Mutant: an item is reported as completed without a flush.
BeginFlushForTurnOnly(last) ==
  /\ runner = "reading"
  /\ last \/ (chunks > 0 /\ item \notin completed)
  /\ IF last THEN runner' = "flushing" /\ timer' = FALSE
             ELSE runner' = "reporting" /\ UNCHANGED timer
  /\ ending' = last
  /\ UNCHANGED <<stream, buffer, flushers, closed, posts, own, server>>

\* The CLI completes an item, or the turn: Flush stops the timer ...
BeginFlush(last) ==
  /\ runner = "reading"
  /\ last \/ (chunks > 0 /\ item \notin completed)
  /\ timer' = FALSE
  /\ runner' = "flushing"
  /\ ending' = last
  /\ UNCHANGED <<stream, buffer, flushers, closed, posts, own, server>>

\* ... and flushes on the runner's own goroutine ...
OwnFlush ==
  /\ runner = "flushing"
  /\ Take
  /\ own' = text
  /\ runner' = "posting"
  /\ UNCHANGED <<stream, timer, flushers, closed, ending, server>>

\* ... until its post has returned.
OwnFlushDone ==
  /\ runner = "posting"
  /\ \A p \in posts : p.text # own
  /\ own' = {}
  /\ runner' = "reporting"
  /\ UNCHANGED <<stream, buffer, timer, flushers, closed, posts, ending, server>>

Close ==
  /\ runner' = "over"
  /\ closed' = TRUE
  /\ timer' = FALSE

\* assistant.message.completed is accepted and the runner reads on.
ReportItem ==
  /\ runner = "reporting" /\ ~ending
  /\ completed' = completed \cup {item}
  /\ runner' = "reading"
  /\ UNCHANGED <<stream, buffer, timer, flushers, closed, posts, ending, own, shown, lost>>

\* It is refused, or accepted and the answer lost: RunTurn returns the error.
ReportItemFails ==
  /\ runner = "reporting" /\ ~ending
  /\ completed' = completed \/ completed' = completed \cup {item}
  /\ Close
  /\ UNCHANGED <<stream, buffer, flushers, posts, ending, own, shown, lost>>

\* The turn's terminal event is emitted and RunTurn returns.
ReportTurn ==
  /\ runner = "reporting" /\ ending
  /\ Close
  /\ UNCHANGED <<stream, buffer, flushers, posts, ending, own, server>>

\* RunTurn returns an error: its deferred Close does not flush.
TurnFails ==
  /\ runner = "reading"
  /\ Close
  /\ UNCHANGED <<stream, buffer, flushers, posts, ending, own, server>>

Post(p) == PostAccepted(p) \/ PostUnanswered(p) \/ PostFails(p)

Runner ==
  \/ \E i \in Items : Append(i)
  \/ \E last \in BOOLEAN : BeginFlush(last)
  \/ OwnFlush \/ OwnFlushDone \/ ReportItem \/ ReportItemFails \/ ReportTurn \/ TurnFails

Next == Runner \/ TimerFires \/ FlushRuns \/ \E p \in posts : Post(p)

Spec == Init /\ [][Next]_vars

\* Timers fire, goroutines run and posts return (they have a timeout).  Nothing makes the CLI
\* stream on, complete an item or end its turn.
Fairness ==
  /\ WF_vars(TimerFires)
  /\ WF_vars(FlushRuns)
  /\ \A p \in Posts : WF_vars(p \in posts /\ (PostAccepted(p) \/ PostFails(p)))
  /\ WF_vars(OwnFlush) /\ WF_vars(OwnFlushDone)
  /\ WF_vars(ReportItem \/ ReportItemFails \/ ReportTurn)

FairSpec == Spec /\ Fairness

-----------------------------------------------------------------------------
(* Properties.                                                             *)

\* Text in an open buffer always has a flush coming: the timer runs, a flush goroutine is on
\* its way or the runner is about to flush.  No order of appends, timer and flushes strands it.
NothingStranded ==
  ~closed /\ text # {} => timer \/ flushers > 0 \/ runner = "flushing"

\* Concurrent flushes neither drop nor repeat text: every chunk that was appended is in the
\* buffer, in one post, received, or lost with a failed post.
ChunksAccountedFor ==
  /\ \A n \in Chunks :
       n <= chunks <=> n \in text \cup shown \cup lost \/ \E p \in posts : n \in p.text
  /\ text \cap (shown \cup lost) = {}
  /\ \A p \in posts : text \cap p.text = {}
  /\ \A p, q \in posts : p # q => p.text \cap q.text = {}

\* The item id of the buffer and of every post is the item of its newest text.
Newest(n, s) == n \in s /\ \A k \in s : k <= n
LabelledByNewest ==
  \A n \in Chunks :
    /\ Newest(n, text) => label = owner[n]
    /\ \A p \in posts : Newest(n, p.text) => p.label = owner[n]

\* When an item is reported as completed, nothing of it is left in the buffer: the text that
\* can still arrive late is in posts that were started before.
CompletedIsFlushed == \A n \in text : owner[n] \notin completed

\* The inductive invariant: between the runner's flush and its report the buffer is empty, and
\* text in it always has an item.
FlushedInv ==
  /\ runner \in {"posting", "reporting"} => text = {}
  /\ text # {} => label # NoItem

IInv ==
  /\ TypeOK /\ FlushedInv
  /\ NothingStranded /\ ChunksAccountedFor /\ LabelledByNewest /\ CompletedIsFlushed

\* What the comment in handleItemCompleted says of the flush before the completed text: it
\* "avoids late assistant.delta events".
\* Not true of the code: see the known deviations in README.md.
NoLateDelta == [][\A n \in shown' \ shown : owner[n] \notin completed]_vars
===============================================================================
