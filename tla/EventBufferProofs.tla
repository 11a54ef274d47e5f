--------------------------- MODULE EventBufferProofs ---------------------------
(***************************************************************************)
(* Theorems about EventBuffer, for any number of chunks and items and any  *)
(* size of the buffer.                                                     *)
(*                                                                         *)
(* IInv adds one fact to the properties: from the runner's own flush to    *)
(* its report the buffer is empty, because only the runner appends.        *)
(***************************************************************************)
EXTENDS EventBuffer, TLAPS

USE BufferAssumption

LEMMA BufferInit == Init => IInv
<1> SUFFICES ASSUME Init PROVE IInv
  OBVIOUS
<1>1. TypeOK
  <2>1. item \in Items /\ chunks \in 0 .. MaxChunks /\ flushers \in Nat
    BY DEF Init, Items
  <2>2. owner \in [Chunks -> Items \cup {NoItem}]
    BY DEF Init
  <2>3. timer \in BOOLEAN /\ closed \in BOOLEAN /\ ending \in BOOLEAN
    BY Zenon DEF Init
  <2> QED
    BY <2>1, <2>2, <2>3 DEF Init, TypeOK
<1>2. FlushedInv /\ NothingStranded /\ CompletedIsFlushed
  BY DEF Init, FlushedInv, NothingStranded, CompletedIsFlushed
<1>3. ChunksAccountedFor
  BY DEF Init, ChunksAccountedFor, Chunks
<1>4. LabelledByNewest
  BY DEF Init, LabelledByNewest, Newest
<1> QED
  BY <1>1, <1>2, <1>3, <1>4 DEF IInv

\* Taking the text moves it, whole and with its label, to a new post.
LEMMA TakeEffect ==
  ASSUME IInv, Take
  PROVE  /\ text' = {} /\ label' = NoItem
         /\ posts' \in SUBSET Posts
         /\ \A p \in posts' : p \in posts \/ (text # {} /\ p.text = text /\ p.label = label)
         /\ posts \subseteq posts'
         /\ text # {} => \E p \in posts' : p.text = text
<1> DEFINE new == [label |-> label, text |-> text]
<1> USE DEF Take
<1>1. CASE text = {}
  BY <1>1 DEF IInv, TypeOK
<1>2. CASE text # {}
  <2>1. new \in Posts
    BY <1>2 DEF IInv, TypeOK, FlushedInv, Posts, NoItem
  <2>2. posts' = posts \cup {new}
    BY <1>2
  <2>3. new.text = text /\ new.label = label
    OBVIOUS
  <2> HIDE DEF new
  <2> QED
    BY <1>2, <2>1, <2>2, <2>3 DEF IInv, TypeOK
<1> QED
  BY <1>1, <1>2

\* Such a step keeps the invariant, whoever takes the text.
LEMMA TakeKeepsIInv ==
  ASSUME IInv, Take, flushers' \in Nat, timer' \in BOOLEAN, own' \in SUBSET Chunks,
         runner' \in {"reading", "flushing", "posting", "reporting", "over"},
         UNCHANGED <<stream, closed, ending, server>>
  PROVE  IInv'
<1> USE TakeEffect DEF stream, server
<1>1. TypeOK'
  BY DEF IInv, TypeOK, NoItem
<1>2. FlushedInv' /\ NothingStranded' /\ CompletedIsFlushed'
  BY DEF FlushedInv, NothingStranded, CompletedIsFlushed
<1>3. ChunksAccountedFor'
  <2>1. ASSUME NEW n \in Chunks
        PROVE  n \in text \/ (\E p \in posts : n \in p.text) <=> \E p \in posts' : n \in p.text
    OBVIOUS
  <2>2. \A p, q \in posts' : p # q => p.text \cap q.text = {}
    <3> SUFFICES ASSUME NEW p \in posts', NEW q \in posts', p # q PROVE p.text \cap q.text = {}
      OBVIOUS
    <3>1. p \in posts \/ q \in posts
      <4>1. p \in Posts /\ q \in Posts
        OBVIOUS
      <4> QED
        BY <4>1 DEF Posts
    <3> QED
      BY <3>1 DEF IInv, ChunksAccountedFor
  <2> QED
    BY <2>1, <2>2 DEF IInv, ChunksAccountedFor
<1>4. LabelledByNewest'
  BY DEF IInv, LabelledByNewest, Newest
<1> QED
  BY <1>1, <1>2, <1>3, <1>4 DEF IInv

\* An append writes the newest chunk and leaves a flush behind it.
LEMMA AppendKeepsIInv ==
  ASSUME IInv, NEW i \in Items, Append(i)
  PROVE  IInv'
<1> USE DEF IInv, TypeOK, Append, Write, Schedule, Chunks, Items, NoItem
<1>1. chunks + 1 \in Chunks /\ chunks + 1 \notin text /\ i \notin completed
  BY DEF ChunksAccountedFor
<1>2. TypeOK'
  <2>1. flushers' \in Nat
    <3> DEFINE other == IF OtherItem(i) THEN 1 ELSE 0
               full == IF text # {} /\ Full THEN 1 ELSE 0
    <3>1. other \in Nat /\ full \in Nat
      OBVIOUS
    <3>2. flushers' = flushers + other + full
      OBVIOUS
    <3> HIDE DEF other, full
    <3> QED
      BY <3>1, <3>2
  <2>2. timer' \in BOOLEAN
    BY Zenon
  <2>3. chunks' \in 0 .. MaxChunks /\ text' \in SUBSET Chunks /\ item' \in Items /\ label' \in Items
    BY <1>1
  <2>4. owner' \in [Chunks -> Items \cup {NoItem}]
    BY <1>1
  <2>5. UNCHANGED <<closed, posts, runner, ending, own, shown, lost, completed>>
    BY DEF server
  <2> QED
    BY <2>1, <2>2, <2>3, <2>4, <2>5
<1>3. FlushedInv'
  BY DEF FlushedInv
<1>4. NothingStranded'
  <2>1. CASE text = {}
    <3>1. timer' = TRUE
      BY <2>1, Zenon
    <3> QED
      BY <3>1 DEF NothingStranded
  <2>2. CASE OtherItem(i) \/ (text # {} /\ Full)
    <3> DEFINE other == IF OtherItem(i) THEN 1 ELSE 0
               full == IF text # {} /\ Full THEN 1 ELSE 0
    <3>1. other \in Nat /\ full \in Nat
      OBVIOUS
    <3>2. other = 1 \/ full = 1
      BY <2>2
    <3>3. flushers' = flushers + other + full
      OBVIOUS
    <3>4. flushers' > 0
      <4> HIDE DEF other, full
      <4> QED
        BY <3>1, <3>2, <3>3
    <3> QED
      BY <3>4 DEF NothingStranded
  <2>3. CASE text # {} /\ ~OtherItem(i) /\ ~Full
    <3>1. timer' <=> timer
      BY <2>3, Zenon
    <3>2. flushers' = flushers
      BY <2>3
    <3> QED
      BY <2>3, <3>1, <3>2 DEF NothingStranded
  <2> QED
    BY <2>1, <2>2, <2>3
<1>5. ChunksAccountedFor'
  BY <1>1 DEF ChunksAccountedFor, server
<1>6. LabelledByNewest'
  BY <1>1 DEF LabelledByNewest, Newest, ChunksAccountedFor
<1>7. CompletedIsFlushed'
  BY <1>1 DEF CompletedIsFlushed, ChunksAccountedFor, server
<1> QED
  BY <1>2, <1>3, <1>4, <1>5, <1>6, <1>7

\* The timer, the flush goroutines and the posts.
LEMMA FlushKeepsIInv ==
  ASSUME IInv, TimerFires \/ FlushRuns \/ \E p \in posts : Post(p)
  PROVE  IInv'
<1>1. CASE TimerFires
  <2> USE <1>1 DEF TimerFires, stream, buffer, server
  <2>1. flushers' \in Nat /\ flushers' > 0
    BY DEF IInv, TypeOK
  <2>2. timer' \in BOOLEAN
    BY Zenon
  <2>3. TypeOK'
    BY <2>1, <2>2 DEF IInv, TypeOK
  <2>4. NothingStranded'
    BY <2>1 DEF NothingStranded
  <2>5. FlushedInv' /\ ChunksAccountedFor' /\ LabelledByNewest' /\ CompletedIsFlushed'
    BY DEF IInv, FlushedInv, ChunksAccountedFor, LabelledByNewest, Newest, CompletedIsFlushed
  <2> QED
    BY <2>3, <2>4, <2>5 DEF IInv
<1>2. CASE FlushRuns
  <2>1. flushers' \in Nat
    BY <1>2 DEF FlushRuns, IInv, TypeOK
  <2>2. /\ Take /\ timer' \in BOOLEAN /\ own' \in SUBSET Chunks
        /\ runner' \in {"reading", "flushing", "posting", "reporting", "over"}
        /\ UNCHANGED <<stream, closed, ending, server>>
    BY <1>2 DEF FlushRuns, IInv, TypeOK
  <2> QED
    BY <2>1, <2>2, TakeKeepsIInv
<1>3. ASSUME NEW p \in posts, Post(p) PROVE IInv'
  <2> USE DEF stream, buffer, server
  <2>1. p.text \in SUBSET Chunks /\ text \cap p.text = {}
    BY DEF IInv, TypeOK, Posts, ChunksAccountedFor
  <2>2. /\ UNCHANGED <<stream, buffer, timer, flushers, closed, runner, ending, own, completed>>
        /\ posts' \subseteq posts
        /\ \A q \in posts : q # p => q \in posts'
        /\ shown \subseteq shown' /\ lost \subseteq lost'
        /\ shown' \cup lost' \subseteq shown \cup lost \cup p.text
        /\ p \in posts' \/ p.text \subseteq shown' \cup lost'
    BY <1>3 DEF Post, PostAccepted, PostUnanswered, PostFails
  <2>3. TypeOK'
    BY <2>1, <2>2 DEF IInv, TypeOK
  <2>4. FlushedInv' /\ NothingStranded' /\ CompletedIsFlushed' /\ LabelledByNewest'
    BY <2>2 DEF IInv, FlushedInv, NothingStranded, CompletedIsFlushed, LabelledByNewest, Newest
  <2>5. ChunksAccountedFor'
    BY <2>1, <2>2 DEF IInv, ChunksAccountedFor
  <2> QED
    BY <2>3, <2>4, <2>5 DEF IInv
<1> QED
  BY <1>1, <1>2, <1>3

\* The runner's flushes and reports, and the end of RunTurn.
LEMMA RunnerKeepsIInv ==
  ASSUME IInv, Runner
  PROVE  IInv'
<1> USE DEF stream, buffer, server
<1>1. ASSUME NEW i \in Items, Append(i) PROVE IInv'
  BY <1>1, AppendKeepsIInv
<1>2. ASSUME NEW last \in BOOLEAN, BeginFlush(last) PROVE IInv'
  BY <1>2 DEF BeginFlush, IInv, TypeOK, FlushedInv, NothingStranded, ChunksAccountedFor,
       LabelledByNewest, Newest, CompletedIsFlushed
<1>3. CASE OwnFlush
  BY <1>3, TakeKeepsIInv DEF OwnFlush, IInv, TypeOK
<1>4. CASE OwnFlushDone
  BY <1>4 DEF OwnFlushDone, IInv, TypeOK, FlushedInv, NothingStranded, ChunksAccountedFor,
       LabelledByNewest, Newest, CompletedIsFlushed
<1>5. CASE ReportItem
  BY <1>5 DEF ReportItem, IInv, TypeOK, FlushedInv, NothingStranded, ChunksAccountedFor,
       LabelledByNewest, Newest, CompletedIsFlushed
<1>6. CASE ReportItemFails
  BY <1>6 DEF ReportItemFails, Close, IInv, TypeOK, FlushedInv, NothingStranded,
       ChunksAccountedFor, LabelledByNewest, Newest, CompletedIsFlushed
<1>7. CASE ReportTurn
  BY <1>7 DEF ReportTurn, Close, IInv, TypeOK, FlushedInv, NothingStranded, ChunksAccountedFor,
       LabelledByNewest, Newest, CompletedIsFlushed
<1>8. CASE TurnFails
  BY <1>8 DEF TurnFails, Close, IInv, TypeOK, FlushedInv, NothingStranded, ChunksAccountedFor,
       LabelledByNewest, Newest, CompletedIsFlushed
<1> QED
  BY <1>1, <1>2, <1>3, <1>4, <1>5, <1>6, <1>7, <1>8 DEF Runner

LEMMA BufferNext == ASSUME IInv, [Next]_vars PROVE IInv'
<1>1. CASE Next
  BY <1>1, RunnerKeepsIInv, FlushKeepsIInv DEF Next
<1>2. CASE UNCHANGED vars
  BY <1>2 DEF vars, stream, buffer, server, IInv, TypeOK, FlushedInv, NothingStranded,
       ChunksAccountedFor, LabelledByNewest, Newest, CompletedIsFlushed
<1> QED
  BY <1>1, <1>2

\* The inductive invariant holds in every execution of the buffer.
THEOREM BufferInvariant == Spec => []IInv
BY BufferInit, BufferNext, PTL DEF Spec

\* Every variable keeps its type.
THEOREM TypeCorrect == Spec => []TypeOK
BY BufferInvariant, PTL DEF IInv

\* Text in an open EventBuffer always has a flush coming.
THEOREM NoTextStranded == Spec => []NothingStranded
BY BufferInvariant, PTL DEF IInv

\* Concurrent doFlush calls neither drop nor repeat text.
THEOREM EveryChunkOnce == Spec => []ChunksAccountedFor
BY BufferInvariant, PTL DEF IInv

\* Buffer and posts carry the item id of their newest text.
THEOREM LabelsAreNewest == Spec => []LabelledByNewest
BY BufferInvariant, PTL DEF IInv

\* Nothing of a completed item is left in the buffer.
THEOREM CompletedHasNoText == Spec => []CompletedIsFlushed
BY BufferInvariant, PTL DEF IInv
===============================================================================
