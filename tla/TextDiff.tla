------------------------------- MODULE TextDiff -------------------------------
(***************************************************************************)
(* The text diffs of a change set (changeset.go): Myers' algorithm as      *)
(* computeDiff has it, the hunks of a unified diff, and what a reader of   *)
(* the diff makes of them.  Texts are sequences of lines.                  *)
(***************************************************************************)
EXTENDS Integers, FiniteSets, SequencesExt

CONSTANT ContextLines   \* lines of context around a change, 3 in the code

ASSUME ContextAssumption == ContextLines \in Nat

-----------------------------------------------------------------------------
(* computeDiff.  Diagonal k is where x - y = k.                            *)

Bound(a, b) == Len(a) + Len(b)
Diagonals(d) == {k \in -d..d : (k + d) % 2 = 0}

\* How far equal lines lead from x on diagonal k.
Snake(a, b, x, k) ==
  LET Equal(i) == x + i < Len(a) /\ x - k + i < Len(b) /\ a[x + i + 1] = b[x - k + i + 1]
  IN x + CHOOSE j \in 0..Bound(a, b) : ~Equal(j) /\ \A i \in 0..(j - 1) : Equal(i)

\* Is diagonal k reached in round d by inserting a line, and not by deleting one?
Inserts(v, d, k) == k = -d \/ (k # d /\ v[k - 1] < v[k + 1])

StartX(v, d, k) == IF d = 0 THEN 0 ELSE IF Inserts(v, d, k) THEN v[k + 1] ELSE v[k - 1] + 1

Round(a, b, v, d) ==
  [k \in DOMAIN v |-> IF k \in Diagonals(d) THEN Snake(a, b, StartX(v, d, k), k) ELSE v[k]]

\* The furthest points, before each round.
Trace(a, b) ==
  LET max == Bound(a, b)
      T[d \in 0..(max + 1)] == IF d = 0 THEN [k \in -max..max |-> 0] ELSE Round(a, b, T[d - 1], d - 1)
  IN T

Found(a, b, d) == \E k \in Diagonals(d) : Trace(a, b)[d + 1][k] >= Len(a) /\ Trace(a, b)[d + 1][k] - k >= Len(b)

FinalRound(a, b) == CHOOSE d \in 0..Bound(a, b) : Found(a, b, d) /\ \A e \in 0..(d - 1) : ~Found(a, b, e)

Edit(kind, line) == [kind |-> kind, line |-> line]
Edits(kind, lines) == [i \in DOMAIN lines |-> Edit(kind, lines[i])]

\* One round of the way back from p: the equal lines of the round, and the edit that led to them.
Back(a, b, v, d, p) ==
  LET k == p.x - p.y
      startX == StartX(v, d, k)
      startY == startX - k
      ops == Edits("equal", SubSeq(a, startX + 1, p.x)) \o p.ops
  IN IF d = 0 THEN [x |-> startX, y |-> startY, ops |-> ops]
     ELSE IF Inserts(v, d, k)
     THEN [x |-> startX, y |-> startY - 1, ops |-> <<Edit("insert", b[startY])>> \o ops]
     ELSE [x |-> startX - 1, y |-> startY, ops |-> <<Edit("delete", a[startX])>> \o ops]

\* From the end of both texts to their start.
WayBack(a, b) ==
  LET T == Trace(a, b)
      last == FinalRound(a, b)
      W[i \in 0..(last + 1)] ==
        IF i = 0 THEN [x |-> Len(a), y |-> Len(b), ops |-> <<>>]
        ELSE Back(a, b, T[last + 1 - i], last + 1 - i, W[i - 1])
  IN W

Script(a, b) == WayBack(a, b)[FinalRound(a, b) + 1].ops

computeDiff(a, b) ==
  IF a = <<>> THEN Edits("insert", b) ELSE IF b = <<>> THEN Edits("delete", a) ELSE Script(a, b)

-----------------------------------------------------------------------------
(* buildHunks.                                                             *)

\* The lines of the edits of some kinds.
LinesWalk(ops, kinds) ==
  LET L[i \in 0..Len(ops)] ==
        IF i = 0 THEN <<>> ELSE IF ops[i].kind \in kinds THEN Append(L[i - 1], ops[i].line) ELSE L[i - 1]
  IN L

LinesOf(ops, kinds) == LinesWalk(ops, kinds)[Len(ops)]

Old(ops) == LinesOf(ops, {"equal", "delete"})
New(ops) == LinesOf(ops, {"equal", "insert"})
Changes(ops) == LinesOf(ops, {"delete", "insert"})

\* The changes with their context; ranges that touch are one.
AddRange(ranges, i, n) ==
  LET s == IF i > ContextLines THEN i - ContextLines ELSE 1
      e == IF i + ContextLines < n THEN i + ContextLines ELSE n
  IN IF ranges # <<>> /\ s <= Last(ranges)[2] + 1
     THEN Front(ranges) \o <<<<Last(ranges)[1], e>>>>
     ELSE Append(ranges, <<s, e>>)

RangesWalk(ops) ==
  LET R[i \in 0..Len(ops)] ==
        IF i = 0 THEN <<>>
        ELSE IF ops[i].kind = "equal" THEN R[i - 1] ELSE AddRange(R[i - 1], i, Len(ops))
  IN R

Ranges(ops) == RangesWalk(ops)[Len(ops)]

\* Mutant: a hunk's start counts the inserted lines in the old text.
HunkMisplaced(ops, r) ==
  [oldStart |-> r[1],
   newStart |-> Len(New(SubSeq(ops, 1, r[1] - 1))) + 1,
   oldCount |-> Len(Old(SubSeq(ops, r[1], r[2]))),
   newCount |-> Len(New(SubSeq(ops, r[1], r[2]))),
   lines |-> SubSeq(ops, r[1], r[2])]

Hunk(ops, r) ==
  [oldStart |-> Len(Old(SubSeq(ops, 1, r[1] - 1))) + 1,
   newStart |-> Len(New(SubSeq(ops, 1, r[1] - 1))) + 1,
   oldCount |-> Len(Old(SubSeq(ops, r[1], r[2]))),
   newCount |-> Len(New(SubSeq(ops, r[1], r[2]))),
   lines |-> SubSeq(ops, r[1], r[2])]

buildHunks(ops) == LET rs == Ranges(ops) IN [i \in DOMAIN rs |-> Hunk(ops, rs[i])]

BuildUnifiedTextDiff(before, after) == buildHunks(computeDiff(before, after))

-----------------------------------------------------------------------------
(* What the diff is for.                                                   *)

\* Does a hunk say what is in its place in both texts?
Fits(h, before, after) ==
  /\ SubSeq(before, h.oldStart, h.oldStart + h.oldCount - 1) = Old(h.lines)
  /\ SubSeq(after, h.newStart, h.newStart + h.newCount - 1) = New(h.lines)

\* What applying the hunks to a text yields, from the last one to the first.
Apply(h, t) ==
  SubSeq(t, 1, h.oldStart - 1) \o New(h.lines) \o SubSeq(t, h.oldStart + h.oldCount, Len(t))

PatchWalk(before, hunks) ==
  LET P[i \in 0..Len(hunks)] == IF i = 0 THEN before ELSE Apply(hunks[Len(hunks) - i + 1], P[i - 1])
  IN P

Patch(before, hunks) == PatchWalk(before, hunks)[Len(hunks)]

\* The length of a longest common subsequence, by its definition.
Picks(n, len) == {f \in [1..n -> 1..len] : \A i, j \in 1..n : i < j => f[i] < f[j]}

Common(a, b, n) == \E f \in Picks(n, Len(a)), g \in Picks(n, Len(b)) : \A i \in 1..n : a[f[i]] = b[g[i]]

CommonLength(a, b) == CHOOSE n \in 0..Len(a) : Common(a, b, n) /\ ~Common(a, b, n + 1)

\* The number of lines that the hunks delete and insert.
ChangesWalk(hunks) ==
  LET C[i \in 0..Len(hunks)] == IF i = 0 THEN 0 ELSE C[i - 1] + Len(Changes(hunks[i].lines))
  IN C

ChangeCount(hunks) == ChangesWalk(hunks)[Len(hunks)]
===============================================================================
