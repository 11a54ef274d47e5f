------------------------ MODULE WorkspaceRestoreProofs ------------------------
(***************************************************************************)
(* Theorems about WorkspaceRestore, for any tree of paths and contents and *)
(* whatever a turn does to it.                                             *)
(*                                                                         *)
(* The order of the module: induction; the edits of TextDiff; Myers'       *)
(* search, what its furthest points are and that the way back from them is *)
(* a shortest script (computeDiffIs, FewestChanges); ranges and hunks, and *)
(* that Patch turns the old text into the new one (PatchIs); what Restore  *)
(* and ApplySelectiveDecision do to the files; the invariant; the          *)
(* theorems.                                                               *)
(*                                                                         *)
(* The walks of all these are recursive functions.  What they compute is   *)
(* proved by induction on their length, in the form of NatInduces: a set   *)
(* of numbers that has 0 and with every number the next one has all of     *)
(* them.                                                                   *)
(***************************************************************************)
EXTENDS WorkspaceRestore, SequenceTheorems, FiniteSetTheorems, WellFoundedInduction, TLAPS

-----------------------------------------------------------------------------
(* Induction.                                                              *)

\* A set of numbers that is not empty has a least one: < is well-founded.
LEMMA LeastNumber ==
  ASSUME NEW T, T \subseteq Nat, T # {}
  PROVE  \E n \in T : \A m \in T : ~(m < n)
<1>1. IsWellFoundedOn(OpToRel(<, Nat), Nat)
  BY NatLessThanWellFounded
<1>2. \E n \in T : \A m \in T : <<m, n>> \notin OpToRel(<, Nat)
  BY <1>1, WFMin
<1> QED
  BY <1>2 DEF OpToRel

\* Induction: a set that has 0, and with every number the next one, has all of them.
LEMMA NatInduces ==
  ASSUME NEW T, 0 \in T, \A n \in Nat : n \in T => n + 1 \in T
  PROVE  Nat \subseteq T
<1> SUFFICES ASSUME Nat \ T # {} PROVE FALSE
  OBVIOUS
<1>1. PICK n \in Nat \ T : \A m \in Nat \ T : ~(m < n)
  BY LeastNumber
<1>2. n # 0 /\ n - 1 \in Nat /\ n - 1 < n
  BY <1>1
<1>3. n - 1 \in T
  BY <1>1, <1>2
<1> QED
  BY <1>1, <1>2, <1>3

\* Induction up to a bound.
LEMMA UpToInduces ==
  ASSUME NEW n \in Nat, NEW T, 0 \in T, \A i \in 1..n : i - 1 \in T => i \in T
  PROVE  0..n \subseteq T
<1> DEFINE U == {m \in Nat : m <= n => m \in T}
<1>1. 0 \in U
  OBVIOUS
<1>2. ASSUME NEW m \in Nat, m \in U PROVE m + 1 \in U
  <2>1. m + 1 <= n => m + 1 \in 1..n /\ (m + 1) - 1 = m /\ m \in T
    BY <1>2
  <2> QED
    BY <2>1
<1>3. Nat \subseteq U
  <2> HIDE DEF U
  <2> QED
    BY <1>1, <1>2, NatInduces
<1> QED
  BY <1>3

\* Induction over sequences, which grow at their end.
LEMMA SeqInduces ==
  ASSUME NEW S, NEW T, <<>> \in T, \A s \in Seq(S), e \in S : s \in T => Append(s, e) \in T
  PROVE  Seq(S) \subseteq T
<1> DEFINE U == {n \in Nat : \A s \in Seq(S) : Len(s) = n => s \in T}
<1>1. 0 \in U
  <2>1. \A s \in Seq(S) : Len(s) = 0 => s = <<>>
    BY EmptySeq
  <2> QED
    BY <2>1
<1>2. ASSUME NEW n \in Nat, n \in U PROVE n + 1 \in U
  <2> SUFFICES ASSUME NEW s \in Seq(S), Len(s) = n + 1 PROVE s \in T
    OBVIOUS
  <2> DEFINE t == SubSeq(s, 1, n)
  <2>1. t \in Seq(S) /\ Len(t) = n /\ s[n + 1] \in S
    <3>1. 1 \in 1..Len(s) + 1 /\ n \in 0..Len(s) /\ n + 1 \in 1..Len(s)
      OBVIOUS
    <3> QED
      BY <3>1, SubSeqProperties, ElementOfSeq
  <2>2. s = Append(t, s[n + 1])
    BY <2>1
  <2>3. t \in T
    BY <1>2, <2>1
  <2> QED
    BY <2>1, <2>2, <2>3
<1>3. Nat \subseteq U
  <2> HIDE DEF U
  <2> QED
    BY <1>1, <1>2, NatInduces
<1> QED
  BY <1>3, LenProperties

\* The function on 0..n that starts at base and takes the steps of a table ...
IsWalk(f, n, base, step) ==
  /\ f = [i \in 0..n |-> f[i]]
  /\ f[0] = base
  /\ \A i \in 1..n : f[i] = step[i][f[i - 1]]

\* ... exists, if every step leads from its set to the next one.
LEMMA WalkExists ==
  ASSUME NEW n \in Nat, NEW S, NEW base \in S[0], NEW step,
         \A i \in 1..n : \A x \in S[i - 1] : step[i][x] \in S[i]
  PROVE  \E f : IsWalk(f, n, base, step) /\ \A i \in 0..n : f[i] \in S[i]
<1> DEFINE Walks(m, f) == IsWalk(f, m, base, step) /\ \A i \in 0..m : f[i] \in S[i]
           T == {m \in Nat : \E f : Walks(m, f)}
<1>1. 0 \in T
  <2> DEFINE f == [i \in 0..0 |-> base]
  <2>1. f = [i \in 0..0 |-> f[i]] /\ f[0] = base /\ 1..0 = {} /\ \A i \in 0..0 : f[i] \in S[i]
    OBVIOUS
  <2> HIDE DEF f
  <2>2. Walks(0, f)
    BY <2>1 DEF IsWalk
  <2> HIDE DEF Walks
  <2> QED
    BY <2>2
<1>2. ASSUME NEW i \in 1..n, i - 1 \in T PROVE i \in T
  <2>1. PICK f : Walks(i - 1, f)
    BY <1>2
  <2> DEFINE g == [j \in 0..i |-> IF j = i THEN step[i][f[i - 1]] ELSE f[j]]
  <2>2. step[i][f[i - 1]] \in S[i]
    <3>1. f[i - 1] \in S[i - 1]
      BY <2>1
    <3> QED
      BY <3>1
  <2>3. g = [j \in 0..i |-> g[j]] /\ 0 \in 0..i /\ 0 # i /\ g[0] = base
    BY <2>1 DEF IsWalk
  <2>4. \A j \in 0..i : g[j] \in S[j]
    BY <2>1, <2>2
  <2>5. ASSUME NEW j \in 1..i PROVE g[j] = step[j][g[j - 1]]
    <3>1. j \in 0..i /\ j - 1 \in 0..i /\ j - 1 # i /\ g[j - 1] = f[j - 1]
      OBVIOUS
    <3>2. CASE j = i
      BY <3>1, <3>2
    <3>3. CASE j # i
      <4>1. j \in 1..(i - 1) /\ g[j] = f[j]
        BY <3>1, <3>3
      <4> QED
        BY <2>1, <3>1, <4>1 DEF IsWalk
    <3> QED
      BY <3>2, <3>3
  <2> HIDE DEF g
  <2>6. Walks(i, g)
    BY <2>3, <2>4, <2>5 DEF IsWalk
  <2> HIDE DEF Walks
  <2> QED
    BY <2>6
<1>3. n \in T
  <2> HIDE DEF T
  <2>1. 0..n \subseteq T
    BY <1>1, <1>2, UpToInduces
  <2> QED
    BY <2>1
<1> QED
  BY <1>3

\* The same for steps that stay within one set.
LEMMA WalkStays ==
  ASSUME NEW n \in Nat, NEW R, NEW base \in R, NEW step \in [1..n -> [R -> R]]
  PROVE  \E f \in [0..n -> R] : IsWalk(f, n, base, step)
<1> DEFINE S == [i \in 0..n |-> R]
<1>1. \A i \in 0..n : S[i] = R
  OBVIOUS
<1>2. 0 \in 0..n /\ \A i \in 1..n : i \in 0..n /\ i - 1 \in 0..n
  OBVIOUS
<1> HIDE DEF S
<1>3. base \in S[0]
  BY <1>1, <1>2
<1>4. \A i \in 1..n : \A x \in S[i - 1] : step[i][x] \in S[i]
  BY <1>1, <1>2
<1>5. PICK f : IsWalk(f, n, base, step) /\ \A i \in 0..n : f[i] \in S[i]
  BY <1>3, <1>4, WalkExists
<1>6. f \in [0..n -> R]
  BY <1>1, <1>5 DEF IsWalk
<1> QED
  BY <1>5, <1>6

-----------------------------------------------------------------------------
(* Edits and the lines they stand for.                                     *)

Kinds == {"equal", "delete", "insert"}
EditsOver(L) == [kind : Kinds, line : L]

\* The walk of LinesOf is the function that its definition says it is.
LEMMA LinesWalkDef ==
  ASSUME NEW L, NEW ops \in Seq(EditsOver(L)), NEW kinds
  PROVE  LET W == LinesWalk(ops, kinds)
         IN /\ W[0] = <<>>
            /\ \A i \in 1..Len(ops) :
                 W[i] = IF ops[i].kind \in kinds THEN Append(W[i - 1], ops[i].line) ELSE W[i - 1]
            /\ \A i \in 0..Len(ops) : W[i] \in Seq(L)
<1> DEFINE N == Len(ops)
           Step(i, s) == IF ops[i].kind \in kinds THEN Append(s, ops[i].line) ELSE s
           step == [i \in 1..N |-> [s \in Seq(L) |-> Step(i, s)]]
           S == [i \in 0..N |-> Seq(L)]
           W == LinesWalk(ops, kinds)
<1>1. N \in Nat /\ \A i \in 1..N : ops[i].line \in L
  <2>1. \A i \in 1..N : ops[i] \in EditsOver(L)
    BY ElementOfSeq
  <2> QED
    BY <2>1, LenProperties DEF EditsOver
<1>2. \A i \in 1..N : \A s \in Seq(L) : Step(i, s) \in Seq(L)
  BY <1>1
<1> HIDE DEF Step
<1>3. \A i \in 1..N : \A s \in S[i - 1] : step[i][s] \in S[i]
  BY <1>1, <1>2
<1>4. <<>> \in S[0]
  BY <1>1
<1> HIDE DEF S
<1>5. PICK f : IsWalk(f, N, <<>>, step) /\ \A i \in 0..N : f[i] \in S[i]
  BY <1>1, <1>3, <1>4, WalkExists
<1>6. \A i \in 1..N : f[i - 1] \in Seq(L)
  BY <1>1, <1>5 DEF S
<1>7. \A i \in 0..N : f[i] = IF i = 0 THEN <<>> ELSE Step(i, f[i - 1])
  <2>1. f[0] = <<>> /\ \A i \in 1..N : f[i] = step[i][f[i - 1]]
    BY <1>5 DEF IsWalk
  <2>2. \A i \in 1..N : step[i][f[i - 1]] = Step(i, f[i - 1])
    BY <1>6
  <2>3. \A i \in 0..N : i = 0 \/ i \in 1..N
    BY <1>1
  <2> QED
    BY <1>1, <2>1, <2>2, <2>3
<1>8. f = [i \in 0..N |-> IF i = 0 THEN <<>> ELSE Step(i, f[i - 1])]
  BY <1>5, <1>7 DEF IsWalk
<1>9. W = [i \in 0..N |-> IF i = 0 THEN <<>> ELSE Step(i, W[i - 1])]
  BY <1>8, ZenonT(40) DEF LinesWalk, Step
<1> HIDE DEF W
<1>10. W[0] = <<>> /\ \A i \in 1..N : W[i] = Step(i, W[i - 1])
  BY <1>1, <1>9
<1>11. 0..N \subseteq {i \in 0..N : W[i] \in Seq(L)}
  <2> DEFINE T == {i \in 0..N : W[i] \in Seq(L)}
  <2>1. 0 \in T
    <3>1. <<>> \in Seq(L) /\ 0 \in 0..N
      BY <1>1, EmptySeq
    <3> QED
      BY <3>1, <1>10
  <2>2. \A i \in 1..N : i - 1 \in T => i \in T
    BY <1>1, <1>2, <1>10
  <2> HIDE DEF T
  <2> QED
    BY <1>1, <2>1, <2>2, UpToInduces DEF T
<1> QED
  BY <1>10, <1>11 DEF W, Step

\* LinesOf gives lines.
LEMMA LinesOfType ==
  ASSUME NEW L, NEW ops \in Seq(EditsOver(L)), NEW kinds
  PROVE  LinesOf(ops, kinds) \in Seq(L)
BY LinesWalkDef DEF LinesOf

\* A script without edits has no lines.
LEMMA LinesOfEmpty == ASSUME NEW kinds PROVE LinesOf(<<>>, kinds) = <<>>
BY LinesWalkDef, EmptySeq DEF LinesOf

\* One more edit at the end adds its line, if it is of the kinds asked for.
LEMMA LinesOfAppend ==
  ASSUME NEW L, NEW ops \in Seq(EditsOver(L)), NEW e \in EditsOver(L), NEW kinds
  PROVE  LinesOf(Append(ops, e), kinds) =
           IF e.kind \in kinds THEN Append(LinesOf(ops, kinds), e.line) ELSE LinesOf(ops, kinds)
<1> DEFINE N == Len(ops)
           t == Append(ops, e)
           V == LinesWalk(ops, kinds)
           W == LinesWalk(t, kinds)
<1>1. t \in Seq(EditsOver(L)) /\ Len(t) = N + 1 /\ N \in Nat /\ t[N + 1] = e
  BY AppendProperties, LenProperties
<1>2. \A i \in 1..N : t[i] = ops[i]
  BY AppendProperties
<1>3. V[0] = <<>> /\ \A i \in 1..N : V[i] = IF ops[i].kind \in kinds THEN Append(V[i - 1], ops[i].line) ELSE V[i - 1]
  BY LinesWalkDef
<1>4. W[0] = <<>> /\ \A i \in 1..(N + 1) : W[i] = IF t[i].kind \in kinds THEN Append(W[i - 1], t[i].line) ELSE W[i - 1]
  <2> HIDE DEF t
  <2> QED
    BY <1>1, LinesWalkDef, SMTT(40)
<1> HIDE DEF V, W
<1> DEFINE T == {i \in 0..N : W[i] = V[i]}
<1>5. 0 \in T
  BY <1>1, <1>3, <1>4
<1>6. ASSUME NEW i \in 1..N, i - 1 \in T PROVE i \in T
  BY <1>1, <1>2, <1>3, <1>4, <1>6
<1>7. N \in T
  <2> HIDE DEF T
  <2>1. 0..N \subseteq T
    BY <1>1, <1>5, <1>6, UpToInduces
  <2> QED
    BY <1>1, <2>1
<1>8. W[N + 1] = IF e.kind \in kinds THEN Append(W[N], e.line) ELSE W[N]
  <2>1. N + 1 \in 1..(N + 1) /\ (N + 1) - 1 = N
    BY <1>1
  <2> QED
    BY <1>1, <1>4, <2>1
<1> QED
  BY <1>1, <1>7, <1>8 DEF LinesOf, V, W

\* The lines of two scripts in a row are those of one and then those of the other.
LEMMA LinesOfConcat ==
  ASSUME NEW L, NEW s \in Seq(EditsOver(L)), NEW t \in Seq(EditsOver(L)), NEW kinds
  PROVE  LinesOf(s \o t, kinds) = LinesOf(s, kinds) \o LinesOf(t, kinds)
<1> DEFINE E == EditsOver(L)
           F(u) == LinesOf(u, kinds)
           T == {u \in Seq(E) : F(s \o u) = F(s) \o F(u)}
<1>1. \A u \in Seq(E) : F(u) \in Seq(L)
  BY LinesOfType
<1>2. <<>> \in T
  <2>1. F(<<>>) = <<>> /\ <<>> \in Seq(E) /\ s \o <<>> = s
    BY LinesOfEmpty, ConcatEmptySeq
  <2>2. F(s) \o <<>> = F(s)
    BY <1>1, ConcatEmptySeq
  <2> QED
    BY <2>1, <2>2
<1>3. ASSUME NEW u \in Seq(E), NEW e \in E, u \in T PROVE Append(u, e) \in T
  <2>1. s \o Append(u, e) = Append(s \o u, e) /\ s \o u \in Seq(E) /\ Append(u, e) \in Seq(E)
    OBVIOUS
  <2>2. F(Append(s \o u, e)) = IF e.kind \in kinds THEN Append(F(s \o u), e.line) ELSE F(s \o u)
    <3> DEFINE v == s \o u
    <3>1. v \in Seq(E)
      BY <2>1
    <3> HIDE DEF v, E
    <3>2. LinesOf(Append(v, e), kinds) = IF e.kind \in kinds THEN Append(LinesOf(v, kinds), e.line) ELSE LinesOf(v, kinds)
      BY <3>1, LinesOfAppend DEF E
    <3> QED
      BY <3>2 DEF v
  <2>3. F(Append(u, e)) = IF e.kind \in kinds THEN Append(F(u), e.line) ELSE F(u)
    BY LinesOfAppend
  <2>4. e.line \in L
    BY DEF EditsOver
  <2>5. F(s) \o Append(F(u), e.line) = Append(F(s) \o F(u), e.line)
    <3>1. F(s) \in Seq(L) /\ F(u) \in Seq(L)
      BY <1>1
    <3> HIDE DEF F
    <3> QED
      BY <2>4, <3>1, SMTT(40)
  <2> HIDE DEF F
  <2> QED
    BY <1>3, <2>1, <2>2, <2>3, <2>5
<1>4. Seq(E) \subseteq T
  <2> HIDE DEF T, E
  <2> QED
    BY <1>2, <1>3, SeqInduces
<1> QED
  BY <1>4

\* Edits makes a script of the lines from i up to j.
LEMMA EditsType ==
  ASSUME NEW L, NEW kind \in Kinds, NEW lines \in Seq(L)
  PROVE  Edits(kind, lines) \in Seq(EditsOver(L))
<1>1. \A i \in 1..Len(lines) : Edit(kind, lines[i]) \in EditsOver(L)
  BY ElementOfSeq DEF Edit, EditsOver
<1>2. DOMAIN lines = 1..Len(lines) /\ Len(lines) \in Nat
  BY LenProperties
<1> QED
  BY <1>1, <1>2, IsASeq DEF Edits

\* A script of one kind stands for its lines, or for none.
LEMMA LinesOfEdits ==
  ASSUME NEW L, NEW kind \in Kinds, NEW lines \in Seq(L), NEW kinds
  PROVE  LinesOf(Edits(kind, lines), kinds) = IF kind \in kinds THEN lines ELSE <<>>
<1> DEFINE E == EditsOver(L)
           T == {u \in Seq(L) : LinesOf(Edits(kind, u), kinds) = IF kind \in kinds THEN u ELSE <<>>}
<1>1. <<>> \in T
  <2>1. Edits(kind, <<>>) = <<>>
    BY DEF Edits
  <2> QED
    BY <2>1, LinesOfEmpty, EmptySeq
<1>2. ASSUME NEW u \in Seq(L), NEW l \in L, u \in T PROVE Append(u, l) \in T
  <2>1. Edit(kind, l) \in E /\ Edit(kind, l).kind = kind /\ Edit(kind, l).line = l
    BY DEF Edit, EditsOver
  <2>2. Edits(kind, Append(u, l)) = Append(Edits(kind, u), Edit(kind, l))
    BY <1>2 DEF Edits
  <2>3. Edits(kind, u) \in Seq(E)
    BY EditsType
  <2>4. LinesOf(Append(Edits(kind, u), Edit(kind, l)), kinds) =
          IF kind \in kinds THEN Append(LinesOf(Edits(kind, u), kinds), l) ELSE LinesOf(Edits(kind, u), kinds)
    BY <2>1, <2>3, LinesOfAppend
  <2>5. Append(u, l) \in Seq(L)
    BY AppendProperties
  <2> QED
    BY <1>2, <2>2, <2>4, <2>5
<1>3. Seq(L) \subseteq T
  <2> HIDE DEF T
  <2> QED
    BY <1>1, <1>2, SeqInduces
<1> QED
  BY <1>3

\* Lines that are all equal belong to both texts and are no changes.
LEMMA NoChanges ==
  ASSUME NEW L, NEW ops \in Seq(EditsOver(L)), \A i \in 1..Len(ops) : ops[i].kind = "equal"
  PROVE  Old(ops) = New(ops) /\ Changes(ops) = <<>>
<1> DEFINE E == EditsOver(L)
           T == {u \in Seq(E) : (\A i \in 1..Len(u) : u[i].kind = "equal") => Old(u) = New(u) /\ Changes(u) = <<>>}
<1>1. <<>> \in T
  BY LinesOfEmpty, EmptySeq DEF Old, New, Changes
<1>2. ASSUME NEW u \in Seq(E), NEW e \in E, u \in T PROVE Append(u, e) \in T
  <2> SUFFICES ASSUME \A i \in 1..Len(Append(u, e)) : Append(u, e)[i].kind = "equal"
               PROVE  Old(Append(u, e)) = New(Append(u, e)) /\ Changes(Append(u, e)) = <<>>
    BY AppendProperties
  <2>1. (\A i \in 1..Len(u) : u[i].kind = "equal") /\ e.kind = "equal"
    OBVIOUS
  <2>2. Old(u) = New(u) /\ Changes(u) = <<>>
    BY <1>2, <2>1
  <2>3. \A kinds : LinesOf(Append(u, e), kinds) =
                     IF e.kind \in kinds THEN Append(LinesOf(u, kinds), e.line) ELSE LinesOf(u, kinds)
    BY LinesOfAppend
  <2> QED
    BY <2>1, <2>2, <2>3 DEF Old, New, Changes
<1>3. Seq(E) \subseteq T
  <2> HIDE DEF T, E
  <2> QED
    BY <1>1, <1>2, SeqInduces
<1> QED
  BY <1>3

-----------------------------------------------------------------------------
(* Common subsequences.                                                    *)

\* A common subsequence of length c of the first x lines of a and the first y lines of b.
CommonAt(a, b, x, y, c) ==
  \E f \in Picks(c, x), g \in Picks(c, y) : \A i \in 1..c : a[f[i]] = b[g[i]]

\* Common of TextDiff is CommonAt for the whole texts.
LEMMA CommonIsCommonAt ==
  ASSUME NEW a, NEW b, NEW c
  PROVE  Common(a, b, c) <=> CommonAt(a, b, Len(a), Len(b), c)
BY DEF Common, CommonAt

\* Picks of one more line, at the end.
LEMMA PicksGrow ==
  ASSUME NEW c \in Nat, NEW x \in Nat, NEW f \in Picks(c, x)
  PROVE  [i \in 1..(c + 1) |-> IF i = c + 1 THEN x + 1 ELSE f[i]] \in Picks(c + 1, x + 1)
<1> DEFINE g == [i \in 1..(c + 1) |-> IF i = c + 1 THEN x + 1 ELSE f[i]]
<1>1. \A i \in 1..c : f[i] \in 1..x
  BY DEF Picks
<1>2. \A i \in 1..(c + 1) : i = c + 1 \/ i \in 1..c
  OBVIOUS
<1>3. g \in [1..(c + 1) -> 1..(x + 1)]
  BY <1>1, <1>2
<1>4. \A i, j \in 1..(c + 1) : i < j => g[i] < g[j]
  <2> SUFFICES ASSUME NEW i \in 1..(c + 1), NEW j \in 1..(c + 1), i < j PROVE g[i] < g[j]
    OBVIOUS
  <2>1. i \in 1..c /\ g[i] = f[i] /\ f[i] \in 1..x
    BY <1>1
  <2>2. CASE j = c + 1
    <3>1. g[j] = x + 1
      BY <2>2
    <3> QED
      BY <2>1, <3>1
  <2>3. CASE j \in 1..c
    <3>1. g[j] = f[j] /\ f[i] < f[j]
      BY <2>1, <2>3 DEF Picks
    <3> QED
      BY <2>1, <3>1
  <2> QED
    BY <1>2, <2>2, <2>3
<1> HIDE DEF g
<1>5. g \in Picks(c + 1, x + 1)
  BY <1>3, <1>4 DEF Picks
<1> QED
  BY <1>5 DEF g

\* The same picks, of a longer text.
LEMMA PicksWiden ==
  ASSUME NEW c \in Nat, NEW x \in Nat, NEW f \in Picks(c, x)
  PROVE  f \in Picks(c, x + 1)
<1>1. f \in [1..c -> 1..x] /\ 1..x \subseteq 1..(x + 1)
  BY DEF Picks
<1>2. f \in [1..c -> 1..(x + 1)]
  BY <1>1
<1> QED
  BY <1>2 DEF Picks

\* The equal lines of a script are common to both its texts, and its changes are the other lines.
LEMMA EqualIsCommon ==
  ASSUME NEW L, NEW ops \in Seq(EditsOver(L))
  PROVE  LET c == Len(LinesOf(ops, {"equal"}))
         IN /\ c \in Nat
            /\ CommonAt(Old(ops), New(ops), Len(Old(ops)), Len(New(ops)), c)
            /\ Len(Old(ops)) + Len(New(ops)) = Len(Changes(ops)) + 2 * c
<1> DEFINE E == EditsOver(L)
           Eq(u) == LinesOf(u, {"equal"})
           Good(u) == /\ CommonAt(Old(u), New(u), Len(Old(u)), Len(New(u)), Len(Eq(u)))
                      /\ Len(Old(u)) + Len(New(u)) = Len(Changes(u)) + 2 * Len(Eq(u))
           T == {u \in Seq(E) : Good(u)}
<1>1. ASSUME NEW u \in Seq(E) PROVE Old(u) \in Seq(L) /\ New(u) \in Seq(L) /\ Changes(u) \in Seq(L) /\ Eq(u) \in Seq(L)
  BY LinesOfType DEF Old, New, Changes
<1>2. <<>> \in T
  <2>1. Old(<<>>) = <<>> /\ New(<<>>) = <<>> /\ Changes(<<>>) = <<>> /\ Eq(<<>>) = <<>> /\ <<>> \in Seq(E)
    BY LinesOfEmpty, EmptySeq DEF Old, New, Changes
  <2>2. CommonAt(<<>>, <<>>, 0, 0, 0)
    <3> DEFINE f == [i \in 1..0 |-> 0]
    <3>1. f \in [1..0 -> 1..0] /\ \A i, j \in 1..0 : i < j => f[i] < f[j]
      OBVIOUS
    <3> HIDE DEF f
    <3>2. f \in Picks(0, 0)
      BY <3>1 DEF Picks
    <3> QED
      BY <3>2 DEF CommonAt
  <2>3. Len(<<>>) = 0
    OBVIOUS
  <2>4. Good(<<>>)
    BY <2>1, <2>2, <2>3
  <2> HIDE DEF Good
  <2> QED
    BY <2>1, <2>4
<1>3. ASSUME NEW u \in Seq(E), NEW e \in E, Good(u) PROVE Good(Append(u, e))
  <2> DEFINE w == Append(u, e)
             l == e.line
             c == Len(Eq(u))
             x == Len(Old(u))
             y == Len(New(u))
  <2>1. l \in L /\ e.kind \in {"equal", "delete", "insert"}
    BY DEF EditsOver, Kinds
  <2>2. \A kinds : LinesOf(w, kinds) = IF e.kind \in kinds THEN Append(LinesOf(u, kinds), l) ELSE LinesOf(u, kinds)
    BY LinesOfAppend
  <2>3. c \in Nat /\ x \in Nat /\ y \in Nat /\ Len(Changes(u)) \in Nat
    BY <1>1, LenProperties
  <2>4. PICK f \in Picks(c, x), g \in Picks(c, y) : \A i \in 1..c : Old(u)[f[i]] = New(u)[g[i]]
    BY <1>3 DEF CommonAt
  <2>5. \A i \in 1..c : f[i] \in 1..x /\ g[i] \in 1..y
    BY <2>4 DEF Picks
  <2>6. \A s \in Seq(L) : /\ Len(Append(s, l)) = Len(s) + 1
                          /\ \A i \in 1..Len(s) : Append(s, l)[i] = s[i]
                          /\ Append(s, l)[Len(s) + 1] = l
    BY <2>1, AppendProperties
  <2>7. x + y = Len(Changes(u)) + 2 * c
    BY <1>3
  <2>8. Old(u) \in Seq(L) /\ New(u) \in Seq(L) /\ Changes(u) \in Seq(L) /\ Eq(u) \in Seq(L)
    BY <1>1
  <2>9. CASE e.kind = "equal"
    <3> DEFINE f1 == [i \in 1..(c + 1) |-> IF i = c + 1 THEN x + 1 ELSE f[i]]
               g1 == [i \in 1..(c + 1) |-> IF i = c + 1 THEN y + 1 ELSE g[i]]
    <3>1. Old(w) = Append(Old(u), l) /\ New(w) = Append(New(u), l) /\ Changes(w) = Changes(u) /\ Eq(w) = Append(Eq(u), l)
      BY <2>2, <2>9 DEF Old, New, Changes
    <3>2. f1 \in Picks(c + 1, x + 1) /\ g1 \in Picks(c + 1, y + 1)
      BY <2>3, <2>4, PicksGrow
    <3>3. \A i \in 1..(c + 1) : Old(w)[f1[i]] = New(w)[g1[i]]
      <4> SUFFICES ASSUME NEW i \in 1..(c + 1) PROVE Old(w)[f1[i]] = New(w)[g1[i]]
        OBVIOUS
      <4>1. CASE i = c + 1
        BY <2>6, <2>8, <3>1, <4>1
      <4>2. CASE i # c + 1
        <5>1. i \in 1..c /\ f1[i] = f[i] /\ g1[i] = g[i]
          BY <2>3, <4>2
        <5>2. Old(w)[f[i]] = Old(u)[f[i]] /\ New(w)[g[i]] = New(u)[g[i]]
          BY <2>5, <2>6, <2>8, <3>1, <5>1
        <5> QED
          BY <2>4, <5>1, <5>2
      <4> QED
        BY <4>1, <4>2
    <3>4. Len(Old(w)) = x + 1 /\ Len(New(w)) = y + 1 /\ Len(Eq(w)) = c + 1
      BY <2>6, <2>8, <3>1
    <3> HIDE DEF f1, g1
    <3>5. CommonAt(Old(w), New(w), x + 1, y + 1, c + 1)
      BY <3>2, <3>3 DEF CommonAt
    <3>6. Len(Old(w)) + Len(New(w)) = Len(Changes(w)) + 2 * Len(Eq(w))
      <4>1. Len(Old(w)) = x + 1 /\ Len(New(w)) = y + 1 /\ Len(Changes(w)) = Len(Changes(u)) /\ Len(Eq(w)) = c + 1
        BY <3>1, <3>4
      <4> HIDE DEF w, c, x, y, Eq
      <4>2. Len(Changes(u)) \in Nat /\ c \in Nat /\ x \in Nat /\ y \in Nat
        BY <2>3
      <4>3. x + y = Len(Changes(u)) + 2 * c
        BY <2>7
      <4>4. (x + 1) + (y + 1) = Len(Changes(u)) + 2 * (c + 1)
        BY <4>2, <4>3
      <4> QED
        BY <4>1, <4>4
    <3> QED
      BY <3>4, <3>5, <3>6
  <2>10. CASE e.kind = "delete"
    <3>1. Old(w) = Append(Old(u), l) /\ New(w) = New(u) /\ Changes(w) = Append(Changes(u), l) /\ Eq(w) = Eq(u)
      BY <2>2, <2>10 DEF Old, New, Changes
    <3>2. f \in Picks(c, x + 1)
      BY <2>3, <2>4, PicksWiden
    <3>3. \A i \in 1..c : Old(w)[f[i]] = New(w)[g[i]]
      BY <2>4, <2>5, <2>6, <2>8, <3>1
    <3>4. Len(Old(w)) = x + 1 /\ Len(Changes(w)) = Len(Changes(u)) + 1
      BY <2>6, <2>8, <3>1
    <3>5. CommonAt(Old(w), New(w), x + 1, y, c)
      BY <2>4, <3>2, <3>3 DEF CommonAt
    <3>6. Len(Old(w)) + Len(New(w)) = Len(Changes(w)) + 2 * Len(Eq(w))
      <4>1. Len(Old(w)) = x + 1 /\ Len(New(w)) = y /\ Len(Changes(w)) = Len(Changes(u)) + 1 /\ Len(Eq(w)) = c
        BY <3>1, <3>4
      <4> HIDE DEF w, c, x, y, Eq
      <4>2. Len(Changes(u)) \in Nat /\ c \in Nat /\ x \in Nat /\ y \in Nat
        BY <2>3
      <4>3. x + y = Len(Changes(u)) + 2 * c
        BY <2>7
      <4>4. (x + 1) + y = (Len(Changes(u)) + 1) + 2 * c
        BY <4>2, <4>3, SMTT(40)
      <4> QED
        BY <4>1, <4>4
    <3> QED
      BY <3>1, <3>4, <3>5, <3>6
  <2>11. CASE e.kind = "insert"
    <3>1. New(w) = Append(New(u), l) /\ Old(w) = Old(u) /\ Changes(w) = Append(Changes(u), l) /\ Eq(w) = Eq(u)
      BY <2>2, <2>11 DEF Old, New, Changes
    <3>2. g \in Picks(c, y + 1)
      BY <2>3, <2>4, PicksWiden
    <3>3. \A i \in 1..c : Old(w)[f[i]] = New(w)[g[i]]
      BY <2>4, <2>5, <2>6, <2>8, <3>1
    <3>4. Len(New(w)) = y + 1 /\ Len(Changes(w)) = Len(Changes(u)) + 1
      BY <2>6, <2>8, <3>1
    <3>5. CommonAt(Old(w), New(w), x, y + 1, c)
      BY <2>4, <3>2, <3>3 DEF CommonAt
    <3>6. Len(Old(w)) + Len(New(w)) = Len(Changes(w)) + 2 * Len(Eq(w))
      <4>1. Len(Old(w)) = x /\ Len(New(w)) = y + 1 /\ Len(Changes(w)) = Len(Changes(u)) + 1 /\ Len(Eq(w)) = c
        BY <3>1, <3>4
      <4> HIDE DEF w, c, x, y, Eq
      <4>2. Len(Changes(u)) \in Nat /\ c \in Nat /\ x \in Nat /\ y \in Nat
        BY <2>3
      <4>3. x + y = Len(Changes(u)) + 2 * c
        BY <2>7
      <4>4. x + (y + 1) = (Len(Changes(u)) + 1) + 2 * c
        BY <4>2, <4>3
      <4> QED
        BY <4>1, <4>4
    <3> QED
      BY <3>1, <3>4, <3>5, <3>6
  <2> QED
    BY <2>1, <2>9, <2>10, <2>11
<1>4. Seq(E) \subseteq T
  <2> HIDE DEF Good
  <2>1. \A u \in Seq(E), e \in E : u \in T => Append(u, e) \in T
    BY <1>3, AppendProperties
  <2> HIDE DEF T, E
  <2> QED
    BY <1>2, <2>1, SeqInduces
<1>5. Good(ops)
  <2> HIDE DEF Good
  <2> QED
    BY <1>4
<1> QED
  BY <1>1, <1>5, LenProperties

-----------------------------------------------------------------------------
(* The furthest points.                                                    *)

\* The diagonals of round d lie between -d and d, each between two of the round before.
LEMMA DiagonalNext ==
  ASSUME NEW d \in Nat, NEW k \in Int
  PROVE  /\ Diagonals(0) = {0}
         /\ k \in Diagonals(d) => -d <= k /\ k <= d /\ -k \in Diagonals(d)
         /\ k \in Diagonals(d) => k + 1 \in Diagonals(d + 1) /\ k - 1 \in Diagonals(d + 1)
         /\ d > 0 /\ k \in Diagonals(d) /\ k # -d => k - 1 \in Diagonals(d - 1)
         /\ d > 0 /\ k \in Diagonals(d) /\ k # d => k + 1 \in Diagonals(d - 1)
BY DEF Diagonals

\* A snake ends where the lines differ, and all the lines along it are equal.
LEMMA SnakeIs ==
  ASSUME NEW L, NEW a \in Seq(L), NEW b \in Seq(L), NEW x \in Nat, NEW k \in Int, x - k \in Nat
  PROVE  LET z == Snake(a, b, x, k)
         IN /\ z \in Nat /\ z >= x
            /\ \A i \in (x + 1)..z : i <= Len(a) /\ i - k <= Len(b) /\ a[i] = b[i - k]
            /\ ~(z < Len(a) /\ z - k < Len(b) /\ a[z + 1] = b[z - k + 1])
<1> DEFINE Equal(i) == x + i < Len(a) /\ x - k + i < Len(b) /\ a[x + i + 1] = b[x - k + i + 1]
           T == {i \in Nat : ~Equal(i)}
           Stops(j) == ~Equal(j) /\ \A i \in 0..(j - 1) : Equal(i)
           max == Bound(a, b)
<1>1. Len(a) \in Nat /\ Len(b) \in Nat /\ max = Len(a) + Len(b)
  BY LenProperties DEF Bound
<1>2. max \in T
  BY <1>1
<1>3. \E j \in 0..max : Stops(j)
  <2>1. PICK j \in T : \A i \in T : ~(i < j)
    <3> HIDE DEF T
    <3>1. T \subseteq Nat
      BY DEF T
    <3> QED
      BY <1>2, <3>1, LeastNumber
  <2>2. j \in 0..max
    <3>1. j \in Nat /\ max \in Nat
      BY <1>1, <2>1
    <3>2. ~(max < j)
      <4> HIDE DEF T, max
      <4> QED
        BY <1>2, <2>1
    <3> HIDE DEF max, T
    <3> QED
      BY ONLY <3>1, <3>2
  <2>3. \A i \in 0..(j - 1) : i \in Nat /\ i < j /\ i \notin T
    <3> HIDE DEF T
    <3> QED
      BY <2>1, <2>2
  <2>4. Stops(j)
    BY <2>1, <2>3
  <2> QED
    BY <2>2, <2>4
<1> DEFINE j == CHOOSE i \in 0..max : Stops(i)
<1>4. j \in 0..max /\ Stops(j)
  <2> HIDE DEF Stops
  <2> QED
    BY <1>3
<1>5. Snake(a, b, x, k) = x + j
  BY DEF Snake
<1> HIDE DEF j
<1>6. j \in Nat /\ x + j >= x
  BY <1>1, <1>4
<1>7. ASSUME NEW i \in (x + 1)..(x + j) PROVE i <= Len(a) /\ i - k <= Len(b) /\ a[i] = b[i - k]
  <2> DEFINE e == i - x - 1
  <2>1. e \in 0..(j - 1) /\ x + e + 1 = i /\ x - k + e + 1 = i - k
    BY <1>6
  <2>2. Equal(e)
    BY <1>4, <2>1
  <2>3. x + e < Len(a) /\ x - k + e < Len(b) /\ a[i] = b[i - k]
    BY <2>1, <2>2
  <2>4. e \in Int /\ x \in Int /\ k \in Int
    BY <2>1
  <2> DEFINE n == Len(a)
             m == Len(b)
  <2>5. n \in Int /\ m \in Int /\ x + e < n /\ x - k + e < m /\ x + e + 1 = i /\ x - k + e + 1 = i - k
    BY <1>1, <2>1, <2>3
  <2> HIDE DEF e, n, m
  <2>6. x + e + 1 <= n /\ x - k + e + 1 <= m
    BY ONLY <2>4, <2>5
  <2>7. i <= n /\ i - k <= m
    BY <2>5, <2>6
  <2> QED
    BY <2>3, <2>7 DEF n, m
<1>8. ~(x + j < Len(a) /\ x + j - k < Len(b) /\ a[x + j + 1] = b[x + j - k + 1])
  <2>1. x - k + j = x + j - k /\ x - k + j + 1 = x + j - k + 1
    BY <1>6
  <2> QED
    BY <1>4, <2>1
<1> QED
  BY <1>5, <1>6, <1>7, <1>8

\* The points that a round may start from.
Reached(max, d) ==
  {v \in [-max..max -> Nat] : d > 0 => \A k \in Diagonals(d - 1) : v[k] - k \in Nat}

\* A round starts on each diagonal from a point next to one of the round before.
LEMMA RoundStarts ==
  ASSUME NEW max \in Nat, NEW d \in 0..max, NEW v \in Reached(max, d), NEW k \in Diagonals(d)
  PROVE  LET x == StartX(v, d, k)
         IN /\ x \in Nat /\ x - k \in Nat /\ k \in -max..max
            /\ d = 0 => x = 0
            /\ d > 0 => IF Inserts(v, d, k) THEN k + 1 \in Diagonals(d - 1) /\ x = v[k + 1] /\ x - k > 0
                        ELSE k - 1 \in Diagonals(d - 1) /\ x = v[k - 1] + 1
            /\ d > 0 /\ k + 1 \in Diagonals(d - 1) => x >= v[k + 1]
            /\ d > 0 /\ k - 1 \in Diagonals(d - 1) => x >= v[k - 1] + 1
<1>1. k \in Int /\ -d <= k /\ k <= d /\ d \in Nat
  BY DEF Diagonals
<1>2. CASE d = 0
  BY <1>1, <1>2, DiagonalNext DEF StartX
<1>3. CASE d > 0
  <2>1. k # -d => k - 1 \in Diagonals(d - 1) /\ k - 1 \in -max..max
    BY <1>1, <1>3, DiagonalNext
  <2>2. k # d => k + 1 \in Diagonals(d - 1) /\ k + 1 \in -max..max
    BY <1>1, <1>3, DiagonalNext
  <2>3. k - 1 \in Diagonals(d - 1) => k # -d
    BY <1>1 DEF Diagonals
  <2>4. k + 1 \in Diagonals(d - 1) => k # d
    BY <1>1 DEF Diagonals
  <2>5. k # -d => v[k - 1] \in Nat /\ v[k - 1] - (k - 1) \in Nat
    BY <1>3, <2>1 DEF Reached
  <2>6. k # d => v[k + 1] \in Nat /\ v[k + 1] - (k + 1) \in Nat
    BY <1>3, <2>2 DEF Reached
  <2>7. CASE Inserts(v, d, k)
    <3>1. k # d
      BY <1>1, <1>3, <2>7 DEF Inserts
    <3>2. StartX(v, d, k) = v[k + 1]
      BY <1>3, <2>7 DEF StartX
    <3>3. k # -d => v[k + 1] >= v[k - 1] + 1
      BY <2>5, <2>6, <2>7, <3>1 DEF Inserts
    <3> QED
      BY <1>1, <1>3, <2>2, <2>3, <2>6, <2>7, <3>1, <3>2, <3>3
  <2>8. CASE ~Inserts(v, d, k)
    <3>1. k # -d
      BY <2>8 DEF Inserts
    <3>2. StartX(v, d, k) = v[k - 1] + 1
      BY <1>3, <2>8 DEF StartX
    <3>3. k # d => v[k - 1] >= v[k + 1]
      BY <2>5, <2>6, <2>8, <3>1 DEF Inserts
    <3> QED
      BY <1>1, <1>3, <2>1, <2>4, <2>5, <2>6, <2>8, <3>1, <3>2, <3>3
  <2> QED
    BY <2>7, <2>8
<1> QED
  BY <1>1, <1>2, <1>3

\* A snake never goes back.
LEMMA SnakeAdvances ==
  ASSUME NEW L, NEW a \in Seq(L), NEW b \in Seq(L), NEW x \in Nat, NEW k \in Int, x - k \in Nat
  PROVE  Snake(a, b, x, k) \in Nat /\ Snake(a, b, x, k) >= x
BY SnakeIs

\* A round leads from furthest points to furthest points.
LEMMA RoundReaches ==
  ASSUME NEW L, NEW a \in Seq(L), NEW b \in Seq(L), NEW max \in Nat, NEW d \in 0..max, NEW v \in Reached(max, d)
  PROVE  Round(a, b, v, d) \in Reached(max, d + 1)
<1> DEFINE z(k) == Snake(a, b, StartX(v, d, k), k)
           w == [k \in -max..max |-> IF k \in Diagonals(d) THEN z(k) ELSE v[k]]
<1>1. ASSUME NEW k \in Diagonals(d) PROVE z(k) \in Nat /\ z(k) - k \in Nat /\ k \in -max..max
  <2> DEFINE x == StartX(v, d, k)
  <2>1. x \in Nat /\ x - k \in Nat /\ k \in -max..max /\ k \in Int
    BY RoundStarts
  <2> HIDE DEF x
  <2>2. Snake(a, b, x, k) \in Nat /\ Snake(a, b, x, k) >= x
    BY <2>1, SnakeAdvances
  <2> DEFINE y == Snake(a, b, x, k)
  <2>3. y \in Nat /\ y >= x
    BY <2>2
  <2> HIDE DEF y
  <2>4. y - k \in Nat
    BY <2>1, <2>3
  <2> QED
    BY <2>1, <2>3, <2>4 DEF x, y
<1>2. v \in [-max..max -> Nat] /\ Round(a, b, v, d) = w
  BY DEF Reached, Round
<1> HIDE DEF z
<1>3. w \in [-max..max -> Nat]
  BY <1>1, <1>2
<1>4. \A k \in Diagonals((d + 1) - 1) : w[k] - k \in Nat
  BY <1>1
<1> HIDE DEF w
<1> QED
  BY <1>2, <1>3, <1>4 DEF Reached

\* The trace is the function that its definition says it is.
LEMMA TraceIs ==
  ASSUME NEW L, NEW a \in Seq(L), NEW b \in Seq(L)
  PROVE  LET T == Trace(a, b)
             max == Bound(a, b)
         IN /\ max \in Nat
            /\ \A d \in 0..max : T[d + 1] = Round(a, b, T[d], d)
            /\ \A d \in 0..(max + 1) : T[d] \in Reached(max, d)
<1> DEFINE max == Bound(a, b)
           base == [k \in -max..max |-> 0]
           S == [d \in 0..(max + 1) |-> Reached(max, d)]
           step == [d \in 1..(max + 1) |-> [v \in Reached(max, d - 1) |-> Round(a, b, v, d - 1)]]
           T == Trace(a, b)
<1>1. max \in Nat
  BY LenProperties DEF Bound
<1> HIDE DEF max
<1>2. base \in S[0]
  BY <1>1 DEF Reached
<1>3. \A d \in 1..(max + 1) : \A v \in S[d - 1] : step[d][v] \in S[d]
  <2> SUFFICES ASSUME NEW d \in 1..(max + 1), NEW v \in S[d - 1] PROVE step[d][v] \in S[d]
    OBVIOUS
  <2>1. d - 1 \in 0..max /\ d \in 0..(max + 1) /\ d - 1 \in 0..(max + 1) /\ (d - 1) + 1 = d
    BY <1>1
  <2>2. v \in Reached(max, d - 1)
    BY <2>1
  <2>3. Round(a, b, v, d - 1) \in Reached(max, (d - 1) + 1)
    BY <1>1, <2>1, <2>2, RoundReaches
  <2> QED
    BY <2>1, <2>2, <2>3
<1>4. \A d \in 1..(max + 1) : S[d - 1] = Reached(max, d - 1)
  BY <1>1
<1>5. \A d \in 0..(max + 1) : S[d] = Reached(max, d)
  OBVIOUS
<1> HIDE DEF S, base
<1>6. max + 1 \in Nat
  BY <1>1
<1>7. PICK f : IsWalk(f, max + 1, base, step) /\ \A d \in 0..(max + 1) : f[d] \in S[d]
  <2> HIDE DEF step
  <2> QED
    BY <1>2, <1>3, <1>6, WalkExists
<1>8. \A d \in 0..(max + 1) : f[d] = IF d = 0 THEN base ELSE Round(a, b, f[d - 1], d - 1)
  <2>1. f[0] = base /\ \A d \in 1..(max + 1) : f[d] = step[d][f[d - 1]]
    BY <1>7 DEF IsWalk
  <2>2. \A d \in 1..(max + 1) : d - 1 \in 0..(max + 1) /\ f[d - 1] \in Reached(max, d - 1)
    BY <1>1, <1>4, <1>7
  <2>3. \A d \in 1..(max + 1) : step[d][f[d - 1]] = Round(a, b, f[d - 1], d - 1)
    BY <2>2
  <2>4. \A d \in 0..(max + 1) : d = 0 \/ d \in 1..(max + 1)
    BY <1>1
  <2> QED
    BY <1>1, <2>1, <2>3, <2>4
<1>9. f = [d \in 0..(max + 1) |-> IF d = 0 THEN base ELSE Round(a, b, f[d - 1], d - 1)]
  BY <1>7, <1>8 DEF IsWalk
<1>10. T = [d \in 0..(max + 1) |-> IF d = 0 THEN base ELSE Round(a, b, T[d - 1], d - 1)]
  BY <1>9 DEF Trace, base, max
<1> HIDE DEF T
<1>11. T[0] = base /\ \A d \in 0..max : T[d + 1] = Round(a, b, T[d], d)
  <2>1. \A d \in 0..max : d + 1 \in 0..(max + 1) /\ d + 1 # 0 /\ (d + 1) - 1 = d /\ 0 \in 0..(max + 1)
    BY <1>1
  <2> QED
    BY <1>1, <1>10, <2>1
<1> DEFINE G == {d \in 0..(max + 1) : T[d] \in Reached(max, d)}
<1>12. 0 \in G
  BY <1>1, <1>2, <1>5, <1>11
<1>13. ASSUME NEW d \in 1..(max + 1), d - 1 \in G PROVE d \in G
  <2>1. d - 1 \in 0..max /\ (d - 1) + 1 = d /\ d \in 0..(max + 1) /\ T[d - 1] \in Reached(max, d - 1)
    BY <1>1, <1>13
  <2>2. Round(a, b, T[d - 1], d - 1) \in Reached(max, (d - 1) + 1)
    BY <1>1, <2>1, RoundReaches
  <2> QED
    BY <1>11, <2>1, <2>2
<1>14. 0..(max + 1) \subseteq G
  <2> HIDE DEF G
  <2> QED
    BY <1>6, <1>12, <1>13, UpToInduces
<1> QED
  BY <1>1, <1>11, <1>14 DEF T, max

\* How far round d leads on diagonal k.
Point(a, b, d, k) == Trace(a, b)[d + 1][k]

\* A point is where a snake ends that starts next to a point of the round before.
LEMMA PointIs ==
  ASSUME NEW L, NEW a \in Seq(L), NEW b \in Seq(L), NEW d \in 0..Bound(a, b), NEW k \in Diagonals(d)
  PROVE  LET v == Trace(a, b)[d]
             s == StartX(v, d, k)
             x == Point(a, b, d, k)
         IN /\ k \in Int /\ s \in Nat /\ s - k \in Nat /\ x \in Nat /\ x >= s
            /\ \A i \in (s + 1)..x : i <= Len(a) /\ i - k <= Len(b) /\ a[i] = b[i - k]
            /\ ~(x < Len(a) /\ x - k < Len(b) /\ a[x + 1] = b[x - k + 1])
            /\ d = 0 => s = 0
            /\ d > 0 => IF Inserts(v, d, k)
                        THEN k + 1 \in Diagonals(d - 1) /\ s = Point(a, b, d - 1, k + 1) /\ s - k > 0
                        ELSE k - 1 \in Diagonals(d - 1) /\ s = Point(a, b, d - 1, k - 1) + 1
            /\ d > 0 /\ k + 1 \in Diagonals(d - 1) => s >= Point(a, b, d - 1, k + 1)
            /\ d > 0 /\ k - 1 \in Diagonals(d - 1) => s >= Point(a, b, d - 1, k - 1) + 1
<1> DEFINE max == Bound(a, b)
           v == Trace(a, b)[d]
           s == StartX(v, d, k)
           x == Point(a, b, d, k)
<1>1. max \in Nat /\ v \in Reached(max, d) /\ Trace(a, b)[d + 1] = Round(a, b, v, d)
  BY TraceIs
<1>2. k \in Int /\ s \in Nat /\ s - k \in Nat /\ k \in -max..max
  BY <1>1, RoundStarts DEF Diagonals
<1>3. x = Snake(a, b, s, k)
  BY <1>1, <1>2 DEF Point, Round, Reached
<1>4. /\ x \in Nat /\ x >= s
      /\ \A i \in (s + 1)..x : i <= Len(a) /\ i - k <= Len(b) /\ a[i] = b[i - k]
      /\ ~(x < Len(a) /\ x - k < Len(b) /\ a[x + 1] = b[x - k + 1])
  <2> DEFINE z == Snake(a, b, s, k)
  <2> HIDE DEF s
  <2>1. /\ z \in Nat /\ z >= s
        /\ \A i \in (s + 1)..z : i <= Len(a) /\ i - k <= Len(b) /\ a[i] = b[i - k]
        /\ ~(z < Len(a) /\ z - k < Len(b) /\ a[z + 1] = b[z - k + 1])
    BY <1>2, SnakeIs, ZenonT(40)
  <2>2. x = z
    BY <1>3
  <2> HIDE DEF x, z
  <2> QED
    BY <2>1, <2>2
<1>5. d > 0 => \A j : v[j] = Point(a, b, d - 1, j)
  <2>1. (d - 1) + 1 = d
    OBVIOUS
  <2> QED
    BY <2>1 DEF Point
<1>6. /\ d = 0 => s = 0
      /\ d > 0 => IF Inserts(v, d, k) THEN k + 1 \in Diagonals(d - 1) /\ s = v[k + 1] /\ s - k > 0
                  ELSE k - 1 \in Diagonals(d - 1) /\ s = v[k - 1] + 1
      /\ d > 0 /\ k + 1 \in Diagonals(d - 1) => s >= v[k + 1]
      /\ d > 0 /\ k - 1 \in Diagonals(d - 1) => s >= v[k - 1] + 1
  BY <1>1, RoundStarts
<1> HIDE DEF v, s, x
<1>7. /\ d > 0 => IF Inserts(v, d, k)
                  THEN k + 1 \in Diagonals(d - 1) /\ s = Point(a, b, d - 1, k + 1) /\ s - k > 0
                  ELSE k - 1 \in Diagonals(d - 1) /\ s = Point(a, b, d - 1, k - 1) + 1
      /\ d > 0 /\ k + 1 \in Diagonals(d - 1) => s >= Point(a, b, d - 1, k + 1)
      /\ d > 0 /\ k - 1 \in Diagonals(d - 1) => s >= Point(a, b, d - 1, k - 1) + 1
  BY <1>5, <1>6
<1> QED
  BY <1>2, <1>4, <1>6, <1>7 DEF v, s, x

\* There the lines differ, or one of the texts is over.
LEMMA PointEnds ==
  ASSUME NEW L, NEW a \in Seq(L), NEW b \in Seq(L), NEW d \in 0..Bound(a, b), NEW k \in Diagonals(d)
  PROVE  LET x == Point(a, b, d, k)
         IN x \in Nat /\ ~(x < Len(a) /\ x - k < Len(b) /\ a[x + 1] = b[x - k + 1])
BY PointIs, SMTT(40)

\* It starts no further than it ends, after equal lines.
LEMMA PointComes ==
  ASSUME NEW L, NEW a \in Seq(L), NEW b \in Seq(L), NEW d \in 0..Bound(a, b), NEW k \in Diagonals(d)
  PROVE  LET v == Trace(a, b)[d]
             s == StartX(v, d, k)
         IN /\ s \in Nat /\ s - k \in Nat /\ s <= Point(a, b, d, k)
            /\ \A i \in (s + 1)..Point(a, b, d, k) : a[i] = b[i - k]
            /\ d = 0 => s = 0
            /\ d > 0 => IF Inserts(v, d, k)
                        THEN k + 1 \in Diagonals(d - 1) /\ s = Point(a, b, d - 1, k + 1) /\ s - k > 0
                        ELSE k - 1 \in Diagonals(d - 1) /\ s = Point(a, b, d - 1, k - 1) + 1
<1> DEFINE v == Trace(a, b)[d]
           s == StartX(v, d, k)
           x == Point(a, b, d, k)
<1>1. /\ k \in Int /\ s \in Nat /\ s - k \in Nat /\ x \in Nat /\ x >= s
      /\ \A i \in (s + 1)..x : i <= Len(a) /\ i - k <= Len(b) /\ a[i] = b[i - k]
      /\ d = 0 => s = 0
      /\ d > 0 => IF Inserts(v, d, k)
                  THEN k + 1 \in Diagonals(d - 1) /\ s = Point(a, b, d - 1, k + 1) /\ s - k > 0
                  ELSE k - 1 \in Diagonals(d - 1) /\ s = Point(a, b, d - 1, k - 1) + 1
  BY PointIs
<1> HIDE DEF s, x
<1>2. s <= x
  BY <1>1
<1> QED
  BY <1>1, <1>2 DEF s, x

\* The next round leads at least as far, by inserting a line or by deleting one.
LEMMA NextRound ==
  ASSUME NEW L, NEW a \in Seq(L), NEW b \in Seq(L), NEW d \in Nat, d + 1 <= Bound(a, b), NEW k \in Diagonals(d)
  PROVE  LET x == Point(a, b, d, k)
         IN /\ x \in Nat
            /\ k - 1 \in Diagonals(d + 1) /\ Point(a, b, d + 1, k - 1) \in Nat /\ Point(a, b, d + 1, k - 1) >= x
            /\ k + 1 \in Diagonals(d + 1) /\ Point(a, b, d + 1, k + 1) \in Nat /\ Point(a, b, d + 1, k + 1) >= x + 1
<1> DEFINE e == d + 1
           P(f, j) == Point(a, b, f, j)
           S(j) == StartX(Trace(a, b)[e], e, j)
<1>1. k \in Int /\ Bound(a, b) \in Nat /\ d \in 0..Bound(a, b) /\ e \in 0..Bound(a, b) /\ e > 0 /\ e - 1 = d
  BY TraceIs DEF Diagonals
<1>2. k - 1 \in Diagonals(e) /\ k + 1 \in Diagonals(e) /\ (k - 1) + 1 = k /\ (k + 1) - 1 = k
  BY <1>1, DiagonalNext
<1> HIDE DEF e
<1>3. P(d, k) \in Nat
  BY <1>1, PointIs
<1>4. P(e, k - 1) \in Nat /\ S(k - 1) \in Nat /\ P(e, k - 1) >= S(k - 1) /\ S(k - 1) >= P(d, k)
  <2> DEFINE j == k - 1
  <2> HIDE DEF j
  <2>1. j \in Diagonals(e) /\ j + 1 = k
    BY <1>2 DEF j
  <2>2. P(e, j) \in Nat /\ S(j) \in Nat /\ P(e, j) >= S(j) /\ S(j) >= P(e - 1, j + 1)
    BY <1>1, <2>1, PointIs
  <2> QED
    BY <1>1, <2>1, <2>2 DEF j
<1>5. P(e, k + 1) \in Nat /\ S(k + 1) \in Nat /\ P(e, k + 1) >= S(k + 1) /\ S(k + 1) >= P(d, k) + 1
  <2> DEFINE j == k + 1
  <2> HIDE DEF j
  <2>1. j \in Diagonals(e) /\ j - 1 = k
    BY <1>2 DEF j
  <2>2. P(e, j) \in Nat /\ S(j) \in Nat /\ P(e, j) >= S(j) /\ S(j) >= P(e - 1, j - 1) + 1
    BY <1>1, <2>1, PointIs, ZenonT(40)
  <2> QED
    BY <1>1, <2>1, <2>2 DEF j
<1>6. P(e, k - 1) >= P(d, k) /\ P(e, k + 1) >= P(d, k) + 1
  <2> HIDE DEF P, S
  <2> QED
    BY <1>3, <1>4, <1>5
<1> QED
  BY <1>2, <1>3, <1>4, <1>5, <1>6 DEF e

\* A point beyond the end of a text is no further than a round earlier can be on the next diagonal.
LEMMA PastTheEnd ==
  ASSUME NEW L, NEW a \in Seq(L), NEW b \in Seq(L), NEW d \in 0..Bound(a, b), NEW k \in Diagonals(d)
  PROVE  /\ Point(a, b, d, k) > Len(a) =>
              d > 0 /\ k - 1 \in Diagonals(d - 1) /\ Point(a, b, d - 1, k - 1) >= Point(a, b, d, k) - 1
         /\ Point(a, b, d, k) - k > Len(b) =>
              d > 0 /\ k + 1 \in Diagonals(d - 1) /\ Point(a, b, d - 1, k + 1) >= Point(a, b, d, k)
<1> DEFINE max == Bound(a, b)
           P(e, j) == Point(a, b, e, j)
           PastA(e, j) == P(e, j) > Len(a) => e > 0 /\ j - 1 \in Diagonals(e - 1) /\ P(e - 1, j - 1) >= P(e, j) - 1
           PastB(e, j) == P(e, j) - j > Len(b) => e > 0 /\ j + 1 \in Diagonals(e - 1) /\ P(e - 1, j + 1) >= P(e, j)
           T == {e \in 0..max : \A j \in Diagonals(e) : PastA(e, j) /\ PastB(e, j)}
<1>1. max \in Nat /\ Len(a) \in Nat /\ Len(b) \in Nat
  BY LenProperties DEF Bound
<1>2. ASSUME NEW e \in 0..max, e > 0 => e - 1 \in T, NEW j \in Diagonals(e)
      PROVE  PastA(e, j) /\ PastB(e, j)
  <2> DEFINE v == Trace(a, b)[e]
             s == StartX(v, e, j)
  <2>1. /\ j \in Int /\ s \in Nat /\ P(e, j) \in Nat /\ P(e, j) >= s
        /\ \A i \in (s + 1)..P(e, j) : i <= Len(a) /\ i - j <= Len(b)
        /\ e = 0 => s = 0
        /\ e > 0 => IF Inserts(v, e, j) THEN j + 1 \in Diagonals(e - 1) /\ s = P(e - 1, j + 1)
                    ELSE j - 1 \in Diagonals(e - 1) /\ s = P(e - 1, j - 1) + 1
    BY PointIs, SMTT(40)
  <2>2. \A i \in Diagonals(e - 1) : e > 0 => P(e - 1, i) \in Nat /\ i \in Int
    <3> SUFFICES ASSUME NEW i \in Diagonals(e - 1), e > 0 PROVE P(e - 1, i) \in Nat /\ i \in Int
      OBVIOUS
    <3>1. e - 1 \in 0..max
      BY <1>1
    <3> QED
      BY <3>1, PointIs
  <2>3. e = 0 => j = 0
    BY DiagonalNext
  <2> HIDE DEF v, s
  <2>4. PastA(e, j)
    <3> SUFFICES ASSUME P(e, j) > Len(a) PROVE e > 0 /\ j - 1 \in Diagonals(e - 1) /\ P(e - 1, j - 1) >= P(e, j) - 1
      OBVIOUS
    <3>1. P(e, j) = s /\ e > 0
      <4> HIDE DEF P
      <4> QED
        BY <1>1, <2>1
    <3>2. CASE ~Inserts(v, e, j)
      <4> HIDE DEF P
      <4> QED
        BY <2>1, <2>2, <3>1, <3>2, SMTT(40)
    <3>3. CASE Inserts(v, e, j)
      <4>1. j + 1 \in Diagonals(e - 1) /\ P(e - 1, j + 1) = P(e, j)
        BY <2>1, <3>1, <3>3
      <4>2. e - 1 \in 0..max /\ PastA(e - 1, j + 1)
        BY <1>1, <1>2, <3>1, <4>1
      <4>3. e - 1 > 0 /\ j \in Diagonals(e - 2) /\ P(e - 2, j) >= P(e, j) - 1
        <5>1. (j + 1) - 1 = j /\ (e - 1) - 1 = e - 2
          BY <2>1
        <5> QED
          BY <4>1, <4>2, <5>1
      <4>4. j - 1 \in Diagonals(e - 1) /\ P(e - 2, j) \in Nat /\ P(e - 1, j - 1) \in Nat /\ P(e - 1, j - 1) >= P(e - 2, j)
        <5>1. e - 2 \in Nat /\ (e - 2) + 1 = e - 1 /\ (e - 2) + 1 <= max
          BY <1>1, <3>1, <4>3
        <5> QED
          BY <4>3, <5>1, NextRound
      <4> HIDE DEF P
      <4> QED
        BY <2>1, <3>1, <4>3, <4>4, SMTT(40)
    <3> QED
      BY <3>2, <3>3
  <2>5. PastB(e, j)
    <3> SUFFICES ASSUME P(e, j) - j > Len(b) PROVE e > 0 /\ j + 1 \in Diagonals(e - 1) /\ P(e - 1, j + 1) >= P(e, j)
      OBVIOUS
    <3>1. P(e, j) = s /\ e > 0
      <4> HIDE DEF P
      <4> QED
        BY <1>1, <2>1, <2>3, SMTT(40)
    <3>2. CASE Inserts(v, e, j)
      <4> HIDE DEF P
      <4> QED
        BY <2>1, <2>2, <3>1, <3>2
    <3>3. CASE ~Inserts(v, e, j)
      <4>1. j - 1 \in Diagonals(e - 1) /\ P(e - 1, j - 1) = P(e, j) - 1
        <5> HIDE DEF P
        <5> QED
          BY <2>1, <2>2, <3>1, <3>3, SMTT(40)
      <4>2. e - 1 \in 0..max /\ PastB(e - 1, j - 1)
        BY <1>1, <1>2, <3>1, <4>1
      <4>3. e - 1 > 0 /\ j \in Diagonals(e - 2) /\ P(e - 2, j) >= P(e, j) - 1
        <5>1. (j - 1) + 1 = j /\ (e - 1) - 1 = e - 2 /\ P(e - 1, j - 1) - (j - 1) > Len(b)
          <6> HIDE DEF P
          <6> QED
            BY <1>1, <2>1, <4>1
        <5> QED
          BY <4>1, <4>2, <5>1
      <4>4. j + 1 \in Diagonals(e - 1) /\ P(e - 2, j) \in Nat /\ P(e - 1, j + 1) \in Nat /\ P(e - 1, j + 1) >= P(e - 2, j) + 1
        <5>1. e - 2 \in Nat /\ (e - 2) + 1 = e - 1 /\ (e - 2) + 1 <= max
          BY <1>1, <3>1, <4>3
        <5> QED
          BY <4>3, <5>1, NextRound
      <4> HIDE DEF P
      <4> QED
        BY <2>1, <3>1, <4>3, <4>4, SMTT(40)
    <3> QED
      BY <3>2, <3>3
  <2> QED
    BY <2>4, <2>5
<1>3. 0 \in T
  <2> HIDE DEF PastA, PastB
  <2> QED
    BY <1>1, <1>2
<1>4. ASSUME NEW e \in 1..max, e - 1 \in T PROVE e \in T
  <2>1. e \in 0..max
    OBVIOUS
  <2> HIDE DEF PastA, PastB
  <2> QED
    BY <1>2, <1>4, <2>1
<1>5. 0..max \subseteq T
  <2> HIDE DEF T, max
  <2> QED
    BY <1>1, <1>3, <1>4, UpToInduces
<1>6. PastA(d, k) /\ PastB(d, k)
  <2> HIDE DEF PastA, PastB
  <2> QED
    BY <1>5
<1> QED
  BY <1>6

\* Picks of fewer lines, and of a shorter text.
LEMMA PicksShrink ==
  ASSUME NEW c \in Nat, NEW x \in Nat, NEW f \in Picks(c, x)
  PROVE  /\ c > 0 => f[c] \in 1..x /\ x > 0
         /\ x > 0 /\ (c > 0 => f[c] # x) => f \in Picks(c, x - 1)
         /\ c > 0 => [i \in 1..(c - 1) |-> f[i]] \in Picks(c - 1, x - 1)
<1>1. f \in [1..c -> 1..x] /\ \A i, j \in 1..c : i < j => f[i] < f[j]
  BY DEF Picks
<1>2. c > 0 => f[c] \in 1..x /\ x > 0
  BY <1>1
<1>3. ASSUME x > 0, c > 0 => f[c] # x PROVE f \in Picks(c, x - 1)
  <2>1. ASSUME NEW i \in 1..c PROVE f[i] \in 1..(x - 1)
    <3>1. c \in 1..c /\ f[c] \in 1..x /\ f[c] # x /\ f[i] \in 1..x
      BY <1>1, <1>3
    <3>2. i = c \/ f[i] < f[c]
      BY <1>1, <3>1
    <3> QED
      BY <3>1, <3>2
  <2>2. f \in [1..c -> 1..(x - 1)]
    BY <1>1, <2>1
  <2> QED
    BY <1>1, <2>2 DEF Picks
<1>4. ASSUME c > 0 PROVE [i \in 1..(c - 1) |-> f[i]] \in Picks(c - 1, x - 1)
  <2> DEFINE g == [i \in 1..(c - 1) |-> f[i]]
  <2>1. ASSUME NEW i \in 1..(c - 1) PROVE f[i] \in 1..(x - 1)
    <3>1. c \in 1..c /\ i \in 1..c /\ i < c /\ f[c] \in 1..x /\ f[i] \in 1..x
      BY <1>1, <1>4
    <3> QED
      BY <1>1, <3>1
  <2>2. g \in [1..(c - 1) -> 1..(x - 1)]
    BY <2>1
  <2>3. \A i, j \in 1..(c - 1) : i < j => g[i] < g[j]
    <3>1. \A i \in 1..(c - 1) : i \in 1..c
      OBVIOUS
    <3> QED
      BY <1>1, <3>1
  <2> HIDE DEF g
  <2>4. g \in Picks(c - 1, x - 1)
    BY <2>2, <2>3 DEF Picks
  <2> QED
    BY <2>4 DEF g
<1> QED
  BY <1>2, <1>3, <1>4

\* With fewer common lines, there is a longer one to leave out.
LEMMA CommonShrinks ==
  ASSUME NEW a, NEW b, NEW x \in Nat, NEW y \in Nat, NEW c \in Nat, CommonAt(a, b, x, y, c + 1)
  PROVE  CommonAt(a, b, x, y, c)
<1>1. PICK f \in Picks(c + 1, x), g \in Picks(c + 1, y) : \A i \in 1..(c + 1) : a[f[i]] = b[g[i]]
  BY DEF CommonAt
<1> DEFINE f1 == [i \in 1..c |-> f[i]]
           g1 == [i \in 1..c |-> g[i]]
           e == c + 1
<1>2. e \in Nat /\ e > 0 /\ e - 1 = c
  OBVIOUS
<1>3. x > 0 /\ y > 0 /\ f1 \in Picks(c, x - 1) /\ g1 \in Picks(c, y - 1)
  <2> HIDE DEF e
  <2>1. f \in Picks(e, x) /\ g \in Picks(e, y)
    BY <1>1 DEF e
  <2>2. x > 0 /\ [i \in 1..(e - 1) |-> f[i]] \in Picks(e - 1, x - 1)
    BY <1>2, <2>1, PicksShrink
  <2>3. y > 0 /\ [i \in 1..(e - 1) |-> g[i]] \in Picks(e - 1, y - 1)
    BY <1>2, <2>1, PicksShrink
  <2> QED
    BY <1>2, <2>2, <2>3
<1>4. \A i \in 1..c : a[f1[i]] = b[g1[i]]
  BY <1>1
<1> HIDE DEF f1, g1
<1>5. f1 \in Picks(c, x) /\ g1 \in Picks(c, y)
  <2>1. (x - 1) + 1 = x /\ (y - 1) + 1 = y /\ x - 1 \in Nat /\ y - 1 \in Nat
    BY <1>3
  <2> QED
    BY <1>3, <2>1, PicksWiden
<1> QED
  BY <1>4, <1>5 DEF CommonAt

\* No path with as many common lines gets further in the same number of rounds.
LEMMA Furthest ==
  ASSUME NEW L, NEW a \in Seq(L), NEW b \in Seq(L), NEW x \in 0..Len(a), NEW y \in 0..Len(b), NEW c \in Nat,
         CommonAt(a, b, x, y, c)
  PROVE  LET d == x + y - 2 * c
         IN d \in Nat /\ x - y \in Diagonals(d) /\ Point(a, b, d, x - y) >= x
<1> DEFINE n == Len(a)
           m == Len(b)
           max == Bound(a, b)
           P(d, k) == Point(a, b, d, k)
           Far(i, j, e) == LET d == i + j - 2 * e IN d \in Nat /\ i - j \in Diagonals(d) /\ P(d, i - j) >= i
           T == {t \in 0..max : \A i \in 0..n, j \in 0..m, e \in Nat :
                                  i + j <= t /\ CommonAt(a, b, i, j, e) => Far(i, j, e)}
<1>1. n \in Nat /\ m \in Nat /\ max = n + m /\ max \in Nat
  BY LenProperties DEF Bound
<1>2. ASSUME NEW t \in 0..max, t > 0 => t - 1 \in T, NEW i \in 0..n, NEW j \in 0..m, NEW e \in Nat,
             i + j <= t, CommonAt(a, b, i, j, e)
      PROVE  Far(i, j, e)
  <2>1. PICK f \in Picks(e, i), g \in Picks(e, j) : \A q \in 1..e : a[f[q]] = b[g[q]]
    BY <1>2 DEF CommonAt
  <2>2. /\ e > 0 => f[e] \in 1..i /\ i > 0 /\ g[e] \in 1..j /\ j > 0
        /\ i > 0 /\ (e > 0 => f[e] # i) => f \in Picks(e, i - 1)
        /\ j > 0 /\ (e > 0 => g[e] # j) => g \in Picks(e, j - 1)
    <3>1. i \in Nat /\ j \in Nat
      BY <1>1
    <3>2. /\ e > 0 => f[e] \in 1..i /\ i > 0
          /\ i > 0 /\ (e > 0 => f[e] # i) => f \in Picks(e, i - 1)
      BY <2>1, <3>1, PicksShrink
    <3>3. /\ e > 0 => g[e] \in 1..j /\ j > 0
          /\ j > 0 /\ (e > 0 => g[e] # j) => g \in Picks(e, j - 1)
      BY <2>1, <3>1, PicksShrink
    <3> QED
      BY <3>2, <3>3
  <2>3. CASE i > 0 /\ (e > 0 => f[e] # i)
    <3> DEFINE d == (i - 1) + j - 2 * e
               k == (i - 1) - j
    <3>1. CommonAt(a, b, i - 1, j, e)
      BY <2>1, <2>2, <2>3 DEF CommonAt
    <3>2. t - 1 \in T /\ i - 1 \in 0..n /\ (i - 1) + j <= t - 1
      BY <1>1, <1>2, <2>3, SMTT(40)
    <3>3. Far(i - 1, j, e)
      BY <3>1, <3>2
    <3>4. d \in Nat /\ k \in Diagonals(d) /\ P(d, k) >= i - 1
      BY <3>3
    <3>5. d + 1 = i + j - 2 * e /\ k + 1 = i - j /\ d + 1 <= max
      BY <1>1
    <3> HIDE DEF d, k
    <3>6. P(d, k) \in Nat /\ k + 1 \in Diagonals(d + 1) /\ P(d + 1, k + 1) \in Nat /\ P(d + 1, k + 1) >= P(d, k) + 1
      BY <3>4, <3>5, NextRound
    <3>7. P(d + 1, k + 1) >= i
      <4> HIDE DEF P
      <4> QED
        BY <3>4, <3>6, SMTT(40)
    <3> QED
      BY <3>4, <3>5, <3>6, <3>7, SMTT(40)
  <2>4. CASE j > 0 /\ (e > 0 => g[e] # j)
    <3> DEFINE d == i + (j - 1) - 2 * e
               k == i - (j - 1)
    <3>1. CommonAt(a, b, i, j - 1, e)
      BY <2>1, <2>2, <2>4 DEF CommonAt
    <3>2. t - 1 \in T /\ j - 1 \in 0..m /\ i + (j - 1) <= t - 1
      BY <1>1, <1>2, <2>4, SMTT(40)
    <3>3. Far(i, j - 1, e)
      BY <3>1, <3>2
    <3>4. d \in Nat /\ k \in Diagonals(d) /\ P(d, k) >= i
      BY <3>3
    <3>5. d + 1 = i + j - 2 * e /\ k - 1 = i - j /\ d + 1 <= max
      BY <1>1
    <3> HIDE DEF d, k
    <3>6. P(d, k) \in Nat /\ k - 1 \in Diagonals(d + 1) /\ P(d + 1, k - 1) \in Nat /\ P(d + 1, k - 1) >= P(d, k)
      BY <3>4, <3>5, NextRound
    <3>7. P(d + 1, k - 1) >= i
      <4> HIDE DEF P
      <4> QED
        BY <3>4, <3>6, SMTT(40)
    <3> QED
      BY <3>4, <3>5, <3>6, <3>7, SMTT(40)
  <2>5. CASE e > 0 /\ f[e] = i /\ g[e] = j
    <3> DEFINE f1 == [q \in 1..(e - 1) |-> f[q]]
               g1 == [q \in 1..(e - 1) |-> g[q]]
               d == i + j - 2 * e
               k == i - j
    <3>1. f1 \in Picks(e - 1, i - 1) /\ g1 \in Picks(e - 1, j - 1) /\ \A q \in 1..(e - 1) : a[f1[q]] = b[g1[q]]
      BY <2>1, <2>5, PicksShrink, SMTT(40)
    <3>2. CommonAt(a, b, i - 1, j - 1, e - 1)
      <4> HIDE DEF f1, g1
      <4> QED
        BY <3>1 DEF CommonAt
    <3>3. e - 1 \in Nat /\ i - 1 \in 0..n /\ j - 1 \in 0..m /\ (i - 1) + (j - 1) <= t - 1 /\ t - 1 \in T
      BY <1>1, <1>2, <2>2, <2>5, SMTT(40)
    <3>4. Far(i - 1, j - 1, e - 1)
      BY <3>2, <3>3
    <3>5. (i - 1) + (j - 1) - 2 * (e - 1) = d /\ (i - 1) - (j - 1) = k
      OBVIOUS
    <3>6. d \in Nat /\ k \in Diagonals(d) /\ P(d, k) >= i - 1
      BY <3>4, <3>5
    <3>7. a[i] = b[j] /\ d \in 0..max /\ k \in Int /\ i - 1 < n /\ j - 1 < m
      <4>1. d >= 0 /\ d <= i + j /\ i <= n /\ j <= m
        BY <1>1, <3>6
      <4>2. a[i] = b[j]
        BY <2>1, <2>5
      <4>3. d \in Nat /\ i \in 0..n /\ j \in 0..m /\ k \in Int
        BY <1>1, <3>6
      <4> HIDE DEF d, k, n, m, max
      <4>4. d \in 0..max
        BY ONLY <1>1, <4>1, <4>3
      <4>5. i - 1 < n /\ j - 1 < m
        BY ONLY <1>1, <4>3
      <4> QED
        BY <4>2, <4>3, <4>4, <4>5
    <3> HIDE DEF d
    <3>8. P(d, k) \in Nat /\ ~(P(d, k) < n /\ P(d, k) - k < m /\ a[P(d, k) + 1] = b[P(d, k) - k + 1])
      <4> HIDE DEF k
      <4> QED
        BY <3>6, <3>7, PointEnds
    <3>9. P(d, k) # i - 1
      <4> SUFFICES ASSUME P(d, k) = i - 1 PROVE FALSE
        OBVIOUS
      <4>1. P(d, k) + 1 = i /\ P(d, k) - k = j - 1 /\ P(d, k) - k + 1 = j
        BY SMTT(40)
      <4> QED
        BY <3>7, <3>8, <4>1
    <3>10. P(d, k) >= i
      <4> HIDE DEF P, k
      <4> QED
        BY <3>6, <3>8, <3>9, SMTT(40)
    <3> QED
      BY <3>6, <3>10 DEF d
  <2>6. CASE i = 0 /\ j = 0 /\ e = 0
    <3>1. 0 \in Diagonals(0) /\ 0 \in 0..max
      BY <1>1, DiagonalNext, SMTT(40)
    <3>2. P(0, 0) \in Nat
      BY <3>1, PointIs
    <3> QED
      BY <2>6, <3>1, <3>2
  <2> QED
    BY <2>2, <2>3, <2>4, <2>5, <2>6
<1>3. 0 \in T
  <2> HIDE DEF Far
  <2> QED
    BY <1>1, <1>2
<1>4. ASSUME NEW t \in 1..max, t - 1 \in T PROVE t \in T
  <2>1. t \in 0..max
    OBVIOUS
  <2> HIDE DEF Far
  <2> QED
    BY <1>2, <1>4, <2>1
<1>5. 0..max \subseteq T
  <2> HIDE DEF T, max
  <2> QED
    BY <1>1, <1>3, <1>4, UpToInduces
<1>6. x + y \in T /\ x + y <= x + y
  <2>1. x \in 0..n /\ y \in 0..m
    OBVIOUS
  <2> HIDE DEF T, max, n, m
  <2>2. x + y \in 0..max /\ x + y <= x + y
    BY ONLY <1>1, <2>1
  <2> QED
    BY <1>5, <2>2
<1>7. Far(x, y, c)
  <2> HIDE DEF Far
  <2> QED
    BY <1>6
<1> QED
  BY <1>7

\* No line is common to any two texts.
LEMMA CommonNone == ASSUME NEW a, NEW b, NEW x \in Nat, NEW y \in Nat PROVE CommonAt(a, b, x, y, 0)
<1> DEFINE f == [i \in 1..0 |-> 0]
<1>1. \A z \in Nat : f \in [1..0 -> 1..z] /\ \A i, j \in 1..0 : i < j => f[i] < f[j]
  OBVIOUS
<1> HIDE DEF f
<1>2. \A z \in Nat : f \in Picks(0, z)
  BY <1>1 DEF Picks
<1>3. f \in Picks(0, x) /\ f \in Picks(0, y) /\ \A i \in 1..0 : a[f[i]] = b[f[i]]
  BY <1>2
<1> QED
  BY <1>3 DEF CommonAt

\* The first round that finds the end of both texts is there, ends exactly at their end, and is no
\* later than any common subsequence calls for.
LEMMA FinalRoundIs ==
  ASSUME NEW L, NEW a \in Seq(L), NEW b \in Seq(L)
  PROVE  LET last == FinalRound(a, b)
             k == Len(a) - Len(b)
         IN /\ last \in 0..Bound(a, b) /\ k \in Diagonals(last) /\ Point(a, b, last, k) = Len(a)
            /\ \A c \in Nat : CommonAt(a, b, Len(a), Len(b), c) => last <= Len(a) + Len(b) - 2 * c
<1> DEFINE n == Len(a)
           m == Len(b)
           max == Bound(a, b)
           P(d, j) == Point(a, b, d, j)
           F(d) == Found(a, b, d)
           last == FinalRound(a, b)
           T == {d \in 0..max : F(d)}
           First(d) == F(d) /\ \A e \in 0..(d - 1) : ~F(e)
<1>1. n \in Nat /\ m \in Nat /\ max = n + m /\ max \in Nat
  BY LenProperties DEF Bound
<1>2. \A d : F(d) <=> \E j \in Diagonals(d) : P(d, j) >= n /\ P(d, j) - j >= m
  BY DEF Found, Point
<1>3. ASSUME NEW c \in Nat, CommonAt(a, b, n, m, c) PROVE n + m - 2 * c \in T
  <2> DEFINE d == n + m - 2 * c
             j == n - m
  <2>1. d \in Nat /\ j \in Diagonals(d) /\ P(d, j) >= n
    BY <1>1, <1>3, Furthest
  <2>2. d \in 0..max /\ j \in Int
    BY <1>1, <2>1
  <2>3. P(d, j) \in Nat
    <3> HIDE DEF d, j
    <3> QED
      BY <2>1, <2>2, PointIs
  <2>4. P(d, j) - j >= m
    <3> HIDE DEF P, d
    <3> QED
      BY <1>1, <2>1, <2>3
  <2>5. F(d)
    <3> HIDE DEF d, j, F, P
    <3> QED
      BY <1>2, <2>1, <2>4
  <2> HIDE DEF F
  <2> QED
    BY <2>2, <2>5
<1> HIDE DEF F
<1>4. T # {}
  BY <1>1, <1>3, CommonNone
<1>5. PICK d \in T : \A e \in T : ~(e < d)
  <2>1. T \subseteq Nat
    OBVIOUS
  <2> HIDE DEF T
  <2> QED
    BY <1>4, <2>1, LeastNumber
<1>6. \A e \in 0..(d - 1) : ~F(e)
  <2>1. \A e \in 0..(d - 1) : e \in 0..max /\ e < d
    BY <1>1
  <2> QED
    BY <1>5, <2>1
<1>7. last \in 0..max /\ First(last)
  <2>1. \E e \in 0..max : First(e)
    BY <1>5, <1>6
  <2>2. last = CHOOSE e \in 0..max : First(e)
    BY DEF FinalRound, F
  <2> HIDE DEF First, last
  <2> QED
    BY <2>1, <2>2
<1> HIDE DEF last
<1>8. PICK k \in Diagonals(last) : P(last, k) >= n /\ P(last, k) - k >= m
  BY <1>2, <1>7
<1>9. k \in Int /\ P(last, k) \in Nat
  BY <1>7, <1>8, PointIs
<1>10. ASSUME last > 0 PROVE last - 1 \in 0..max /\ ~F(last - 1)
  BY <1>1, <1>7, <1>10
<1>11. P(last, k) <= n
  <2> SUFFICES ASSUME P(last, k) > n PROVE FALSE
    <3> HIDE DEF P
    <3> QED
      BY <1>1, <1>9
  <2> DEFINE e == last - 1
             j == k - 1
  <2>1. last > 0 /\ j \in Diagonals(e) /\ P(e, j) >= P(last, k) - 1
    BY <1>7, <1>8, PastTheEnd
  <2>2. e \in 0..max /\ ~F(e) /\ j \in Int
    BY <1>9, <1>10, <2>1
  <2>3. P(e, j) \in Nat
    <3> HIDE DEF e, j
    <3> QED
      BY <2>1, <2>2, PointIs
  <2>4. P(e, j) >= n /\ P(e, j) - j >= m
    <3> HIDE DEF P, e
    <3> QED
      BY <1>1, <1>8, <1>9, <2>1, <2>3
  <2> HIDE DEF e, j, P
  <2> QED
    BY <1>2, <2>1, <2>2, <2>4
<1>12. P(last, k) - k <= m
  <2> SUFFICES ASSUME P(last, k) - k > m PROVE FALSE
    <3> HIDE DEF P
    <3> QED
      BY <1>1, <1>9
  <2> DEFINE e == last - 1
             j == k + 1
  <2>1. last > 0 /\ j \in Diagonals(e) /\ P(e, j) >= P(last, k)
    BY <1>7, <1>8, PastTheEnd
  <2>2. e \in 0..max /\ ~F(e) /\ j \in Int
    BY <1>9, <1>10, <2>1
  <2>3. P(e, j) \in Nat
    <3> HIDE DEF e, j
    <3> QED
      BY <2>1, <2>2, PointIs
  <2>4. P(e, j) >= n /\ P(e, j) - j >= m
    <3> HIDE DEF P, e
    <3> QED
      BY <1>1, <1>8, <1>9, <2>1, <2>3
  <2> HIDE DEF e, j, P
  <2> QED
    BY <1>2, <2>1, <2>2, <2>4
<1>13. P(last, k) = n /\ k = n - m
  <2> HIDE DEF P
  <2> QED
    BY <1>1, <1>8, <1>9, <1>11, <1>12
<1>14. ASSUME NEW c \in Nat, CommonAt(a, b, n, m, c) PROVE last <= n + m - 2 * c
  <2>1. n + m - 2 * c \in T
    BY <1>3, <1>14
  <2>2. n + m - 2 * c \notin 0..(last - 1)
    BY <1>7, <2>1
  <2> QED
    BY <1>1, <1>7, <2>1, <2>2
<1> QED
  BY <1>7, <1>8, <1>13, <1>14 DEF last

-----------------------------------------------------------------------------
(* The way back.                                                           *)

\* Lines that are equal one by one are the same part of both texts.
LEMMA SameLines ==
  ASSUME NEW L, NEW a \in Seq(L), NEW b \in Seq(L), NEW i \in Nat, NEW j \in Nat, NEW x \in i..Len(a),
         NEW y \in j..Len(b), x - i = y - j, \A q \in (i + 1)..x : a[q] = b[q - i + j]
  PROVE  SubSeq(a, i + 1, x) = SubSeq(b, j + 1, y)
<1> DEFINE s == SubSeq(a, i + 1, x)
           t == SubSeq(b, j + 1, y)
           n == x - i
<1>1. \A q \in (i + 1)..x : a[q] \in L
  <2>1. \A q \in (i + 1)..x : q \in 1..Len(a)
    BY LenProperties
  <2> QED
    BY <2>1, ElementOfSeq
<1>2. \A q \in (j + 1)..y : b[q] \in L
  <2>1. \A q \in (j + 1)..y : q \in 1..Len(b)
    BY LenProperties
  <2> QED
    BY <2>1, ElementOfSeq
<1>3. n \in Nat /\ x \in Int /\ y \in Int /\ y = j + n /\ x = i + n
  BY LenProperties
<1>4. s \in Seq(L) /\ Len(s) = n /\ \A q \in 1..n : s[q] = a[i + q]
  <2> DEFINE u == i + 1
  <2>1. u \in Int /\ x - u + 1 = n /\ (u <= x <=> n # 0) /\ \A q \in 1..n : u + q - 1 = i + q
    BY <1>3
  <2>2. \A q \in u..x : a[q] \in L
    BY <1>1
  <2> HIDE DEF u
  <2>3. SubSeq(a, u, x) \in Seq(L) /\ Len(SubSeq(a, u, x)) = n /\ \A q \in 1..n : SubSeq(a, u, x)[q] = a[u + q - 1]
    BY <1>3, <2>1, <2>2, SubSeqProperties
  <2> QED
    BY <2>1, <2>3 DEF u
<1>5. t \in Seq(L) /\ Len(t) = n /\ \A q \in 1..n : t[q] = b[j + q]
  <2> DEFINE u == j + 1
  <2>1. u \in Int /\ y - u + 1 = n /\ (u <= y <=> n # 0) /\ \A q \in 1..n : u + q - 1 = j + q
    BY <1>3
  <2>2. \A q \in u..y : b[q] \in L
    BY <1>2
  <2> HIDE DEF u
  <2>3. SubSeq(b, u, y) \in Seq(L) /\ Len(SubSeq(b, u, y)) = n /\ \A q \in 1..n : SubSeq(b, u, y)[q] = b[u + q - 1]
    BY <1>3, <2>1, <2>2, SubSeqProperties
  <2> QED
    BY <2>1, <2>3 DEF u
<1>6. \A q \in 1..n : a[i + q] = b[j + q]
  <2> SUFFICES ASSUME NEW q \in 1..n PROVE a[i + q] = b[j + q]
    OBVIOUS
  <2>1. i + q \in (i + 1)..x /\ (i + q) - i + j = j + q
    BY <1>3
  <2> QED
    BY <2>1
<1> HIDE DEF s, t
<1>7. s = t
  <2>1. s \in Seq(L) /\ t \in Seq(L) /\ Len(s) = Len(t)
    BY <1>4, <1>5
  <2>2. \A q \in 1..Len(s) : s[q] = t[q]
    BY <1>4, <1>5, <1>6
  <2> QED
    BY ONLY <2>1, <2>2, SeqEqual
<1> QED
  BY <1>7 DEF s, t

\* A point of the way back from which round d is undone: what lies behind it is in the script.
OnWay(a, b, L, d, p) ==
  /\ p \in [x : 0..Len(a), y : 0..Len(b), ops : Seq(EditsOver(L))]
  /\ p.x - p.y \in Diagonals(d)
  /\ Point(a, b, d, p.x - p.y) = p.x
  /\ Old(p.ops) = SubSeq(a, p.x + 1, Len(a))
  /\ New(p.ops) = SubSeq(b, p.y + 1, Len(b))

\* An edit of one line in front of a script.
Prepend(e, ops) == <<e>> \o ops

\* A script of one edit, and what it stands for.
LEMMA EditIsEdits ==
  ASSUME NEW L, NEW kind \in Kinds, NEW l \in L
  PROVE  /\ <<Edit(kind, l)>> \in Seq(EditsOver(L))
         /\ \A kinds : LinesOf(<<Edit(kind, l)>>, kinds) = IF kind \in kinds THEN <<l>> ELSE <<>>
<1> DEFINE e == <<Edit(kind, l)>>
           t == <<l>>
<1>1. e = Edits(kind, t) /\ t \in Seq(L)
  BY DEF Edits
<1> HIDE DEF e, t
<1>2. e \in Seq(EditsOver(L))
  BY <1>1, EditsType
<1>3. \A kinds : LinesOf(e, kinds) = IF kind \in kinds THEN t ELSE <<>>
  BY <1>1, LinesOfEdits
<1> QED
  BY <1>1, <1>2, <1>3 DEF e, t

\* An insertion in front of a script puts its line in front of the new text.
LEMMA InsertFirst ==
  ASSUME NEW L, NEW ops \in Seq(EditsOver(L)), NEW l \in L
  PROVE  LET all == Prepend(Edit("insert", l), ops)
         IN /\ all \in Seq(EditsOver(L))
            /\ Old(all) = Old(ops) /\ New(all) = <<l>> \o New(ops) /\ Changes(all) = <<l>> \o Changes(ops)
<1> DEFINE kind == "insert"
           e == <<Edit(kind, l)>>
<1>1. kind \in Kinds /\ kind \in {"equal", "insert"} /\ kind \notin {"equal", "delete"} /\ kind \in {"delete", "insert"}
  BY DEF Kinds
<1> HIDE DEF kind
<1>2. e \in Seq(EditsOver(L)) /\ \A kinds : LinesOf(e, kinds) = IF kind \in kinds THEN <<l>> ELSE <<>>
  BY <1>1, EditIsEdits
<1> HIDE DEF e
<1>3. e \o ops \in Seq(EditsOver(L)) /\ \A kinds : LinesOf(e \o ops, kinds) = LinesOf(e, kinds) \o LinesOf(ops, kinds)
  BY <1>2, LinesOfConcat, ConcatProperties
<1>4. Old(e \o ops) = Old(ops)
  <2>1. Old(e \o ops) = <<>> \o Old(ops) /\ Old(ops) \in Seq(L)
    BY <1>1, <1>2, <1>3, LinesOfType DEF Old
  <2> QED
    BY <2>1, ConcatEmptySeq
<1>5. New(e \o ops) = <<l>> \o New(ops) /\ Changes(e \o ops) = <<l>> \o Changes(ops)
  BY <1>1, <1>2, <1>3 DEF New, Changes
<1> QED
  BY <1>3, <1>4, <1>5 DEF e, kind, Prepend

\* A deletion in front of a script puts its line in front of the old text.
LEMMA DeleteFirst ==
  ASSUME NEW L, NEW ops \in Seq(EditsOver(L)), NEW l \in L
  PROVE  LET all == Prepend(Edit("delete", l), ops)
         IN /\ all \in Seq(EditsOver(L))
            /\ Old(all) = <<l>> \o Old(ops) /\ New(all) = New(ops) /\ Changes(all) = <<l>> \o Changes(ops)
<1> DEFINE kind == "delete"
           e == <<Edit(kind, l)>>
<1>1. kind \in Kinds /\ kind \in {"equal", "delete"} /\ kind \notin {"equal", "insert"} /\ kind \in {"delete", "insert"}
  BY DEF Kinds
<1> HIDE DEF kind
<1>2. e \in Seq(EditsOver(L)) /\ \A kinds : LinesOf(e, kinds) = IF kind \in kinds THEN <<l>> ELSE <<>>
  BY <1>1, EditIsEdits
<1> HIDE DEF e
<1>3. e \o ops \in Seq(EditsOver(L)) /\ \A kinds : LinesOf(e \o ops, kinds) = LinesOf(e, kinds) \o LinesOf(ops, kinds)
  BY <1>2, LinesOfConcat, ConcatProperties
<1>4. New(e \o ops) = New(ops)
  <2>1. New(e \o ops) = <<>> \o New(ops) /\ New(ops) \in Seq(L)
    BY <1>1, <1>2, <1>3, LinesOfType DEF New
  <2> QED
    BY <2>1, ConcatEmptySeq
<1>5. Old(e \o ops) = <<l>> \o Old(ops) /\ Changes(e \o ops) = <<l>> \o Changes(ops)
  BY <1>1, <1>2, <1>3 DEF Old, Changes
<1> QED
  BY <1>3, <1>4, <1>5 DEF e, kind, Prepend

\* Equal lines in front of a script.
LEMMA EqualEdits ==
  ASSUME NEW L, NEW ops \in Seq(EditsOver(L)), NEW lines \in Seq(L)
  PROVE  LET all == Edits("equal", lines) \o ops
         IN /\ all \in Seq(EditsOver(L))
            /\ Old(all) = lines \o Old(ops)
            /\ New(all) = lines \o New(ops)
            /\ Changes(all) = Changes(ops)
<1> DEFINE e == Edits("equal", lines)
<1>1. e \in Seq(EditsOver(L)) /\ \A kinds : LinesOf(e, kinds) = IF "equal" \in kinds THEN lines ELSE <<>>
  BY EditsType, LinesOfEdits DEF Kinds
<1> HIDE DEF e
<1>2. e \o ops \in Seq(EditsOver(L)) /\ \A kinds : LinesOf(e \o ops, kinds) = LinesOf(e, kinds) \o LinesOf(ops, kinds)
  BY <1>1, LinesOfConcat, ConcatProperties
<1>3. \A kinds : LinesOf(ops, kinds) \in Seq(L)
  BY LinesOfType
<1>4. Old(e \o ops) = lines \o Old(ops) /\ New(e \o ops) = lines \o New(ops)
  BY <1>1, <1>2 DEF Old, New
<1>5. Changes(e \o ops) = Changes(ops)
  <2> DEFINE kinds == {"delete", "insert"}
  <2>1. LinesOf(e, kinds) = <<>>
    BY <1>1
  <2>2. LinesOf(e \o ops, kinds) = <<>> \o LinesOf(ops, kinds)
    BY <1>2, <2>1
  <2>3. LinesOf(e \o ops, kinds) = LinesOf(ops, kinds)
    BY <1>3, <2>2, ConcatEmptySeq
  <2> QED
    BY <2>3 DEF Changes
<1> QED
  BY <1>2, <1>4, <1>5 DEF e

\* One round of the way back keeps it a way back, and undoes one change.
LEMMA BackIs ==
  ASSUME NEW L, NEW a \in Seq(L), NEW b \in Seq(L), NEW d \in 0..Bound(a, b), NEW p, OnWay(a, b, L, d, p)
  PROVE  LET q == Back(a, b, Trace(a, b)[d], d, p)
         IN /\ d > 0 => OnWay(a, b, L, d - 1, q) /\ Len(Changes(q.ops)) = Len(Changes(p.ops)) + 1
            /\ d = 0 => /\ q.ops \in Seq(EditsOver(L)) /\ Old(q.ops) = a /\ New(q.ops) = b
                        /\ Len(Changes(q.ops)) = Len(Changes(p.ops))
<1> DEFINE n == Len(a)
           m == Len(b)
           v == Trace(a, b)[d]
           k == p.x - p.y
           s == StartX(v, d, k)
           t == s - k
           lines == SubSeq(a, s + 1, p.x)
           ops == Edits("equal", lines) \o p.ops
           q == Back(a, b, v, d, p)
<1>1. /\ p.x \in 0..n /\ p.y \in 0..m /\ p.ops \in Seq(EditsOver(L)) /\ n \in Nat /\ m \in Nat
      /\ k \in Diagonals(d) /\ Point(a, b, d, k) = p.x /\ k \in Int /\ d \in Nat
      /\ Bound(a, b) \in Nat
  BY LenProperties, TraceIs DEF OnWay, Diagonals
<1>2. /\ s \in Nat /\ t \in Nat /\ s <= p.x
      /\ \A i \in (s + 1)..p.x : a[i] = b[i - k]
      /\ d = 0 => s = 0
      /\ d > 0 => IF Inserts(v, d, k)
                  THEN k + 1 \in Diagonals(d - 1) /\ s = Point(a, b, d - 1, k + 1) /\ t > 0
                  ELSE k - 1 \in Diagonals(d - 1) /\ s = Point(a, b, d - 1, k - 1) + 1
  <2> HIDE DEF k
  <2> QED
    BY <1>1, PointComes, SMTT(40)
<1>3. d = 0 => k = 0
  <2> HIDE DEF k
  <2> QED
    BY <1>1, DiagonalNext
<1>4. /\ q = IF d = 0 THEN [x |-> s, y |-> t, ops |-> ops]
             ELSE IF Inserts(v, d, k) THEN [x |-> s, y |-> t - 1, ops |-> Prepend(Edit("insert", b[t]), ops)]
             ELSE [x |-> s - 1, y |-> t, ops |-> Prepend(Edit("delete", a[s]), ops)]
  BY DEF Back, Prepend
<1> HIDE DEF q, v
<1> DEFINE x == p.x
           y == p.y
<1>5. x \in Int /\ y \in Int /\ k = x - y /\ t = s - k
  BY <1>1
<1> HIDE DEF s, t, k
<1>6. s \in 0..x /\ t \in 0..y /\ x - s = y - t /\ k = s - t
  <2> HIDE DEF x, y
  <2> QED
    BY <1>1, <1>2, <1>5, SMTT(40) DEF x, y
<1>7. s \in 0..p.x /\ t \in 0..p.y /\ p.x - s = p.y - t /\ k = s - t
  BY <1>6
<1>8. lines \in Seq(L)
  <2>1. \A i \in (s + 1)..p.x : i \in 1..n
    BY <1>1, <1>2
  <2>2. \A i \in (s + 1)..p.x : a[i] \in L
    BY <2>1, ElementOfSeq
  <2> QED
    BY <1>1, <1>2, <2>2, SubSeqProperties
<1>9. lines = SubSeq(b, t + 1, p.y)
  <2>1. s \in Nat /\ t \in Nat /\ x \in s..Len(a) /\ y \in t..Len(b) /\ x - s = y - t
    BY <1>1, <1>2, <1>7, SMTT(40)
  <2>2. \A i \in (s + 1)..x : a[i] = b[i - s + t]
    <3>1. \A i \in (s + 1)..x : i - k = i - s + t
      BY <1>1, <1>2, <1>7
    <3> QED
      BY <1>2, <3>1
  <2> HIDE DEF x, y, k
  <2>3. SubSeq(a, s + 1, x) = SubSeq(b, t + 1, y)
    BY <2>1, <2>2, SameLines
  <2> QED
    BY <2>3 DEF x, y
<1>10. /\ ops \in Seq(EditsOver(L))
      /\ Old(ops) = lines \o Old(p.ops)
      /\ New(ops) = lines \o New(p.ops)
      /\ Changes(ops) = Changes(p.ops)
  <2> HIDE DEF lines
  <2> QED
    BY <1>1, <1>8, EqualEdits
<1>11. Old(ops) = SubSeq(a, s + 1, n)
  <2>1. s + 1 \in 1..n + 1 /\ p.x \in (s + 1) - 1..n /\ n \in p.x..n
    BY <1>1, <1>2, SMTT(40)
  <2>2. SubSeq(a, s + 1, p.x) \o SubSeq(a, p.x + 1, n) = SubSeq(a, s + 1, n)
    BY <2>1, ConcatAdjacentSubSeq
  <2> HIDE DEF ops
  <2> QED
    BY <1>10, <2>2 DEF OnWay
<1>12. New(ops) = SubSeq(b, t + 1, m)
  <2>1. t + 1 \in 1..m + 1 /\ p.y \in (t + 1) - 1..m /\ m \in p.y..m
    BY <1>1, <1>7
  <2>2. SubSeq(b, t + 1, p.y) \o SubSeq(b, p.y + 1, m) = SubSeq(b, t + 1, m)
    <3> QED
      BY <2>1, ConcatAdjacentSubSeq
  <2> HIDE DEF ops, lines
  <2> QED
    BY <1>9, <1>10, <2>2 DEF OnWay
<1> HIDE DEF ops, lines
<1>13. CASE d = 0
  <2>1. s = 0 /\ t = 0
    BY <1>2, <1>3, <1>7, <1>13
  <2>2. q.ops = ops
    BY <1>4, <1>13
  <2>3. SubSeq(a, 1, n) = a /\ SubSeq(b, 1, m) = b
    BY SubSeqFull
  <2>4. 0 + 1 = 1
    OBVIOUS
  <2> QED
    BY <1>10, <1>11, <1>12, <1>13, <2>1, <2>2, <2>3, <2>4 DEF q, v
<1>14. CASE d > 0 /\ Inserts(v, d, k)
  <2> DEFINE l == b[t]
             all == Prepend(Edit("insert", l), ops)
  <2>1. t \in 1..m /\ d # 0 /\ t - 1 \in 0..m
    BY <1>1, <1>2, <1>7, <1>14, SMTT(40)
  <2>2. l \in L
    <3> QED
      BY <2>1, ElementOfSeq
  <2>3. q = [x |-> s, y |-> t - 1, ops |-> all]
    BY <1>4, <1>14, <2>1
  <2>4. /\ all \in Seq(EditsOver(L)) /\ Old(all) = Old(ops) /\ New(all) = <<l>> \o New(ops)
        /\ Changes(all) = <<l>> \o Changes(ops)
    <3> HIDE DEF l
    <3> QED
      BY <1>10, <2>2, InsertFirst
  <2>5. <<l>> \o SubSeq(b, t + 1, m) = SubSeq(b, t, m)
    <3>1. m \in t..m
      BY <1>1, <2>1
    <3> QED
      BY <2>1, <3>1, SubSeqRecursiveFirst
  <2>6. q \in [x : 0..n, y : 0..m, ops : Seq(EditsOver(L))]
    <3>1. s \in 0..n
      BY <1>1, <1>7, SMTT(40)
    <3> HIDE DEF all
    <3> QED
      BY <2>1, <2>3, <2>4, <3>1
  <2> HIDE DEF all, l
  <2>7. q.x = s /\ q.y = t - 1 /\ q.ops = all
    BY <2>3
  <2>8. q.x - q.y = k + 1
    BY <1>7, <2>1, <2>7
  <2>9. SubSeq(b, q.y + 1, m) = SubSeq(b, t, m)
    BY <2>1, <2>7
  <2>10. OnWay(a, b, L, d - 1, q)
    <3>1. q.x - q.y \in Diagonals(d - 1) /\ Point(a, b, d - 1, q.x - q.y) = q.x
      BY <1>2, <1>14, <2>7, <2>8
    <3>2. Old(q.ops) = SubSeq(a, q.x + 1, n) /\ New(q.ops) = SubSeq(b, q.y + 1, m)
      BY <1>11, <1>12, <2>4, <2>5, <2>7, <2>9
    <3> QED
      BY <2>6, <3>1, <3>2 DEF OnWay
  <2>11. Len(Changes(q.ops)) = Len(Changes(p.ops)) + 1
    <3> DEFINE c == Changes(ops)
               e == <<l>>
    <3>1. c \in Seq(L) /\ e \in Seq(L) /\ Len(e) = 1
      BY <1>10, <2>2, LinesOfType DEF Changes
    <3>2. Len(e \o c) = Len(e) + Len(c) /\ Len(c) \in Nat
      BY <3>1, ConcatProperties, LenProperties
    <3> HIDE DEF c, e
    <3>3. Len(e \o c) = Len(c) + 1
      BY <3>1, <3>2
    <3> QED
      BY <1>10, <2>4, <2>7, <3>3 DEF c, e
  <2> QED
    BY <1>14, <2>1, <2>10, <2>11 DEF q, v
<1>15. CASE d > 0 /\ ~Inserts(v, d, k)
  <2> DEFINE l == a[s]
             all == Prepend(Edit("delete", l), ops)
  <2>1. d # 0 /\ s = Point(a, b, d - 1, k - 1) + 1 /\ k - 1 \in Diagonals(d - 1)
    BY <1>2, <1>15
  <2>2. Point(a, b, d - 1, k - 1) \in Nat
    <3> DEFINE e == d - 1
               j == k - 1
    <3>1. e \in 0..Bound(a, b) /\ j \in Diagonals(e)
      BY <1>1, <1>15, <2>1
    <3> HIDE DEF e, j
    <3>2. Point(a, b, e, j) \in Nat
      BY <3>1, PointIs
    <3> QED
      BY <3>2 DEF e, j
  <2>3. s \in 1..n /\ s - 1 \in 0..n /\ t \in 0..m /\ s - 1 = Point(a, b, d - 1, k - 1)
    <3> DEFINE r == Point(a, b, d - 1, k - 1)
    <3>1. r \in Nat /\ s = r + 1 /\ x \in 0..n /\ y \in 0..m
      BY <1>1, <2>1, <2>2
    <3> HIDE DEF r, x, y
    <3>2. s \in 1..n /\ s - 1 \in 0..n /\ t \in 0..m /\ s - 1 = r
      BY <1>1, <1>6, <3>1
    <3> QED
      BY <3>2 DEF r
  <2>4. l \in L
    BY <2>3, ElementOfSeq
  <2>5. q = [x |-> s - 1, y |-> t, ops |-> all]
    BY <1>4, <1>15, <2>1
  <2>6. /\ all \in Seq(EditsOver(L)) /\ New(all) = New(ops) /\ Old(all) = <<l>> \o Old(ops)
        /\ Changes(all) = <<l>> \o Changes(ops)
    <3> HIDE DEF l
    <3> QED
      BY <1>10, <2>4, DeleteFirst
  <2>7. <<l>> \o SubSeq(a, s + 1, n) = SubSeq(a, s, n)
    <3>1. n \in s..n
      BY <1>1, <2>3
    <3> QED
      BY <2>3, <3>1, SubSeqRecursiveFirst
  <2>8. q \in [x : 0..n, y : 0..m, ops : Seq(EditsOver(L))]
    <3> HIDE DEF all
    <3> QED
      BY <2>3, <2>5, <2>6
  <2> HIDE DEF all, l
  <2>9. q.x = s - 1 /\ q.y = t /\ q.ops = all
    BY <2>5
  <2>10. q.x - q.y = k - 1
    BY <1>7, <2>3, <2>9
  <2>11. SubSeq(a, q.x + 1, n) = SubSeq(a, s, n)
    BY <2>3, <2>9
  <2>12. OnWay(a, b, L, d - 1, q)
    <3>1. q.x - q.y \in Diagonals(d - 1) /\ Point(a, b, d - 1, q.x - q.y) = q.x
      BY <2>1, <2>3, <2>9, <2>10
    <3>2. Old(q.ops) = SubSeq(a, q.x + 1, n) /\ New(q.ops) = SubSeq(b, q.y + 1, m)
      BY <1>11, <1>12, <2>6, <2>7, <2>9, <2>11
    <3> QED
      BY <2>8, <3>1, <3>2 DEF OnWay
  <2>13. Len(Changes(q.ops)) = Len(Changes(p.ops)) + 1
    <3> DEFINE c == Changes(ops)
               e == <<l>>
    <3>1. c \in Seq(L) /\ e \in Seq(L) /\ Len(e) = 1
      BY <1>10, <2>4, LinesOfType DEF Changes
    <3>2. Len(e \o c) = Len(e) + Len(c) /\ Len(c) \in Nat
      BY <3>1, ConcatProperties, LenProperties
    <3> HIDE DEF c, e
    <3>3. Len(e \o c) = Len(c) + 1
      BY <3>1, <3>2
    <3> QED
      BY <1>10, <2>6, <2>9, <3>3 DEF c, e
  <2> QED
    BY <1>15, <2>1, <2>12, <2>13 DEF q, v
<1> QED
  BY <1>1, <1>13, <1>14, <1>15

\* The script turns the one text into the other, with one change for each round.
LEMMA ScriptIs ==
  ASSUME NEW L, NEW a \in Seq(L), NEW b \in Seq(L)
  PROVE  /\ Script(a, b) \in Seq(EditsOver(L))
         /\ Old(Script(a, b)) = a /\ New(Script(a, b)) = b
         /\ Len(Changes(Script(a, b))) = FinalRound(a, b)
<1> DEFINE last == FinalRound(a, b)
           T == Trace(a, b)
           Points == [x : 0..Len(a), y : 0..Len(b), ops : Seq(EditsOver(L))]
           end == [x |-> Len(a), y |-> Len(b), ops |-> <<>>]
           Whole(p) == p.ops \in Seq(EditsOver(L)) /\ Old(p.ops) = a /\ New(p.ops) = b /\ Len(Changes(p.ops)) = last
           OnTheWay(i, p) == OnWay(a, b, L, last - i, p) /\ Len(Changes(p.ops)) = i
           S == [i \in 0..(last + 1) |->
                   IF i = last + 1 THEN {Back(a, b, T[0], 0, p) : p \in {q \in Points : OnTheWay(last, q)}}
                   ELSE {p \in Points : OnTheWay(i, p)}]
           step == [i \in 1..(last + 1) |-> [p \in S[i - 1] |-> Back(a, b, T[last + 1 - i], last + 1 - i, p)]]
           W == WayBack(a, b)
<1>1. last \in 0..Bound(a, b) /\ last \in Nat /\ Len(a) - Len(b) \in Diagonals(last) /\ Bound(a, b) \in Nat
      /\ Point(a, b, last, Len(a) - Len(b)) = Len(a) /\ Len(a) \in Nat /\ Len(b) \in Nat
  BY FinalRoundIs, TraceIs, LenProperties
<1> HIDE DEF last
<1>2. OnTheWay(0, end)
  <2>1. end.x = Len(a) /\ end.y = Len(b) /\ end.ops = <<>> /\ last - 0 = last
    BY <1>1
  <2>2. <<>> \in Seq(EditsOver(L)) /\ Old(<<>>) = <<>> /\ New(<<>>) = <<>> /\ Changes(<<>>) = <<>> /\ Len(<<>>) = 0
    BY LinesOfEmpty, EmptySeq DEF Old, New, Changes
  <2>3. SubSeq(a, Len(a) + 1, Len(a)) = <<>> /\ SubSeq(b, Len(b) + 1, Len(b)) = <<>>
    BY <1>1, SubSeqEmpty
  <2>4. end \in Points
    BY <1>1, <2>2
  <2> HIDE DEF end
  <2> QED
    BY <1>1, <2>1, <2>2, <2>3, <2>4 DEF OnWay
<1>3. end \in S[0]
  <2>1. 0 \in 0..(last + 1) /\ 0 # last + 1
    BY <1>1
  <2>2. end \in Points
    BY <1>2 DEF OnWay
  <2> HIDE DEF OnTheWay, Points, end
  <2> QED
    BY <1>2, <2>1, <2>2
<1>4. ASSUME NEW i \in 1..last, NEW p \in Points, OnTheWay(i - 1, p)
      PROVE  LET q == Back(a, b, T[last + 1 - i], last + 1 - i, p) IN q \in Points /\ OnTheWay(i, q)
  <2> DEFINE d == last + 1 - i
             q == Back(a, b, T[d], d, p)
  <2>1. d \in 0..Bound(a, b) /\ d > 0 /\ last - (i - 1) = d /\ d - 1 = last - i
    BY <1>1
  <2>2. OnWay(a, b, L, d, p) /\ Len(Changes(p.ops)) = i - 1
    BY <1>4, <2>1
  <2> HIDE DEF d
  <2>3. OnWay(a, b, L, d - 1, q) /\ Len(Changes(q.ops)) = Len(Changes(p.ops)) + 1
    BY <2>1, <2>2, BackIs
  <2> HIDE DEF q
  <2>4. Len(Changes(q.ops)) = i
    BY <2>2, <2>3
  <2>5. q \in Points /\ OnTheWay(i, q)
    BY <2>1, <2>3, <2>4 DEF OnWay
  <2> QED
    BY <2>5 DEF q, d
<1>5. ASSUME NEW p \in Points, OnTheWay(last, p) PROVE Whole(Back(a, b, T[0], 0, p))
  <2>1. last - last = 0 /\ 0 \in 0..Bound(a, b)
    BY <1>1
  <2>2. OnWay(a, b, L, 0, p) /\ Len(Changes(p.ops)) = last
    BY <1>5, <2>1
  <2> DEFINE q == Back(a, b, T[0], 0, p)
  <2>3. q.ops \in Seq(EditsOver(L)) /\ Old(q.ops) = a /\ New(q.ops) = b /\ Len(Changes(q.ops)) = Len(Changes(p.ops))
    BY <2>1, <2>2, BackIs
  <2> HIDE DEF q
  <2>4. Whole(q)
    BY <2>2, <2>3
  <2> QED
    BY <2>4 DEF q
<1> HIDE DEF OnTheWay, Points, end, Whole, T
<1>6. \A i \in 0..last : S[i] = {p \in Points : OnTheWay(i, p)}
  BY <1>1
<1>7. S[last + 1] = {Back(a, b, T[0], 0, p) : p \in {q \in Points : OnTheWay(last, q)}}
  BY <1>1
<1> HIDE DEF S
<1>8. \A i \in 1..(last + 1) : \A p \in S[i - 1] : step[i][p] = Back(a, b, T[last + 1 - i], last + 1 - i, p)
  OBVIOUS
<1>9. \A i \in 1..(last + 1) : \A p \in S[i - 1] : step[i][p] \in S[i]
  <2> SUFFICES ASSUME NEW i \in 1..(last + 1), NEW p \in S[i - 1] PROVE step[i][p] \in S[i]
    OBVIOUS
  <2>1. i - 1 \in 0..last /\ p \in Points /\ OnTheWay(i - 1, p)
    BY <1>1, <1>6
  <2>2. CASE i \in 1..last
    BY <1>4, <1>6, <1>8, <2>1, <2>2
  <2>3. CASE i = last + 1
    <3>1. i - 1 = last /\ last + 1 - i = 0
      BY <1>1, <2>3
    <3> QED
      BY <1>7, <1>8, <2>1, <2>3, <3>1
  <2> QED
    BY <1>1, <2>2, <2>3
<1> HIDE DEF step
<1>10. last + 1 \in Nat
  BY <1>1
<1>11. PICK f : IsWalk(f, last + 1, end, step) /\ \A i \in 0..(last + 1) : f[i] \in S[i]
  BY <1>3, <1>9, <1>10, WalkExists
<1>12. \A i \in 0..(last + 1) :
         f[i] = IF i = 0 THEN end ELSE Back(a, b, T[last + 1 - i], last + 1 - i, f[i - 1])
  <2>1. f[0] = end /\ \A i \in 1..(last + 1) : f[i] = step[i][f[i - 1]]
    BY <1>11 DEF IsWalk
  <2>2. \A i \in 1..(last + 1) : i - 1 \in 0..(last + 1) /\ f[i - 1] \in S[i - 1]
    BY <1>1, <1>11, SMTT(40)
  <2>3. \A i \in 1..(last + 1) : step[i][f[i - 1]] = Back(a, b, T[last + 1 - i], last + 1 - i, f[i - 1])
    BY <1>8, <2>2
  <2>4. \A i \in 0..(last + 1) : i = 0 \/ i \in 1..(last + 1)
    BY <1>1
  <2> QED
    BY <1>1, <2>1, <2>3, <2>4
<1>13. f = [i \in 0..(last + 1) |->
              IF i = 0 THEN end ELSE Back(a, b, T[last + 1 - i], last + 1 - i, f[i - 1])]
  BY <1>11, <1>12 DEF IsWalk
<1>14. W = [i \in 0..(last + 1) |->
              IF i = 0 THEN end ELSE Back(a, b, T[last + 1 - i], last + 1 - i, W[i - 1])]
  BY <1>13 DEF WayBack, last, T, end
<1> HIDE DEF W
<1> DEFINE G == {i \in 0..(last + 1) : W[i] \in S[i]}
<1>15. 0 \in G
  BY <1>1, <1>3, <1>14
<1>16. ASSUME NEW i \in 1..(last + 1), i - 1 \in G PROVE i \in G
  <2>1. i \in 0..(last + 1) /\ i # 0 /\ W[i - 1] \in S[i - 1]
    BY <1>1, <1>16
  <2>2. W[i] = step[i][W[i - 1]]
    BY <1>8, <1>14, <2>1
  <2> QED
    BY <1>9, <2>1, <2>2
<1>17. last + 1 \in G
  <2> HIDE DEF G
  <2>1. 0..(last + 1) \subseteq G
    BY <1>10, <1>15, <1>16, UpToInduces
  <2> QED
    BY <1>1, <2>1
<1>18. Whole(W[last + 1])
  BY <1>5, <1>7, <1>17
<1>19. Script(a, b) = W[last + 1].ops
  BY DEF Script, W, last
<1> QED
  BY <1>18, <1>19 DEF Whole, last

\* The edits turn the one text into the other, with no more changes than needed.
LEMMA computeDiffIs ==
  ASSUME NEW L, NEW a \in Seq(L), NEW b \in Seq(L)
  PROVE  LET ops == computeDiff(a, b)
         IN /\ ops \in Seq(EditsOver(L)) /\ Old(ops) = a /\ New(ops) = b
            /\ \A c \in Nat : CommonAt(a, b, Len(a), Len(b), c) => Len(Changes(ops)) <= Len(a) + Len(b) - 2 * c
<1>1. Len(a) \in Nat /\ Len(b) \in Nat /\ (a = <<>> => Len(a) = 0) /\ (b = <<>> => Len(b) = 0)
  BY LenProperties
<1>2. ASSUME NEW c \in Nat, CommonAt(a, b, Len(a), Len(b), c), a = <<>> \/ b = <<>> PROVE c = 0
  <2>1. PICK f \in Picks(c, Len(a)), g \in Picks(c, Len(b)) : TRUE
    BY <1>2 DEF CommonAt
  <2>2. c > 0 => Len(a) > 0
    BY <1>1, <2>1, PicksShrink
  <2>3. c > 0 => Len(b) > 0
    BY <1>1, <2>1, PicksShrink
  <2> QED
    BY <1>1, <1>2, <2>2, <2>3
<1>3. CASE a = <<>>
  <2> DEFINE ops == Edits("insert", b)
  <2>1. computeDiff(a, b) = ops
    BY <1>3 DEF computeDiff
  <2>2. ops \in Seq(EditsOver(L))
    BY EditsType DEF Kinds
  <2>3. \A kinds : LinesOf(ops, kinds) = IF "insert" \in kinds THEN b ELSE <<>>
    BY LinesOfEdits DEF Kinds
  <2> HIDE DEF ops
  <2>4. Old(ops) = <<>> /\ New(ops) = b /\ Changes(ops) = b
    BY <2>3 DEF Old, New, Changes
  <2>5. \A c \in Nat : CommonAt(a, b, Len(a), Len(b), c) => Len(Changes(ops)) <= Len(a) + Len(b) - 2 * c
    BY <1>1, <1>2, <1>3, <2>4
  <2> QED
    BY <1>3, <2>1, <2>2, <2>4, <2>5
<1>4. CASE a # <<>> /\ b = <<>>
  <2> DEFINE ops == Edits("delete", a)
  <2>1. computeDiff(a, b) = ops
    BY <1>4 DEF computeDiff
  <2>2. ops \in Seq(EditsOver(L))
    BY EditsType DEF Kinds
  <2>3. \A kinds : LinesOf(ops, kinds) = IF "delete" \in kinds THEN a ELSE <<>>
    BY LinesOfEdits DEF Kinds
  <2> HIDE DEF ops
  <2>4. Old(ops) = a /\ New(ops) = <<>> /\ Changes(ops) = a
    BY <2>3 DEF Old, New, Changes
  <2>5. \A c \in Nat : CommonAt(a, b, Len(a), Len(b), c) => Len(Changes(ops)) <= Len(a) + Len(b) - 2 * c
    BY <1>1, <1>2, <1>4, <2>4
  <2> QED
    BY <1>4, <2>1, <2>2, <2>4, <2>5
<1>5. CASE a # <<>> /\ b # <<>>
  <2>1. computeDiff(a, b) = Script(a, b)
    BY <1>5 DEF computeDiff
  <2>2. /\ Script(a, b) \in Seq(EditsOver(L)) /\ Old(Script(a, b)) = a /\ New(Script(a, b)) = b
        /\ Len(Changes(Script(a, b))) = FinalRound(a, b)
    BY ScriptIs
  <2>3. \A c \in Nat : CommonAt(a, b, Len(a), Len(b), c) => FinalRound(a, b) <= Len(a) + Len(b) - 2 * c
    BY FinalRoundIs
  <2> QED
    BY <2>1, <2>2, <2>3
<1> QED
  BY <1>3, <1>4, <1>5

\* So the number of changes is what the longest common subsequence leaves.
LEMMA FewestChanges ==
  ASSUME NEW L, NEW a \in Seq(L), NEW b \in Seq(L)
  PROVE  Len(Changes(computeDiff(a, b))) = Len(a) + Len(b) - 2 * CommonLength(a, b)
<1> DEFINE n == Len(a)
           m == Len(b)
           ops == computeDiff(a, b)
           c == Len(LinesOf(ops, {"equal"}))
           z == Len(Changes(ops))
           Is(i) == CommonAt(a, b, n, m, i)
           Longest(i) == Common(a, b, i) /\ ~Common(a, b, i + 1)
<1>1. ops \in Seq(EditsOver(L)) /\ Old(ops) = a /\ New(ops) = b /\ n \in Nat /\ m \in Nat
      /\ \A i \in Nat : Is(i) => z <= n + m - 2 * i
  BY computeDiffIs, LenProperties
<1>2. z \in Nat
  BY <1>1, LinesOfType, LenProperties DEF Changes
<1>3. c \in Nat /\ Is(c) /\ n + m = z + 2 * c
  <2> HIDE DEF ops
  <2> QED
    BY <1>1, EqualIsCommon
<1> HIDE DEF c, z, ops
<1>4. ~Is(c + 1)
  <2>1. Is(c + 1) => z <= n + m - 2 * (c + 1)
    BY <1>1, <1>3
  <2> HIDE DEF Is
  <2> QED
    BY <1>1, <1>2, <1>3, <2>1
<1>5. ASSUME NEW i \in Nat, Is(i + 1) PROVE Is(i)
  BY <1>1, <1>5, CommonShrinks
<1>6. \A i : Common(a, b, i) <=> Is(i)
  BY DEF Common, CommonAt
<1> HIDE DEF Is
<1>7. ASSUME NEW i \in Nat, Is(i) PROVE 0..i \subseteq {j \in 0..i : Is(i - j)}
  <2> DEFINE T == {j \in 0..i : Is(i - j)}
  <2>1. 0 \in T
    BY <1>7
  <2>2. ASSUME NEW j \in 1..i, j - 1 \in T PROVE j \in T
    <3>1. i - j \in Nat /\ i - (j - 1) = (i - j) + 1 /\ Is(i - (j - 1))
      BY <2>2
    <3> QED
      BY <1>5, <3>1
  <2>3. 0..i \subseteq T
    <3> HIDE DEF T
    <3> QED
      BY <2>1, <2>2, UpToInduces
  <2> QED
    BY <2>3
<1>8. ASSUME NEW i \in Nat, Is(i), NEW j \in 0..i PROVE Is(j)
  <2>1. i - j \in 0..i /\ i - (i - j) = j
    OBVIOUS
  <2>2. i - j \in {q \in 0..i : Is(i - q)}
    BY <1>7, <1>8, <2>1
  <2> QED
    BY <2>1, <2>2
<1>9. ASSUME NEW i \in Nat, Longest(i) PROVE i = c
  <2>1. Is(i) /\ ~Is(i + 1) /\ i + 1 \in Nat
    BY <1>6, <1>9
  <2>2. ~(i < c)
    <3>1. i < c => i + 1 \in 0..c
      BY <1>3
    <3> QED
      BY <1>3, <1>8, <2>1, <3>1
  <2>3. ~(c < i)
    <3>1. c < i => c + 1 \in 0..i
      BY <1>3
    <3> QED
      BY <1>4, <1>8, <2>1, <3>1
  <2> QED
    BY <1>3, <2>2, <2>3
<1>10. c <= n
  <2>1. PICK f \in Picks(c, n), g \in Picks(c, m) : TRUE
    BY <1>3 DEF CommonAt, Is
  <2>2. n + m - 2 * c \in Nat /\ n - m \in Diagonals(n + m - 2 * c)
    <3>1. n \in 0..Len(a) /\ m \in 0..Len(b) /\ CommonAt(a, b, n, m, c)
      BY <1>1, <1>3 DEF Is
    <3> QED
      BY <1>3, <3>1, Furthest
  <2>3. n - m >= -(n + m - 2 * c)
    BY <2>2 DEF Diagonals
  <2> QED
    BY <1>1, <1>3, <2>3
<1>11. Longest(c) /\ c \in 0..n
  BY <1>1, <1>3, <1>4, <1>6, <1>10
<1>12. CommonLength(a, b) = c
  <2>1. CommonLength(a, b) = CHOOSE i \in 0..n : Longest(i)
    BY DEF CommonLength
  <2>2. \A i \in 0..n : Longest(i) => i = c
    BY <1>9
  <2> HIDE DEF Longest, n
  <2> QED
    BY <1>11, <2>1, <2>2
<1>13. z = n + m - 2 * c
  BY <1>1, <1>2, <1>3
<1> QED
  BY <1>12, <1>13 DEF z, ops

-----------------------------------------------------------------------------
(* Hunks.                                                                  *)

IsChange(ops, i) == ops[i].kind # "equal"

\* Ranges of edits that are apart and in order, and show all the changes up to i.
ShowsUpTo(ops, i, rs) ==
  /\ rs \in Seq((1..Len(ops)) \X (1..Len(ops)))
  /\ \A j \in 1..Len(rs) : rs[j][1] <= i /\ rs[j][1] <= rs[j][2] /\ rs[j][2] <= i + ContextLines
  /\ \A j, l \in 1..Len(rs) : j < l => rs[j][2] < rs[l][1]
  /\ \A q \in 1..i : IsChange(ops, q) => \E j \in 1..Len(rs) : rs[j][1] <= q /\ q <= rs[j][2]

\* AddRange keeps ranges apart and in order, and shows the change it was made for.
LEMMA AddRangeShows ==
  ASSUME NEW L, NEW ops \in Seq(EditsOver(L)), NEW i \in 1..Len(ops), NEW rs, ShowsUpTo(ops, i - 1, rs),
         IsChange(ops, i)
  PROVE  ShowsUpTo(ops, i, AddRange(rs, i, Len(ops)))
<1> DEFINE n == Len(ops)
           s == IF i > ContextLines THEN i - ContextLines ELSE 1
           e == IF i + ContextLines < n THEN i + ContextLines ELSE n
           R == (1..n) \X (1..n)
           k == Len(rs)
           ts == AddRange(rs, i, n)
<1>1. n \in Nat /\ ContextLines \in Nat /\ i \in Nat /\ i <= n
  BY LenProperties, ContextAssumption
<1>2. s \in 1..i /\ e \in i..n /\ e <= i + ContextLines /\ s \in 1..n /\ e \in 1..n
  BY <1>1
<1>3. rs \in Seq(R) /\ k \in Nat
  BY LenProperties DEF ShowsUpTo
<1>4. \A j \in 1..k : /\ rs[j] \in R /\ rs[j][1] \in 1..n /\ rs[j][2] \in 1..n /\ rs[j] = <<rs[j][1], rs[j][2]>>
                      /\ rs[j][1] <= i - 1 /\ rs[j][1] <= rs[j][2] /\ rs[j][2] <= i - 1 + ContextLines
  <2>1. \A j \in 1..k : rs[j] \in R
    BY <1>3, ElementOfSeq
  <2> QED
    BY <2>1, SMTT(40) DEF ShowsUpTo
<1>5. \A j, l \in 1..k : j < l => rs[j][2] < rs[l][1]
  BY DEF ShowsUpTo
<1>6. \A q \in 1..(i - 1) : IsChange(ops, q) => \E j \in 1..k : rs[j][1] <= q /\ q <= rs[j][2]
  BY DEF ShowsUpTo
<1>7. ts = IF rs # <<>> /\ s <= Last(rs)[2] + 1 THEN Front(rs) \o <<<<Last(rs)[1], e>>>> ELSE Append(rs, <<s, e>>)
  BY DEF AddRange
<1> HIDE DEF s, e, ts
<1>8. CASE rs # <<>> /\ s <= Last(rs)[2] + 1
  <2> DEFINE old == rs[k]
             new == <<old[1], e>>
  <2>1. k \in 1..k /\ Last(rs) = old
    BY <1>3, <1>8, EmptySeq, LenProperties DEF Last
  <2>2. new \in R /\ new[1] = old[1] /\ new[2] = e
    BY <1>2, <1>4, <2>1
  <2> HIDE DEF R
  <2> DEFINE u == SubSeq(rs, 1, k - 1)
  <2>3. ts = u \o <<new>>
    BY <1>7, <1>8, <2>1 DEF Front
  <2> HIDE DEF new
  <2>4. ts \in Seq(R) /\ Len(ts) = k /\ ts[k] = new /\ \A j \in 1..k : j # k => ts[j] = rs[j]
    <3>1. k - 1 \in Nat /\ 1..(k - 1) \subseteq 1..k
      BY <2>1
    <3>2. u \in Seq(R) /\ Len(u) = k - 1 /\ \A j \in 1..(k - 1) : u[j] = rs[j]
      <4>1. 1 \in Int /\ k - 1 \in Int /\ \A j \in 1..(k - 1) : rs[j] \in R
        BY <1>3, <3>1, ElementOfSeq
      <4>2. u \in Seq(R) /\ Len(u) = (IF 1 <= k - 1 THEN k - 1 - 1 + 1 ELSE 0)
            /\ \A j \in 1..(k - 1 - 1 + 1) : u[j] = rs[1 + j - 1]
        BY <4>1, SubSeqProperties
      <4>3. k - 1 - 1 + 1 = k - 1 /\ (1 <= k - 1 \/ k - 1 = 0) /\ \A j \in 1..(k - 1) : 1 + j - 1 = j
        <5> HIDE DEF k
        <5> QED
          BY <1>3, <3>1
      <4> HIDE DEF u
      <4> QED
        BY <3>1, <4>2, <4>3, ZenonT(40)
    <3> HIDE DEF u
    <3>3. ts = Append(u, new)
      BY <2>2, <2>3, <3>2, AppendIsConcat
    <3>4. ts \in Seq(R) /\ Len(ts) = k - 1 + 1 /\ ts[k - 1 + 1] = new /\ \A j \in 1..(k - 1) : ts[j] = u[j]
      BY <2>2, <3>2, <3>3, AppendProperties
    <3>5. k - 1 + 1 = k /\ \A j \in 1..k : j # k => j \in 1..(k - 1)
      BY <3>1
    <3> QED
      BY <3>2, <3>4, <3>5, ZenonT(40)
  <2>5. old[1] <= i - 1 /\ old[1] \in 1..n /\ old[2] \in 1..n /\ old[2] <= e
    BY <1>1, <1>4, <2>1, SMTT(40) DEF e
  <2>6. \A j \in 1..k : ts[j][1] <= i /\ ts[j][1] <= ts[j][2] /\ ts[j][2] <= i + ContextLines
    <3> SUFFICES ASSUME NEW j \in 1..k PROVE ts[j][1] <= i /\ ts[j][1] <= ts[j][2] /\ ts[j][2] <= i + ContextLines
      OBVIOUS
    <3>1. CASE j = k
      BY <1>1, <1>2, <2>2, <2>4, <2>5, <3>1, SMTT(40)
    <3>2. CASE j # k
      BY <1>1, <1>4, <2>4, <3>2, SMTT(40)
    <3> QED
      BY <3>1, <3>2
  <2>7. \A j, l \in 1..k : j < l => ts[j][2] < ts[l][1]
    <3> SUFFICES ASSUME NEW j \in 1..k, NEW l \in 1..k, j < l PROVE ts[j][2] < ts[l][1]
      OBVIOUS
    <3>1. j # k /\ ts[j] = rs[j] /\ rs[j][2] < rs[l][1]
      BY <1>3, <1>5, <2>4
    <3>2. ts[l][1] = rs[l][1]
      BY <2>2, <2>4
    <3> QED
      BY <3>1, <3>2
  <2>8. \A q \in 1..i : IsChange(ops, q) => \E j \in 1..k : ts[j][1] <= q /\ q <= ts[j][2]
    <3> SUFFICES ASSUME NEW q \in 1..i, IsChange(ops, q) PROVE \E j \in 1..k : ts[j][1] <= q /\ q <= ts[j][2]
      OBVIOUS
    <3>1. CASE q = i
      <4>1. ts[k][1] <= q /\ q <= ts[k][2]
        BY <1>1, <1>2, <2>2, <2>4, <2>5, <3>1, SMTT(40)
      <4> QED
        BY <2>1, <4>1
    <3>2. CASE q # i
      <4>1. PICK j \in 1..k : rs[j][1] <= q /\ q <= rs[j][2]
        BY <1>1, <1>6, <3>2
      <4>2. ts[j][1] <= q /\ q <= ts[j][2]
        <5>1. CASE j = k
          BY <1>1, <1>2, <2>2, <2>4, <2>5, <4>1, <5>1, SMTT(40)
        <5>2. CASE j # k
          BY <2>4, <4>1, <5>2
        <5> QED
          BY <5>1, <5>2
      <4> QED
        BY <4>2
    <3> QED
      BY <3>1, <3>2
  <2> QED
    BY <2>4, <2>6, <2>7, <2>8 DEF ShowsUpTo, ts, R
<1>9. CASE ~(rs # <<>> /\ s <= Last(rs)[2] + 1)
  <2> DEFINE new == <<s, e>>
  <2>1. new \in R /\ new[1] = s /\ new[2] = e
    BY <1>2
  <2>2. ts = Append(rs, new)
    BY <1>7, <1>9
  <2> HIDE DEF new, R
  <2>3. ts \in Seq(R) /\ Len(ts) = k + 1 /\ ts[k + 1] = new /\ \A j \in 1..k : ts[j] = rs[j]
    BY <1>3, <2>1, <2>2, AppendProperties
  <2>4. \A j \in 1..(k + 1) : j = k + 1 \/ j \in 1..k
    BY <1>3
  <2>5. \A j \in 1..(k + 1) : ts[j][1] <= i /\ ts[j][1] <= ts[j][2] /\ ts[j][2] <= i + ContextLines
    <3> SUFFICES ASSUME NEW j \in 1..(k + 1) PROVE ts[j][1] <= i /\ ts[j][1] <= ts[j][2] /\ ts[j][2] <= i + ContextLines
      OBVIOUS
    <3>1. CASE j = k + 1
      BY <1>1, <1>2, <2>1, <2>3, <3>1
    <3>2. CASE j \in 1..k
      <4>1. ts[j] = rs[j]
        BY <2>3, <3>2
      <4>2. rs[j][1] \in 1..n /\ rs[j][2] \in 1..n /\ rs[j][1] <= i - 1 /\ rs[j][1] <= rs[j][2] /\ rs[j][2] <= i - 1 + ContextLines
        BY <1>4, <3>2
      <4> QED
        BY <1>1, <4>1, <4>2, SMTT(40)
    <3> QED
      BY <2>4, <3>1, <3>2
  <2>6. \A j \in 1..k : rs[j][2] < s
    <3> SUFFICES ASSUME NEW j \in 1..k PROVE rs[j][2] < s
      OBVIOUS
    <3>1. k \in 1..k /\ rs # <<>> /\ Last(rs) = rs[k]
      BY <1>3, EmptySeq DEF Last
    <3>2. rs[k][2] < s
      BY <1>2, <1>4, <1>9, <3>1, SMTT(40)
    <3>3. CASE j = k
      BY <3>2, <3>3
    <3>4. CASE j # k
      <4>1. rs[j][2] < rs[k][1] /\ rs[k][1] <= rs[k][2] /\ rs[j][2] \in 1..n /\ rs[k][1] \in 1..n /\ rs[k][2] \in 1..n
        BY <1>3, <1>4, <1>5, <3>1, <3>4
      <4> QED
        BY <1>2, <3>2, <4>1, SMTT(40)
    <3> QED
      BY <3>3, <3>4
  <2>7. \A j, l \in 1..(k + 1) : j < l => ts[j][2] < ts[l][1]
    <3> SUFFICES ASSUME NEW j \in 1..(k + 1), NEW l \in 1..(k + 1), j < l PROVE ts[j][2] < ts[l][1]
      OBVIOUS
    <3>1. j \in 1..k /\ ts[j] = rs[j]
      BY <1>3, <2>3
    <3>2. CASE l = k + 1
      BY <2>1, <2>3, <2>6, <3>1, <3>2
    <3>3. CASE l \in 1..k
      BY <1>5, <2>3, <3>1, <3>3
    <3> QED
      BY <2>4, <3>2, <3>3
  <2>8. \A q \in 1..i : IsChange(ops, q) => \E j \in 1..(k + 1) : ts[j][1] <= q /\ q <= ts[j][2]
    <3> SUFFICES ASSUME NEW q \in 1..i, IsChange(ops, q) PROVE \E j \in 1..(k + 1) : ts[j][1] <= q /\ q <= ts[j][2]
      OBVIOUS
    <3>1. CASE q = i
      <4>1. ts[k + 1][1] <= q /\ q <= ts[k + 1][2] /\ k + 1 \in 1..(k + 1)
        BY <1>1, <1>2, <1>3, <2>1, <2>3, <3>1
      <4> QED
        BY <4>1
    <3>2. CASE q # i
      <4>1. PICK j \in 1..k : rs[j][1] <= q /\ q <= rs[j][2]
        BY <1>1, <1>6, <3>2
      <4>2. ts[j][1] <= q /\ q <= ts[j][2] /\ j \in 1..(k + 1)
        BY <1>3, <2>3, <4>1
      <4> QED
        BY <4>2
    <3> QED
      BY <3>1, <3>2
  <2> QED
    BY <2>3, <2>5, <2>7, <2>8 DEF ShowsUpTo, ts, R
<1> QED
  BY <1>8, <1>9

\* Ranges shows every change of a script, in ranges that are apart and in order.
LEMMA RangesShow ==
  ASSUME NEW L, NEW ops \in Seq(EditsOver(L))
  PROVE  ShowsUpTo(ops, Len(ops), Ranges(ops))
<1> DEFINE n == Len(ops)
           R == (1..n) \X (1..n)
           S == [i \in 0..n |-> {rs \in Seq(R) : ShowsUpTo(ops, i, rs)}]
           Step(i, rs) == IF ops[i].kind = "equal" THEN rs ELSE AddRange(rs, i, n)
           step == [i \in 1..n |-> [rs \in S[i - 1] |-> Step(i, rs)]]
           W == RangesWalk(ops)
<1>1. n \in Nat /\ ContextLines \in Nat
  BY LenProperties, ContextAssumption
<1>2. \A i, rs : ShowsUpTo(ops, i, rs) => rs \in Seq(R)
  BY DEF ShowsUpTo
<1>3. ShowsUpTo(ops, 0, <<>>)
  BY EmptySeq DEF ShowsUpTo
<1>4. ASSUME NEW i \in 1..n, NEW rs, ShowsUpTo(ops, i - 1, rs), ops[i].kind = "equal" PROVE ShowsUpTo(ops, i, rs)
  <2> DEFINE k == Len(rs)
  <2>1. rs \in Seq(R) /\ k \in Nat
    BY <1>2, <1>4, LenProperties
  <2>2. ASSUME NEW j \in 1..k PROVE rs[j][1] <= i /\ rs[j][1] <= rs[j][2] /\ rs[j][2] <= i + ContextLines
    <3>1. rs[j] \in R
      BY <2>1, ElementOfSeq
    <3>2. rs[j][1] \in 1..n /\ rs[j][2] \in 1..n
      BY <3>1
    <3>3. rs[j][1] <= i - 1 /\ rs[j][1] <= rs[j][2] /\ rs[j][2] <= i - 1 + ContextLines
      BY <1>4 DEF ShowsUpTo
    <3> QED
      BY <1>1, <3>2, <3>3, SMTT(40)
  <2>3. \A q \in 1..i : IsChange(ops, q) => q \in 1..(i - 1)
    BY <1>1, <1>4 DEF IsChange
  <2> QED
    BY <1>4, <2>1, <2>2, <2>3 DEF ShowsUpTo
<1>5. \A i \in 0..n : S[i] = {rs \in Seq(R) : ShowsUpTo(ops, i, rs)}
  OBVIOUS
<1> HIDE DEF R, S
<1>6. ASSUME NEW i \in 1..n, NEW rs \in S[i - 1] PROVE Step(i, rs) \in S[i]
  <2>1. i - 1 \in 0..n /\ i \in 0..n /\ ShowsUpTo(ops, i - 1, rs)
    BY <1>1, <1>5, <1>6
  <2>2. ShowsUpTo(ops, i, Step(i, rs))
    BY <1>4, <2>1, AddRangeShows DEF IsChange
  <2> HIDE DEF Step
  <2> QED
    BY <1>2, <1>5, <2>1, <2>2
<1>7. <<>> \in S[0]
  BY <1>1, <1>2, <1>3, <1>5
<1> HIDE DEF Step
<1>8. \A i \in 1..n : \A rs \in S[i - 1] : step[i][rs] = Step(i, rs)
  OBVIOUS
<1>9. \A i \in 1..n : \A rs \in S[i - 1] : step[i][rs] \in S[i]
  BY <1>6, <1>8
<1> HIDE DEF step
<1>10. PICK f : IsWalk(f, n, <<>>, step) /\ \A i \in 0..n : f[i] \in S[i]
  BY <1>1, <1>7, <1>9, WalkExists
<1>11. \A i \in 0..n : f[i] = IF i = 0 THEN <<>> ELSE Step(i, f[i - 1])
  <2>1. f[0] = <<>> /\ \A i \in 1..n : f[i] = step[i][f[i - 1]]
    BY <1>10 DEF IsWalk
  <2>2. \A i \in 1..n : i - 1 \in 0..n /\ f[i - 1] \in S[i - 1]
    BY <1>1, <1>10
  <2>3. \A i \in 1..n : step[i][f[i - 1]] = Step(i, f[i - 1])
    BY <1>8, <2>2
  <2>4. \A i \in 0..n : i = 0 \/ i \in 1..n
    BY <1>1
  <2> QED
    BY <1>1, <2>1, <2>3, <2>4
<1>12. f = [i \in 0..n |-> IF i = 0 THEN <<>> ELSE Step(i, f[i - 1])]
  BY <1>10, <1>11 DEF IsWalk
<1>13. W = [i \in 0..n |-> IF i = 0 THEN <<>> ELSE Step(i, W[i - 1])]
  BY <1>12 DEF RangesWalk, Step
<1> HIDE DEF W
<1> DEFINE G == {i \in 0..n : W[i] \in S[i]}
<1>14. 0 \in G
  BY <1>1, <1>7, <1>13
<1>15. ASSUME NEW i \in 1..n, i - 1 \in G PROVE i \in G
  BY <1>6, <1>13, <1>15
<1>16. n \in G
  <2> HIDE DEF G
  <2>1. 0..n \subseteq G
    BY <1>1, <1>14, <1>15, UpToInduces
  <2> QED
    BY <1>1, <2>1
<1>17. ShowsUpTo(ops, n, W[n])
  BY <1>1, <1>5, <1>16
<1> QED
  BY <1>17 DEF Ranges, W

\* A part of a sequence that is known to be there.
LEMMA FirstPart ==
  ASSUME NEW L, NEW u \in Seq(L), NEW v \in Seq(L)
  PROVE  SubSeq(u \o v, 1, Len(u)) = u
<1> DEFINE t == SubSeq(u \o v, 1, Len(u))
<1>1. u \o v \in Seq(L) /\ Len(u \o v) = Len(u) + Len(v) /\ Len(u) \in Nat /\ Len(v) \in Nat
      /\ \A i \in 1..Len(u) : (u \o v)[i] = u[i]
  BY ConcatProperties, LenProperties
<1>2. t \in Seq(L) /\ Len(t) = Len(u) /\ \A i \in 1..Len(u) : t[i] = (u \o v)[i]
  BY <1>1
<1>3. \A i \in 1..Len(u) : t[i] = u[i]
  BY <1>1, <1>2
<1> HIDE DEF t
<1>4. t = u
  BY <1>1, <1>2, <1>3, SeqEqual
<1> QED
  BY <1>4 DEF t

\* The same for the part behind it.
LEMMA LastPart ==
  ASSUME NEW L, NEW u \in Seq(L), NEW v \in Seq(L)
  PROVE  SubSeq(u \o v, Len(u) + 1, Len(u) + Len(v)) = v
<1> DEFINE w == u \o v
           x == Len(u)
           y == Len(v)
           t == SubSeq(w, x + 1, x + y)
<1>1. x \in Nat /\ y \in Nat
  BY LenProperties
<1>2. w \in Seq(L) /\ Len(w) = x + y /\ \A i \in 1..y : w[x + i] = v[i]
  <2>1. \A i \in 1..Len(v) : (u \o v)[Len(u) + i] = v[i]
    <3>1. \A i \in 1..Len(v) : Len(u) + i \in Len(u) + 1..Len(u) + Len(v) /\ (Len(u) + i) - Len(u) = i
      BY <1>1
    <3> QED
      BY <3>1, ConcatProperties
  <2> QED
    BY <2>1, ConcatProperties
<1> HIDE DEF w, x, y
<1>3. \A i \in (x + 1)..(x + y) : w[i] \in L
  BY <1>1, <1>2, ElementOfSeq
<1>4. x + 1 \in Int /\ x + y \in Int /\ (x + 1 <= x + y <=> y # 0) /\ (x + y) - (x + 1) + 1 = y
      /\ \A i \in 1..y : (x + 1) + i - 1 = x + i
  BY <1>1
<1>5. t \in Seq(L) /\ Len(t) = y /\ \A i \in 1..y : t[i] = v[i]
  <2> DEFINE m == x + 1
             n == x + y
  <2>1. m \in Int /\ n \in Int /\ (m <= n <=> y # 0) /\ n - m + 1 = y /\ \A i \in 1..y : m + i - 1 = x + i
    BY <1>4
  <2>2. \A i \in m..n : w[i] \in L
    BY <1>3
  <2> HIDE DEF m, n
  <2>3. SubSeq(w, m, n) \in Seq(L) /\ Len(SubSeq(w, m, n)) = (IF m <= n THEN n - m + 1 ELSE 0)
        /\ \A i \in 1..(n - m + 1) : SubSeq(w, m, n)[i] = w[m + i - 1]
    BY <2>1, <2>2, SubSeqProperties
  <2>4. SubSeq(w, m, n) \in Seq(L) /\ Len(SubSeq(w, m, n)) = y /\ \A i \in 1..y : SubSeq(w, m, n)[i] = v[i]
    BY <1>2, <2>1, <2>3
  <2> QED
    BY <2>4 DEF m, n
<1> HIDE DEF t
<1>6. t = v
  BY <1>1, <1>5, SeqEqual DEF y
<1> QED
  BY <1>6 DEF t, w, x, y

\* What stands in the texts for the edits after i up to j.
Part(ops, i, j, kinds) == LinesOf(SubSeq(ops, i + 1, j), kinds)
OldKinds == {"equal", "delete"}
NewKinds == {"equal", "insert"}
ChangeKinds == {"delete", "insert"}

\* A part of a script is a script.
LEMMA PartOfScript ==
  ASSUME NEW L, NEW ops \in Seq(EditsOver(L)), NEW i \in Nat, NEW j \in i..Len(ops)
  PROVE  SubSeq(ops, i + 1, j) \in Seq(EditsOver(L))
<1> DEFINE E == EditsOver(L)
           n == Len(ops)
           m == i + 1
<1>1. n \in Nat /\ j \in Nat /\ i <= j /\ j <= n /\ m \in Int /\ \A q \in m..j : q \in 1..n
  BY LenProperties
<1>2. \A q \in m..j : ops[q] \in E
  BY <1>1, ElementOfSeq
<1> HIDE DEF E, m
<1>3. SubSeq(ops, m, j) \in Seq(E)
  BY <1>1, <1>2, SubSeqProperties
<1> QED
  BY <1>3 DEF m, E

\* What a part of a script stands for are lines.
LEMMA PartType ==
  ASSUME NEW L, NEW ops \in Seq(EditsOver(L)), NEW i \in Nat, NEW j \in i..Len(ops), NEW kinds
  PROVE  Part(ops, i, j, kinds) \in Seq(L)
<1> DEFINE u == SubSeq(ops, i + 1, j)
<1>1. u \in Seq(EditsOver(L))
  BY PartOfScript
<1> HIDE DEF u
<1>2. LinesOf(u, kinds) \in Seq(L)
  BY <1>1, LinesOfType
<1> QED
  BY <1>2 DEF Part, u

\* What stands for the edits after i up to k comes in two parts.
LEMMA PartsMeet ==
  ASSUME NEW L, NEW ops \in Seq(EditsOver(L)), NEW i \in Nat, NEW j \in i..Len(ops), NEW k \in j..Len(ops), NEW kinds
  PROVE  Part(ops, i, k, kinds) = Part(ops, i, j, kinds) \o Part(ops, j, k, kinds)
<1> DEFINE n == Len(ops)
           u == SubSeq(ops, i + 1, j)
           v == SubSeq(ops, j + 1, k)
<1>1. n \in Nat /\ j \in Nat /\ k \in Nat /\ i <= j /\ j <= k /\ k <= n
  BY LenProperties
<1>2. u \in Seq(EditsOver(L)) /\ v \in Seq(EditsOver(L))
  BY <1>1, PartOfScript
<1>3. u \o v = SubSeq(ops, i + 1, k)
  <2> DEFINE m == i + 1
  <2>1. m \in 1..n + 1 /\ j \in m - 1..n /\ k \in j..n
    BY <1>1
  <2> HIDE DEF m
  <2>2. SubSeq(ops, m, j) \o SubSeq(ops, j + 1, k) = SubSeq(ops, m, k)
    BY <2>1, ConcatAdjacentSubSeq
  <2> QED
    BY <2>2 DEF m
<1> HIDE DEF u, v
<1>4. LinesOf(u \o v, kinds) = LinesOf(u, kinds) \o LinesOf(v, kinds)
  BY <1>2, LinesOfConcat, SMTT(40)
<1> QED
  BY <1>3, <1>4 DEF u, v, Part

\* The whole script stands for the old text and for the new one.
LEMMA WholePart ==
  ASSUME NEW L, NEW ops \in Seq(EditsOver(L))
  PROVE  /\ Part(ops, 0, Len(ops), OldKinds) = Old(ops)
         /\ Part(ops, 0, Len(ops), NewKinds) = New(ops)
<1>1. SubSeq(ops, 0 + 1, Len(ops)) = ops
  BY SubSeqFull
<1> QED
  BY <1>1 DEF Part, Old, New, OldKinds, NewKinds

\* The three parts of a sequence, as predicates that a lemma can conclude of given sequences.
Regroups(u, v, w) == (u \o v) \o w = u \o (v \o w)

InParts(u, v, w) ==
  /\ SubSeq(u \o (v \o w), Len(u) + 1, Len(u) + 1 + Len(v) - 1) = v
  /\ SubSeq((u \o v) \o w, 1, Len(u) + 1 - 1) = u
  /\ SubSeq((u \o v) \o w, Len(u) + 1 + Len(v), Len((u \o v) \o w)) = w

\* Concatenation is associative.
LEMMA PartsRegroup ==
  ASSUME NEW L, NEW u \in Seq(L), NEW v \in Seq(L), NEW w \in Seq(L)
  PROVE  Regroups(u, v, w)
BY ConcatAssociative, SMTT(40) DEF Regroups

\* Each of three sequences in a row is found where the lengths of the others put it.
LEMMA ThreeParts ==
  ASSUME NEW L, NEW u \in Seq(L), NEW v \in Seq(L), NEW w \in Seq(L)
  PROVE  InParts(u, v, w)
<1> DEFINE uv == u \o v
           vw == v \o w
           all == uv \o w
<1>1. uv \in Seq(L) /\ Len(uv) = Len(u) + Len(v) /\ vw \in Seq(L) /\ all = u \o vw /\ Len(all) = Len(uv) + Len(w)
      /\ Len(u) \in Nat /\ Len(v) \in Nat /\ Len(w) \in Nat
  <2>1. uv \in Seq(L) /\ Len(uv) = Len(u) + Len(v) /\ vw \in Seq(L)
    BY ConcatProperties
  <2>2. all = u \o vw
    BY ConcatAssociative, SMTT(40)
  <2>3. Len(u) \in Nat /\ Len(v) \in Nat /\ Len(w) \in Nat
    BY LenProperties
  <2>4. Len(all) = Len(uv) + Len(w)
    <3> HIDE DEF uv
    <3> QED
      BY <2>1, ConcatProperties
  <2> QED
    BY <2>1, <2>2, <2>3, <2>4
<1>2. SubSeq(all, 1, Len(u)) = u
  BY <1>1, FirstPart
<1>3. SubSeq(all, 1, Len(uv)) = uv
  <2> HIDE DEF uv
  <2> QED
    BY <1>1, FirstPart
<1>4. SubSeq(uv, Len(u) + 1, Len(u) + Len(v)) = v
  BY LastPart
<1>5. SubSeq(all, Len(uv) + 1, Len(uv) + Len(w)) = w
  <2> HIDE DEF uv
  <2> QED
    BY <1>1, LastPart
<1>6. SubSeq(all, Len(u) + 1, Len(u) + Len(v)) = v
  <2> DEFINE x == Len(u)
             y == Len(v)
  <2>1. x \in Nat /\ y \in Nat /\ Len(uv) = x + y
    BY <1>1
  <2>2. CASE y = 0
    <3>1. v = <<>> /\ x + y < x + 1
      BY <2>1, <2>2, EmptySeq
    <3>2. SubSeq(all, x + 1, x + y) = <<>>
      <4> HIDE DEF x, y, all
      <4> QED
        BY <2>1, <3>1, SubSeqEmpty
    <3> QED
      BY <3>1, <3>2
  <2>3. CASE y > 0
    <3>1. x + 1 \in 1..Len(uv) /\ x + y \in 1..Len(uv)
      BY <2>1, <2>3
    <3>2. SubSeq(uv \o w, x + 1, x + y) = SubSeq(uv, x + 1, x + y)
      <4> HIDE DEF uv, x, y
      <4> QED
        BY <1>1, <3>1, SubSeqOfConcat1
    <3> QED
      BY <1>4, <3>2
  <2> QED
    BY <2>1, <2>2, <2>3
<1>7. Len(u) + 1 + Len(v) - 1 = Len(u) + Len(v) /\ Len(u) + 1 - 1 = Len(u) /\ Len(u) + 1 + Len(v) = Len(uv) + 1
  BY <1>1
<1> HIDE DEF all, uv, vw
<1>8. /\ SubSeq(all, Len(u) + 1, Len(u) + 1 + Len(v) - 1) = v
      /\ SubSeq(all, 1, Len(u) + 1 - 1) = u
      /\ SubSeq(all, Len(u) + 1 + Len(v), Len(all)) = w
  BY <1>1, <1>2, <1>5, <1>6, <1>7
<1> QED
  BY <1>1, <1>8 DEF all, uv, vw, InParts

\* A hunk of a script: it fits both texts, and applying it moves the seam between them.
LEMMA HunkIs ==
  ASSUME NEW L, NEW ops \in Seq(EditsOver(L)), NEW i \in Nat, NEW j \in i..Len(ops)
  PROVE  LET h == Hunk(ops, <<i + 1, j>>)
         IN /\ h.lines = SubSeq(ops, i + 1, j)
            /\ Fits(h, Old(ops), New(ops))
            /\ Apply(h, Part(ops, 0, j, OldKinds) \o Part(ops, j, Len(ops), NewKinds)) =
                 Part(ops, 0, i, OldKinds) \o Part(ops, i, Len(ops), NewKinds)
<1> DEFINE n == Len(ops)
           h == Hunk(ops, <<i + 1, j>>)
           A == Part(ops, 0, i, OldKinds)
           B == Part(ops, i, j, OldKinds)
           C == Part(ops, j, n, OldKinds)
           X == Part(ops, 0, i, NewKinds)
           Y == Part(ops, i, j, NewKinds)
           Z == Part(ops, j, n, NewKinds)
<1>1. n \in Nat /\ 0 \in Nat /\ i \in 0..n /\ j \in i..n /\ j \in Nat /\ n \in i..n /\ n \in j..n /\ j \in 0..n
  BY LenProperties
<1>2. A \in Seq(L) /\ X \in Seq(L)
  BY <1>1, PartType
<1>3. B \in Seq(L) /\ Y \in Seq(L)
  BY <1>1, PartType
<1>4. C \in Seq(L) /\ Z \in Seq(L)
  BY <1>1, PartType
<1>5. /\ h.oldStart = Len(A) + 1 /\ h.newStart = Len(X) + 1
      /\ h.oldCount = Len(B) /\ h.newCount = Len(Y)
      /\ h.lines = SubSeq(ops, i + 1, j)
      /\ Old(h.lines) = B /\ New(h.lines) = Y
  <2>1. SubSeq(ops, 1, (i + 1) - 1) = SubSeq(ops, 0 + 1, i)
    OBVIOUS
  <2> QED
    BY <2>1 DEF Hunk, Part, Old, New, OldKinds, NewKinds
<1>6. Old(ops) = A \o (B \o C)
  <2>1. Part(ops, 0, n, OldKinds) = A \o Part(ops, i, n, OldKinds)
    BY <1>1, PartsMeet, ZenonT(40)
  <2>2. Part(ops, i, n, OldKinds) = B \o C
    BY <1>1, PartsMeet, ZenonT(40)
  <2> QED
    BY <2>1, <2>2, WholePart
<1>7. New(ops) = X \o (Y \o Z)
  <2>1. Part(ops, 0, n, NewKinds) = X \o Part(ops, i, n, NewKinds)
    BY <1>1, PartsMeet
  <2>2. Part(ops, i, n, NewKinds) = Y \o Z
    BY <1>1, PartsMeet
  <2> QED
    BY <2>1, <2>2, WholePart
<1>8. Part(ops, 0, j, OldKinds) = A \o B
  BY <1>1, PartsMeet, ZenonT(40)
<1>9. Part(ops, i, n, NewKinds) = Y \o Z
  BY <1>1, PartsMeet
<1> HIDE DEF A, B, C, X, Y, Z, h
<1>10. Fits(h, Old(ops), New(ops))
  <2>1. InParts(A, B, C) /\ InParts(X, Y, Z)
    BY <1>2, <1>3, <1>4, ThreeParts
  <2>2. /\ SubSeq(A \o (B \o C), Len(A) + 1, Len(A) + 1 + Len(B) - 1) = B
        /\ SubSeq(X \o (Y \o Z), Len(X) + 1, Len(X) + 1 + Len(Y) - 1) = Y
    BY <2>1, Zenon DEF InParts
  <2> QED
    BY <1>5, <1>6, <1>7, <2>2 DEF Fits
<1>11. Apply(h, (A \o B) \o Z) = A \o (Y \o Z)
  <2>1. InParts(A, B, Z)
    BY <1>2, <1>3, <1>4, ThreeParts
  <2>2. Regroups(A, Y, Z)
    BY <1>2, <1>3, <1>4, PartsRegroup
  <2>3. h.oldStart = Len(A) + 1 /\ h.oldCount = Len(B) /\ New(h.lines) = Y
    BY <1>5, Zenon
  <2> DEFINE t == (A \o B) \o Z
  <2>4. SubSeq(t, 1, h.oldStart - 1) = A
    BY <2>1, <2>3 DEF InParts
  <2>5. SubSeq(t, h.oldStart + h.oldCount, Len(t)) = Z
    BY <2>1, <2>3, Zenon DEF InParts
  <2>6. Apply(h, t) = (SubSeq(t, 1, h.oldStart - 1) \o New(h.lines)) \o SubSeq(t, h.oldStart + h.oldCount, Len(t))
    BY Zenon DEF Apply
  <2>7. (A \o Y) \o Z = A \o (Y \o Z)
    BY <2>2, Zenon DEF Regroups
  <2> HIDE DEF t
  <2>8. Apply(h, t) = A \o (Y \o Z)
    BY <2>3, <2>4, <2>5, <2>6, <2>7, Zenon
  <2> QED
    BY <2>8, Zenon DEF t
<1> QED
  BY <1>5, <1>8, <1>9, <1>10, <1>11 DEF A, Z, h

\* What stands for edits without a change.
LEMMA NoChangeInPart ==
  ASSUME NEW L, NEW ops \in Seq(EditsOver(L)), NEW i \in Nat, NEW j \in i..Len(ops),
         \A q \in (i + 1)..j : ~IsChange(ops, q)
  PROVE  Part(ops, i, j, OldKinds) = Part(ops, i, j, NewKinds) /\ Part(ops, i, j, ChangeKinds) = <<>>
<1> DEFINE E == EditsOver(L)
           m == i + 1
           u == SubSeq(ops, m, j)
           n == Len(ops)
<1>1. n \in Nat /\ j \in Nat /\ i <= j /\ j <= n /\ m \in Int /\ j - m + 1 = j - i /\ \A q \in m..j : q \in 1..n
  BY LenProperties
<1>2. \A q \in m..j : ops[q] \in E
  BY <1>1, ElementOfSeq
<1>3. \A q \in 1..(j - i) : m + q - 1 \in m..j
  BY <1>1
<1>4. u \in Seq(E)
  BY PartOfScript
<1>5. \A q \in m..j : ops[q].kind = "equal"
  BY DEF IsChange
<1> HIDE DEF E, m
<1>6. Len(u) = (IF m <= j THEN j - m + 1 ELSE 0) /\ \A q \in 1..(j - m + 1) : u[q] = ops[m + q - 1]
  BY <1>1, <1>2, SubSeqProperties
<1>7. \A q \in 1..Len(u) : q \in 1..(j - i)
  BY <1>1, <1>6
<1>8. \A q \in 1..Len(u) : u[q].kind = "equal"
  BY <1>1, <1>3, <1>5, <1>6, <1>7
<1> HIDE DEF u
<1>9. Old(u) = New(u) /\ Changes(u) = <<>>
  BY <1>4, <1>8, NoChanges DEF E
<1> QED
  BY <1>9 DEF u, m, Part, Old, New, Changes, OldKinds, NewKinds, ChangeKinds

\* The old text up to the edit i, and the new one from there.
Seam(ops, i) == Part(ops, 0, i, OldKinds) \o Part(ops, i, Len(ops), NewKinds)

\* The seam may be moved over edits that change nothing.
LEMMA SeamOverGap ==
  ASSUME NEW L, NEW ops \in Seq(EditsOver(L)), NEW i \in Nat, NEW j \in i..Len(ops),
         \A q \in (i + 1)..j : ~IsChange(ops, q)
  PROVE  Seam(ops, j) = Seam(ops, i)
<1> DEFINE n == Len(ops)
           A == Part(ops, 0, i, OldKinds)
           B == Part(ops, i, j, NewKinds)
           C == Part(ops, j, n, NewKinds)
<1>1. n \in Nat /\ 0 \in Nat /\ i \in 0..n /\ j \in Nat /\ n \in i..n /\ n \in j..n /\ j \in 0..n
  BY LenProperties
<1>2. A \in Seq(L)
  BY <1>1, PartType
<1>3. B \in Seq(L) /\ C \in Seq(L)
  BY <1>1, PartType
<1>4. Part(ops, 0, j, OldKinds) = A \o B
  <2>1. Part(ops, 0, j, OldKinds) = A \o Part(ops, i, j, OldKinds)
    BY <1>1, PartsMeet, ZenonT(40)
  <2>2. Part(ops, i, j, OldKinds) = B
    BY NoChangeInPart
  <2> QED
    BY <2>1, <2>2, Zenon
<1>5. Part(ops, i, n, NewKinds) = B \o C
  BY <1>1, PartsMeet, ZenonT(40)
<1> HIDE DEF A, B, C
<1>6. Regroups(A, B, C)
  BY <1>2, <1>3, PartsRegroup
<1>7. (A \o B) \o C = A \o (B \o C)
  BY <1>6, Zenon DEF Regroups
<1>8. Seam(ops, j) = (A \o B) \o C
  BY <1>4, Zenon DEF Seam, C, n
<1>9. Seam(ops, i) = A \o (B \o C)
  BY <1>5, Zenon DEF Seam, A, n
<1> QED
  BY <1>7, <1>8, <1>9, Zenon

\* The seam at the beginning is the new text, the one at the end is the old text.
LEMMA SeamAtTheEnds ==
  ASSUME NEW L, NEW ops \in Seq(EditsOver(L))
  PROVE  Seam(ops, 0) = New(ops) /\ Seam(ops, Len(ops)) = Old(ops)
<1> DEFINE n == Len(ops)
           u == New(ops)
           v == Old(ops)
<1>1. n \in Nat /\ 0 \in Nat /\ n \in 0..n /\ n \in n..n /\ 0 \in 0..n
  BY LenProperties
<1>2. u \in Seq(L) /\ v \in Seq(L)
  BY LinesOfType DEF Old, New
<1>3. Part(ops, 0, n, NewKinds) = u /\ Part(ops, 0, n, OldKinds) = v
  BY WholePart
<1>4. Part(ops, 0, 0, OldKinds) = <<>>
  <2>1. SubSeq(ops, 0 + 1, 0) = <<>>
    BY SubSeqEmpty
  <2> QED
    BY <2>1, LinesOfEmpty DEF Part
<1>5. Part(ops, n, n, NewKinds) = <<>>
  <2> HIDE DEF n
  <2>1. SubSeq(ops, n + 1, n) = <<>>
    BY <1>1, SubSeqEmpty
  <2> QED
    BY <2>1, LinesOfEmpty DEF Part
<1> HIDE DEF u, v
<1>6. <<>> \o u = u /\ v \o <<>> = v
  BY <1>2, ConcatEmptySeq
<1> QED
  BY <1>3, <1>4, <1>5, <1>6 DEF Seam, u, v

\* A hunk, applied where it was made, moves the seam from its end to its beginning.
LEMMA SeamOverHunk ==
  ASSUME NEW L, NEW ops \in Seq(EditsOver(L)), NEW i \in Nat, NEW j \in i..Len(ops)
  PROVE  Apply(Hunk(ops, <<i + 1, j>>), Seam(ops, j)) = Seam(ops, i)
BY HunkIs, Zenon DEF Seam

\* The edits between the ranges that hunks are made of.
Cut(rs, j) == IF j = 0 THEN 0 ELSE rs[j][2]
NextStart(ops, rs, j) == IF j = Len(rs) THEN Len(ops) ELSE rs[j + 1][1] - 1

\* Nothing changes between two ranges, before the first and after the last.
LEMMA BetweenRanges ==
  ASSUME NEW L, NEW ops \in Seq(EditsOver(L)), NEW rs, ShowsUpTo(ops, Len(ops), rs), NEW j \in 0..Len(rs)
  PROVE  /\ Cut(rs, j) \in 0..Len(ops)
         /\ NextStart(ops, rs, j) \in Cut(rs, j)..Len(ops)
         /\ \A q \in (Cut(rs, j) + 1)..NextStart(ops, rs, j) : ~IsChange(ops, q)
<1> DEFINE n == Len(ops)
           K == Len(rs)
           R == (1..n) \X (1..n)
           c == Cut(rs, j)
           s == NextStart(ops, rs, j)
<1>1. n \in Nat /\ rs \in Seq(R) /\ K \in Nat
  BY LenProperties DEF ShowsUpTo
<1>2. \A l \in 1..K : rs[l][1] \in 1..n /\ rs[l][2] \in 1..n /\ rs[l][1] <= rs[l][2]
  <2>1. \A l \in 1..K : rs[l] \in R
    BY <1>1, ElementOfSeq
  <2> QED
    BY <2>1 DEF ShowsUpTo
<1>3. \A l, m \in 1..K : l < m => rs[l][2] < rs[m][1]
  BY DEF ShowsUpTo
<1>4. \A q \in 1..n : IsChange(ops, q) => \E l \in 1..K : rs[l][1] <= q /\ q <= rs[l][2]
  BY DEF ShowsUpTo
<1>5. c = IF j = 0 THEN 0 ELSE rs[j][2]
  BY DEF Cut
<1>6. s = IF j = K THEN n ELSE rs[j + 1][1] - 1
  BY DEF NextStart
<1>7. j \in Nat /\ j <= K /\ (j # 0 => j \in 1..K) /\ (j # K => j + 1 \in 1..K)
  BY <1>1
<1> HIDE DEF c, s, n, K
<1>8. c \in 0..n
  <2>1. CASE j = 0
    BY <1>1, <1>5, <2>1
  <2>2. CASE j # 0
    <3>1. c \in 1..n
      BY <1>2, <1>5, <1>7, <2>2
    <3> QED
      BY <1>1, <3>1
  <2> QED
    BY <2>1, <2>2
<1>9. s \in c..n
  <2>1. CASE j = K
    BY <1>1, <1>6, <1>8, <2>1
  <2>2. CASE j # K
    <3> DEFINE x == rs[j + 1][1]
    <3>1. x \in 1..n /\ s = x - 1
      BY <1>2, <1>6, <1>7, <2>2
    <3>2. c < x
      <4>1. CASE j = 0
        BY <1>5, <3>1, <4>1
      <4>2. CASE j # 0
        <5>1. j < j + 1
          BY <1>1
        <5> QED
          BY <1>3, <1>5, <1>7, <2>2, <4>2, <5>1
      <4> QED
        BY <4>1, <4>2
    <3> HIDE DEF x
    <3> QED
      BY <1>1, <1>8, <3>1, <3>2
  <2> QED
    BY <2>1, <2>2
<1>10. ASSUME NEW q \in (c + 1)..s, IsChange(ops, q) PROVE FALSE
  <2>1. q \in 1..n /\ c < q /\ q <= s
    BY <1>1, <1>8, <1>9
  <2>2. PICK l \in 1..K : rs[l][1] <= q /\ q <= rs[l][2]
    BY <1>4, <1>10, <2>1
  <2>3. CASE l <= j
    <3>1. j # 0 /\ j \in 1..K /\ c = rs[j][2]
      BY <1>1, <1>5, <1>7, <2>3
    <3>2. rs[l][2] <= rs[j][2]
      <4>1. CASE l = j
        BY <1>2, <4>1
      <4>2. CASE l # j
        <5>1. l < j
          BY <1>1, <1>7, <2>3, <4>2
        <5>2. rs[l][2] < rs[j][1]
          BY <1>3, <3>1, <5>1
        <5>3. rs[l][2] \in 1..n /\ rs[j][1] \in 1..n /\ rs[j][2] \in 1..n /\ rs[j][1] <= rs[j][2]
          BY <1>2, <3>1
        <5> DEFINE x == rs[l][2]
                   y == rs[j][1]
                   z == rs[j][2]
        <5>4. x \in Int /\ y \in Int /\ z \in Int /\ x < y /\ y <= z
          <6>1. n \in Nat
            BY <1>1
          <6>2. x \in 1..n /\ y \in 1..n /\ z \in 1..n /\ x < y /\ y <= z
            BY <5>2, <5>3
          <6> HIDE DEF x, y, z
          <6> QED
            BY <6>1, <6>2
        <5> HIDE DEF x, y, z
        <5>5. x <= z
          BY <5>4
        <5> QED
          BY <5>5 DEF x, z
      <4> QED
        BY <4>1, <4>2
    <3> QED
      BY <1>2, <2>1, <2>2, <3>1, <3>2, SMTT(40)
  <2>4. CASE l > j
    <3>1. j # K /\ j + 1 \in 1..K /\ s = rs[j + 1][1] - 1
      BY <1>1, <1>6, <1>7, <2>4
    <3>2. rs[j + 1][1] <= rs[l][1]
      <4>1. CASE l = j + 1
        BY <1>2, <4>1
      <4>2. CASE l # j + 1
        <5>1. j + 1 < l
          BY <1>1, <2>4, <4>2
        <5>2. rs[j + 1][2] < rs[l][1]
          BY <1>3, <3>1, <5>1
        <5> QED
          BY <1>2, <3>1, <5>2, SMTT(40)
      <4> QED
        BY <4>1, <4>2
    <3> QED
      BY <1>2, <2>1, <2>2, <3>1, <3>2, SMTT(40)
  <2> QED
    BY <1>1, <2>3, <2>4
<1> QED
  BY <1>8, <1>9, <1>10 DEF c, s, n

\* A range begins and ends at edits of the script.
LEMMA RangeOfHunk ==
  ASSUME NEW L, NEW ops \in Seq(EditsOver(L)), NEW j \in 1..Len(Ranges(ops))
  PROVE  LET i == NextStart(ops, Ranges(ops), j - 1)
             e == Cut(Ranges(ops), j)
         IN i \in Nat /\ e \in i..Len(ops) /\ Ranges(ops)[j] = <<i + 1, e>>
<1> DEFINE rs == Ranges(ops)
           n == Len(ops)
           K == Len(rs)
           R == (1..n) \X (1..n)
<1>1. ShowsUpTo(ops, n, rs)
  BY RangesShow
<1>2. n \in Nat /\ rs \in Seq(R) /\ K \in Nat
  BY <1>1, LenProperties DEF ShowsUpTo
<1>3. rs[j] \in R /\ rs[j][1] <= rs[j][2]
  <2>1. rs[j] \in R
    BY <1>2, ElementOfSeq
  <2> QED
    BY <1>1, <2>1 DEF ShowsUpTo
<1>4. j # 0 /\ j - 1 # K /\ (j - 1) + 1 = j
  <2>1. j \in 1..K /\ K \in Nat
    BY <1>2
  <2> HIDE DEF K
  <2> QED
    BY ONLY <2>1
<1> HIDE DEF rs, K
<1>5. NextStart(ops, rs, j - 1) = rs[j][1] - 1 /\ Cut(rs, j) = rs[j][2]
  BY <1>4 DEF NextStart, Cut, K
<1> DEFINE s == rs[j][1]
           e == rs[j][2]
<1>6. s \in 1..n /\ e \in 1..n /\ s <= e /\ rs[j] = <<s, e>>
  BY <1>3
<1> HIDE DEF s, e
<1>7. s - 1 \in Nat /\ e \in (s - 1)..n /\ (s - 1) + 1 = s
  <2>1. n \in Nat /\ s \in 1..n /\ e \in 1..n /\ s <= e
    BY <1>2, <1>6
  <2> HIDE DEF n
  <2> QED
    BY ONLY <2>1
<1> QED
  BY <1>5, <1>6, <1>7 DEF s, e, rs

\* Applying the hunks of a script to its old text yields its new text.
LEMMA PatchIs ==
  ASSUME NEW L, NEW ops \in Seq(EditsOver(L))
  PROVE  Patch(Old(ops), buildHunks(ops)) = New(ops)
<1> DEFINE rs == Ranges(ops)
           n == Len(ops)
           K == Len(rs)
           hunks == buildHunks(ops)
           old == Old(ops)
           f == [i \in 0..K |-> Seam(ops, Cut(rs, K - i))]
           W == PatchWalk(old, hunks)
<1>1. ShowsUpTo(ops, n, rs)
  BY RangesShow
<1>2. n \in Nat /\ K \in Nat /\ rs \in Seq((1..n) \X (1..n))
  BY <1>1, LenProperties DEF ShowsUpTo
<1>3. Len(hunks) = K /\ \A j \in 1..K : hunks[j] = Hunk(ops, rs[j])
  <2>1. DOMAIN rs = 1..K
    BY <1>2, LenProperties
  <2>2. hunks = [j \in 1..K |-> Hunk(ops, rs[j])]
    BY <2>1 DEF buildHunks
  <2> HIDE DEF hunks, K
  <2>3. Len(hunks) = K
    BY <1>2, <2>2
  <2> QED
    BY <2>2, <2>3
<1>4. ASSUME NEW j \in 1..K PROVE Apply(hunks[j], Seam(ops, Cut(rs, j))) = Seam(ops, Cut(rs, j - 1))
  <2> DEFINE i == NextStart(ops, rs, j - 1)
             e == Cut(rs, j)
             c == Cut(rs, j - 1)
  <2>1. i \in Nat /\ e \in i..n /\ rs[j] = <<i + 1, e>>
    BY RangeOfHunk
  <2>2. c \in 0..n /\ i \in c..n /\ \A q \in (c + 1)..i : ~IsChange(ops, q)
    <3>1. j - 1 \in 0..K
      BY <1>2
    <3> QED
      BY <1>1, <3>1, BetweenRanges
  <2>3. hunks[j] = Hunk(ops, <<i + 1, e>>)
    BY <1>3, <2>1, Zenon
  <2> HIDE DEF i, e, c, hunks, n
  <2>4. Apply(hunks[j], Seam(ops, e)) = Seam(ops, i)
    <3>1. Apply(Hunk(ops, <<i + 1, e>>), Seam(ops, e)) = Seam(ops, i)
      BY <2>1, SeamOverHunk DEF n
    <3> QED
      BY <2>3, <3>1, Zenon
  <2>5. Seam(ops, i) = Seam(ops, c)
    <3>1. c \in Nat
      BY <1>2, <2>2
    <3> QED
      BY <2>2, <3>1, SeamOverGap DEF n
  <2> QED
    BY <2>4, <2>5, Zenon DEF e, c
<1>5. Seam(ops, Cut(rs, K)) = old
  <2>1. K \in 0..K /\ NextStart(ops, rs, K) = n
    BY <1>2 DEF NextStart
  <2>2. Cut(rs, K) \in 0..n /\ n \in Cut(rs, K)..n /\ \A q \in (Cut(rs, K) + 1)..n : ~IsChange(ops, q)
    BY <1>1, <2>1, BetweenRanges
  <2>3. Cut(rs, K) \in Nat
    BY <1>2, <2>2
  <2>4. Seam(ops, n) = Seam(ops, Cut(rs, K))
    BY <2>2, <2>3, SeamOverGap
  <2> QED
    BY <2>4, SeamAtTheEnds
<1>6. Seam(ops, Cut(rs, 0)) = New(ops)
  BY SeamAtTheEnds DEF Cut
<1> HIDE DEF rs, n, hunks, old, K
<1>7. f = [i \in 0..K |-> IF i = 0 THEN old ELSE Apply(hunks[K - i + 1], f[i - 1])]
  <2> SUFFICES ASSUME NEW i \in 0..K PROVE f[i] = IF i = 0 THEN old ELSE Apply(hunks[K - i + 1], f[i - 1])
    OBVIOUS
  <2>1. CASE i = 0
    <3>1. K - i = K
      BY <1>2, <2>1
    <3> QED
      BY <1>5, <2>1, <3>1
  <2>2. CASE i # 0
    <3>1. K - i + 1 \in 1..K /\ i - 1 \in 0..K /\ K - (i - 1) = K - i + 1 /\ (K - i + 1) - 1 = K - i
      BY <1>2, <2>2
    <3>2. f[i - 1] = Seam(ops, Cut(rs, K - i + 1)) /\ f[i] = Seam(ops, Cut(rs, K - i))
      BY <3>1
    <3> HIDE DEF f
    <3>3. Apply(hunks[K - i + 1], Seam(ops, Cut(rs, K - i + 1))) = Seam(ops, Cut(rs, K - i))
      <4> DEFINE j == K - i + 1
      <4>1. j \in 1..K /\ j - 1 = K - i
        BY <3>1
      <4> HIDE DEF j
      <4>2. Apply(hunks[j], Seam(ops, Cut(rs, j))) = Seam(ops, Cut(rs, j - 1))
        BY <1>4, <4>1
      <4> QED
        BY <4>1, <4>2 DEF j
    <3> QED
      BY <2>2, <3>2, <3>3
  <2> QED
    BY <2>1, <2>2
<1> HIDE DEF f
<1>8. W = [i \in 0..K |-> IF i = 0 THEN old ELSE Apply(hunks[K - i + 1], W[i - 1])]
  BY <1>3, <1>7 DEF PatchWalk
<1> HIDE DEF W
<1> DEFINE G == {i \in 0..K : W[i] = f[i]}
<1>9. 0 \in G
  BY <1>2, <1>7, <1>8
<1>10. ASSUME NEW i \in 1..K, i - 1 \in G PROVE i \in G
  <2>1. i \in 0..K /\ i # 0 /\ W[i - 1] = f[i - 1]
    BY <1>2, <1>10
  <2>2. W[i] = Apply(hunks[K - i + 1], W[i - 1])
    BY <1>8, <2>1
  <2>3. f[i] = Apply(hunks[K - i + 1], f[i - 1])
    BY <1>7, <2>1
  <2> QED
    BY <2>1, <2>2, <2>3
<1>11. K \in G
  <2> HIDE DEF G
  <2>1. 0..K \subseteq G
    BY <1>2, <1>9, <1>10, UpToInduces
  <2> QED
    BY <1>2, <2>1
<1>12. W[K] = New(ops)
  <2>1. K \in 0..K /\ K - K = 0
    BY <1>2
  <2>2. f[K] = Seam(ops, Cut(rs, 0))
    BY <2>1 DEF f
  <2> QED
    BY <1>6, <1>11, <2>2
<1> QED
  BY <1>3, <1>12 DEF Patch, W, hunks, old

\* The hunks hold all the changes of the script.
LEMMA ChangeCountIs ==
  ASSUME NEW L, NEW ops \in Seq(EditsOver(L))
  PROVE  ChangeCount(buildHunks(ops)) = Len(Changes(ops))
<1> DEFINE rs == Ranges(ops)
           n == Len(ops)
           K == Len(rs)
           hunks == buildHunks(ops)
           Count(i) == Len(Part(ops, 0, i, ChangeKinds))
           f == [j \in 0..K |-> Count(Cut(rs, j))]
           W == ChangesWalk(hunks)
<1>1. ShowsUpTo(ops, n, rs)
  BY RangesShow
<1>2. n \in Nat /\ K \in Nat /\ rs \in Seq((1..n) \X (1..n))
  BY <1>1, LenProperties DEF ShowsUpTo
<1>3. Len(hunks) = K /\ \A j \in 1..K : hunks[j] = Hunk(ops, rs[j])
  <2>1. DOMAIN rs = 1..K
    BY <1>2, LenProperties
  <2>2. hunks = [j \in 1..K |-> Hunk(ops, rs[j])]
    BY <2>1 DEF buildHunks
  <2> HIDE DEF hunks, K
  <2>3. Len(hunks) = K
    BY <1>2, <2>2
  <2> QED
    BY <2>2, <2>3
<1>4. ASSUME NEW i \in 0..n, NEW j \in i..n
      PROVE  Count(j) = Count(i) + Len(Part(ops, i, j, ChangeKinds))
  <2> DEFINE A == Part(ops, 0, i, ChangeKinds)
             B == Part(ops, i, j, ChangeKinds)
  <2>1. 0 \in Nat /\ i \in Nat /\ j \in i..n /\ j \in 0..n /\ i \in 0..n
    BY <1>2
  <2>2. Part(ops, 0, j, ChangeKinds) = A \o B
    BY <2>1, PartsMeet
  <2>3. A \in Seq(L)
    BY <2>1, PartType
  <2>4. B \in Seq(L)
    BY <2>1, PartType
  <2> HIDE DEF A, B
  <2>5. Len(A \o B) = Len(A) + Len(B)
    BY <2>3, <2>4, ConcatProperties
  <2> QED
    BY <2>2, <2>5 DEF A, B
<1>5. ASSUME NEW j \in 1..K PROVE Count(Cut(rs, j)) = Count(Cut(rs, j - 1)) + Len(Changes(hunks[j].lines))
  <2> DEFINE i == NextStart(ops, rs, j - 1)
             e == Cut(rs, j)
             c == Cut(rs, j - 1)
  <2>1. i \in Nat /\ e \in i..n /\ rs[j] = <<i + 1, e>>
    BY RangeOfHunk
  <2>2. c \in 0..n /\ i \in c..n /\ \A q \in (c + 1)..i : ~IsChange(ops, q)
    <3>1. j - 1 \in 0..K
      BY <1>2
    <3> QED
      BY <1>1, <3>1, BetweenRanges
  <2>3. hunks[j] = Hunk(ops, <<i + 1, e>>)
    BY <1>3, <2>1, Zenon
  <2> HIDE DEF i, e, c, hunks, n, Count
  <2>4. hunks[j].lines = SubSeq(ops, i + 1, e)
    <3>1. Hunk(ops, <<i + 1, e>>).lines = SubSeq(ops, i + 1, e)
      BY <2>1, HunkIs DEF n
    <3> QED
      BY <2>3, <3>1, Zenon
  <2>5. Changes(hunks[j].lines) = Part(ops, i, e, ChangeKinds)
    BY <2>4, Zenon DEF Changes, Part, ChangeKinds
  <2>6. c \in Nat /\ i \in 0..n
    BY <1>2, <2>1, <2>2
  <2>7. Part(ops, c, i, ChangeKinds) = <<>>
    BY <2>2, <2>6, NoChangeInPart DEF n
  <2>8. Count(i) = Count(c) + 0
    <3>1. Count(i) = Count(c) + Len(Part(ops, c, i, ChangeKinds))
      BY <1>4, <2>2, Zenon
    <3>2. Len(<<>>) = 0
      BY EmptySeq
    <3> QED
      BY <2>7, <3>1, <3>2, Zenon
  <2>9. Count(e) = Count(i) + Len(Part(ops, i, e, ChangeKinds))
    BY <1>4, <2>1, <2>6, Zenon
  <2>10. Count(c) \in Nat
    <3>1. Part(ops, 0, c, ChangeKinds) \in Seq(L)
      BY <2>2, PartType DEF n
    <3> QED
      BY <3>1, LenProperties DEF Count
  <2>11. Count(i) = Count(c)
    BY <2>8, <2>10
  <2> QED
    BY <2>5, <2>9, <2>11, Zenon DEF e, c
<1>6. Count(Cut(rs, 0)) = 0
  <2>1. SubSeq(ops, 0 + 1, 0) = <<>>
    BY SubSeqEmpty
  <2>2. Part(ops, 0, 0, ChangeKinds) = <<>>
    BY <2>1, LinesOfEmpty DEF Part
  <2> QED
    BY <2>2, EmptySeq DEF Cut
<1>7. Count(Cut(rs, K)) = Len(Changes(ops))
  <2> DEFINE c == Cut(rs, K)
  <2>1. K \in 0..K /\ NextStart(ops, rs, K) = n
    BY <1>2 DEF NextStart
  <2>2. c \in 0..n /\ n \in c..n /\ \A q \in (c + 1)..n : ~IsChange(ops, q)
    BY <1>1, <2>1, BetweenRanges
  <2>3. c \in Nat
    BY <1>2, <2>2
  <2>4. Part(ops, c, n, ChangeKinds) = <<>>
    BY <2>2, <2>3, NoChangeInPart
  <2> HIDE DEF c, n, Count
  <2>5. Count(n) = Count(c) + 0
    <3>1. Count(n) = Count(c) + Len(Part(ops, c, n, ChangeKinds))
      BY <1>4, <2>2, Zenon
    <3>2. Len(<<>>) = 0
      BY EmptySeq
    <3> QED
      BY <2>4, <3>1, <3>2, Zenon
  <2>6. Count(c) \in Nat
    <3>1. Part(ops, 0, c, ChangeKinds) \in Seq(L)
      BY <2>2, PartType DEF n
    <3> QED
      BY <3>1, LenProperties DEF Count
  <2>7. Part(ops, 0, n, ChangeKinds) = Changes(ops)
    <3>1. SubSeq(ops, 0 + 1, n) = ops
      BY SubSeqFull DEF n
    <3> QED
      BY <3>1 DEF Part, Changes, ChangeKinds
  <2>8. Count(n) = Len(Changes(ops))
    BY <2>7, Zenon DEF Count
  <2>9. Count(n) = Count(c)
    BY <2>5, <2>6
  <2> QED
    BY <2>8, <2>9, Zenon DEF c
<1>8. ASSUME NEW j \in 0..K PROVE Count(Cut(rs, j)) \in Nat
  <2>1. Cut(rs, j) \in 0..n
    BY <1>1, BetweenRanges
  <2>2. Part(ops, 0, Cut(rs, j), ChangeKinds) \in Seq(L)
    BY <2>1, PartType
  <2> QED
    BY <2>2, LenProperties
<1> HIDE DEF rs, n, hunks, Count, K
<1>9. \A j \in 0..K : f[j] = IF j = 0 THEN 0 ELSE f[j - 1] + Len(Changes(hunks[j].lines))
  <2> SUFFICES ASSUME NEW j \in 0..K PROVE f[j] = IF j = 0 THEN 0 ELSE f[j - 1] + Len(Changes(hunks[j].lines))
    OBVIOUS
  <2>1. CASE j = 0
    BY <1>6, <2>1
  <2>2. CASE j # 0
    <3>1. j \in 1..K /\ j - 1 \in 0..K
      BY <1>2, <2>2
    <3>2. f[j - 1] = Count(Cut(rs, j - 1)) /\ f[j] = Count(Cut(rs, j))
      BY <3>1
    <3> HIDE DEF f
    <3> QED
      BY <1>5, <2>2, <3>1, <3>2
  <2> QED
    BY <2>1, <2>2
<1>10. f = [j \in 0..K |-> IF j = 0 THEN 0 ELSE f[j - 1] + Len(Changes(hunks[j].lines))]
  <2>1. f = [j \in 0..K |-> f[j]]
    OBVIOUS
  <2> HIDE DEF f
  <2> QED
    BY <1>9, <2>1
<1>11. f[K] = Len(Changes(ops))
  BY <1>2, <1>7
<1> HIDE DEF f
<1>12. W = [j \in 0..K |-> IF j = 0 THEN 0 ELSE W[j - 1] + Len(Changes(hunks[j].lines))]
  BY <1>3, <1>10 DEF ChangesWalk
<1> HIDE DEF W
<1> DEFINE G == {j \in 0..K : W[j] = f[j]}
<1>13. 0 \in G
  BY <1>2, <1>9, <1>12
<1>14. ASSUME NEW j \in 1..K, j - 1 \in G PROVE j \in G
  <2>1. j \in 0..K /\ j # 0 /\ W[j - 1] = f[j - 1]
    BY <1>2, <1>14
  <2>2. W[j] = W[j - 1] + Len(Changes(hunks[j].lines))
    BY <1>12, <2>1
  <2>3. f[j] = f[j - 1] + Len(Changes(hunks[j].lines))
    BY <1>9, <2>1
  <2> QED
    BY <2>1, <2>2, <2>3
<1>15. K \in G
  <2> HIDE DEF G
  <2>1. 0..K \subseteq G
    BY <1>2, <1>13, <1>14, UpToInduces
  <2> QED
    BY <1>2, <2>1
<1> QED
  BY <1>3, <1>11, <1>15 DEF ChangeCount, W, hunks

\* What a text diff promises: applied to the old text it yields the new one, every hunk says what is in
\* its place in both texts, and no diff of the two texts has fewer changed lines.
LEMMA BuildUnifiedTextDiffIs ==
  ASSUME NEW L, NEW a \in Seq(L), NEW b \in Seq(L)
  PROVE  LET hunks == BuildUnifiedTextDiff(a, b)
         IN /\ Patch(a, hunks) = b
            /\ \A h \in Range(hunks) : Fits(h, a, b)
            /\ ChangeCount(hunks) = Len(a) + Len(b) - 2 * CommonLength(a, b)
<1> DEFINE ops == computeDiff(a, b)
           hunks == buildHunks(ops)
           rs == Ranges(ops)
           K == Len(rs)
<1>1. ops \in Seq(EditsOver(L)) /\ Old(ops) = a /\ New(ops) = b
  BY computeDiffIs
<1>2. Len(Changes(ops)) = Len(a) + Len(b) - 2 * CommonLength(a, b)
  BY FewestChanges
<1> HIDE DEF ops
<1>3. Patch(a, hunks) = b
  BY <1>1, PatchIs
<1>4. ChangeCount(hunks) = Len(Changes(ops))
  BY <1>1, ChangeCountIs
<1>5. ASSUME NEW h \in Range(hunks) PROVE Fits(h, a, b)
  <2>1. DOMAIN rs = 1..K
    BY <1>1, RangesShow, LenProperties DEF ShowsUpTo
  <2>2. PICK j \in 1..K : h = Hunk(ops, rs[j])
    BY <2>1 DEF buildHunks, Range
  <2> DEFINE i == NextStart(ops, rs, j - 1)
             e == Cut(rs, j)
  <2>3. i \in Nat /\ e \in i..Len(ops) /\ rs[j] = <<i + 1, e>>
    BY <1>1, RangeOfHunk
  <2> HIDE DEF i, e, rs
  <2>4. Fits(Hunk(ops, <<i + 1, e>>), Old(ops), New(ops))
    BY <1>1, <2>3, HunkIs
  <2> QED
    BY <1>1, <2>2, <2>3, <2>4, Zenon
<1> QED
  BY <1>2, <1>3, <1>4, <1>5 DEF BuildUnifiedTextDiff, ops

-----------------------------------------------------------------------------
(* Restore.                                                                *)

\* What undoing a turn may do at a path without removing anything: put the snapshot's file or
\* directory there, a directory never in the place of a file.
Restored(f, g, p) ==
  \/ g[p] = f[p]
  \/ snapshot[p] # Absent /\ g[p] = snapshot[p] /\ (snapshot[p] = Dir => ~IsFile(f, p))

Trees == [Paths -> Contents]
Results == [files : Trees, ok : BOOLEAN]

\* Two such steps are one.
LEMMA RestoredTwice ==
  ASSUME NEW f, NEW g, NEW h, NEW p, Restored(f, g, p), Restored(g, h, p)
  PROVE  Restored(f, h, p)
BY DEF Restored, IsFile

\* copyFile restores the file and makes its directories, which the snapshot has too.
LEMMA CopyFileRestores ==
  ASSUME snapshot \in Trees, NEW r \in Results, NEW p \in Files(snapshot), Grounded
  PROVE  LET c == copyFile(r, p)
         IN /\ c \in Results
            /\ \A q \in Paths : Restored(r.files, c.files, q)
            /\ c.ok => c.files[p] = snapshot[p]
<1>1. CASE Unreadable(r.files, p)
  BY <1>1 DEF copyFile, Result, Results, Restored
<1>2. CASE ~Unreadable(r.files, p)
  <2> DEFINE g == [q \in Paths |-> IF q = p THEN snapshot[p] ELSE IF q \in Above[p] THEN Dir ELSE r.files[q]]
  <2>1. copyFile(r, p) = [files |-> g, ok |-> TRUE]
    BY <1>2 DEF copyFile, Result
  <2>2. p \in Paths /\ snapshot[p] \notin {Absent, Dir}
    BY DEF Files, IsFile
  <2>3. g \in Trees
    BY <2>2 DEF Trees, Contents, Results
  <2>4. ASSUME NEW q \in Paths PROVE Restored(r.files, g, q)
    <3>1. CASE q = p
      BY <3>1, <2>2 DEF Restored
    <3>2. CASE q # p /\ q \in Above[p]
      BY <3>2, <1>2, <2>2, WorkspaceAssumption DEF Restored, Unreadable, BelowFile, Grounded
    <3>3. CASE q # p /\ q \notin Above[p]
      BY <3>3 DEF Restored
    <3> QED
      BY <3>1, <3>2, <3>3
  <2> QED
    BY <2>1, <2>2, <2>3, <2>4 DEF Results
<1> QED
  BY <1>1, <1>2

\* One step of the walk restores the path it is at.
LEMMA CopyNextRestores ==
  ASSUME snapshot \in Trees, NEW r \in Results, NEW p \in Paths, Grounded
  PROVE  LET c == CopyNext(p, r)
         IN /\ c \in Results
            /\ \A q \in Paths : Restored(r.files, c.files, q)
            /\ c.ok => r.ok /\ (snapshot[p] # Absent => c.files[p] = snapshot[p])
<1>1. CASE ~r.ok \/ snapshot[p] = Absent
  BY <1>1 DEF CopyNext, Restored, Results
<1>2. CASE r.ok /\ snapshot[p] = Dir
  <2>1. CopyNext(p, r) = MkdirAll(r, p)
    BY <1>2, WorkspaceAssumption DEF CopyNext
  <2>2. CASE IsFile(r.files, p) \/ BelowFile(r.files, p)
    BY <2>1, <2>2 DEF MkdirAll, Result, Results, Restored
  <2>3. CASE ~(IsFile(r.files, p) \/ BelowFile(r.files, p))
    <3> DEFINE g == [q \in Paths |-> IF q \in {p} \cup Above[p] THEN Dir ELSE r.files[q]]
    <3>1. MkdirAll(r, p) = [files |-> g, ok |-> TRUE]
      BY <2>3 DEF MkdirAll, Result
    <3>2. g \in Trees
      BY DEF Trees, Contents, Results
    <3>3. ASSUME NEW q \in Paths PROVE Restored(r.files, g, q)
      BY <1>2, <2>3, WorkspaceAssumption DEF Restored, BelowFile, Grounded
    <3> QED
      BY <1>2, <2>1, <3>1, <3>2, <3>3 DEF Results
  <2> QED
    BY <2>2, <2>3
<1>3. CASE r.ok /\ snapshot[p] \notin {Absent, Dir}
  <2>1. CopyNext(p, r) = copyFile(r, p) /\ p \in Files(snapshot)
    BY <1>3 DEF CopyNext, Files, IsFile
  <2> QED
    BY <1>3, <2>1, CopyFileRestores
<1> QED
  BY <1>1, <1>2, <1>3

\* The walk of Restore is the function that its definition says it is.
LEMMA CopyWalkDef ==
  ASSUME snapshot \in Trees, Grounded, NEW w \in Trees
  PROVE  /\ CopyWalk(w)[0] = Result(w, TRUE)
         /\ \A n \in Nat : n < Len(Order) => CopyWalk(w)[n + 1] = CopyNext(Order[n + 1], CopyWalk(w)[n])
<1> DEFINE step == [i \in 1..Len(Order) |-> [r \in Results |-> CopyNext(Order[i], r)]]
           base == Result(w, TRUE)
           C == CopyWalk(w)
<1>1. Len(Order) \in Nat /\ \A i \in 1..Len(Order) : Order[i] \in Paths
  BY WorkspaceAssumption, LenProperties, ElementOfSeq
<1>2. base \in Results
  BY DEF Result, Results
<1>3. step \in [1..Len(Order) -> [Results -> Results]]
  BY <1>1, CopyNextRestores
<1> HIDE DEF step, base
<1>4. PICK f \in [0..Len(Order) -> Results] : IsWalk(f, Len(Order), base, step)
  BY <1>1, <1>2, <1>3, WalkStays
<1>5. ASSUME NEW i \in 0..Len(Order)
      PROVE  f[i] = IF i = 0 THEN base ELSE CopyNext(Order[i], f[i - 1])
  <2>1. i # 0 => i \in 1..Len(Order) /\ f[i - 1] \in Results
    BY <1>1, <1>4
  <2>2. f[i] = IF i = 0 THEN base ELSE step[i][f[i - 1]]
    BY <1>4, <2>1 DEF IsWalk
  <2> QED
    BY <2>1, <2>2 DEF step
<1>6. f = [i \in 0..Len(Order) |-> IF i = 0 THEN Result(w, TRUE) ELSE CopyNext(Order[i], f[i - 1])]
  BY <1>4, <1>5 DEF base
<1>7. C = [i \in 0..Len(Order) |-> IF i = 0 THEN Result(w, TRUE) ELSE CopyNext(Order[i], C[i - 1])]
  BY <1>6 DEF CopyWalk
<1> HIDE DEF C
<1>8. 0 \in 0..Len(Order) /\ \A n \in Nat : n < Len(Order) => n + 1 \in 0..Len(Order) /\ n + 1 # 0
  BY <1>1
<1>9. C[0] = Result(w, TRUE) /\ \A n \in Nat : n < Len(Order) => C[n + 1] = CopyNext(Order[n + 1], C[(n + 1) - 1])
  BY <1>7, <1>8
<1> QED
  BY <1>9 DEF C

\* The walk as far as it got: every path is as it was or restored, and if there was no error what
\* was passed of the snapshot is back.
CopiedTo(w, n) ==
  LET c == CopyWalk(w)[n]
  IN /\ c \in Results
     /\ \A q \in Paths : Restored(w, c.files, q)
     /\ c.ok => \A j \in 1..n : snapshot[Order[j]] # Absent => c.files[Order[j]] = snapshot[Order[j]]

LEMMA CopyWalkRestores ==
  ASSUME snapshot \in Trees, NEW w \in Trees, Grounded
  PROVE  \A n \in 0..Len(Order) : CopiedTo(w, n)
<1> DEFINE C == CopyWalk(w)
           Good(n) == CopiedTo(w, n)
           T == {n \in Nat : n <= Len(Order) => Good(n)}
<1>0. ASSUME NEW n
      PROVE  Good(n) <=> /\ C[n] \in Results
                         /\ \A q \in Paths : Restored(w, C[n].files, q)
                         /\ C[n].ok => \A j \in 1..n : snapshot[Order[j]] # Absent =>
                                         C[n].files[Order[j]] = snapshot[Order[j]]
  BY DEF CopiedTo
<1>1. Len(Order) \in Nat /\ \A j \in 1..Len(Order) : Order[j] \in Paths
  BY WorkspaceAssumption, LenProperties, ElementOfSeq
<1>2. /\ C[0] = Result(w, TRUE)
      /\ \A n \in Nat : n < Len(Order) => C[n + 1] = CopyNext(Order[n + 1], C[n])
  BY CopyWalkDef, WorkspaceAssumption
<1> HIDE DEF C, Good
<1>3. 0 \in T
  <2>1. C[0] \in Results /\ C[0].files = w
    BY <1>2 DEF Result, Results
  <2> QED
    BY <1>0, <2>1 DEF Restored
<1>4. ASSUME NEW n \in Nat, n \in T PROVE n + 1 \in T
  <2> SUFFICES ASSUME n + 1 <= Len(Order) PROVE Good(n + 1)
    OBVIOUS
  <2>1. n < Len(Order) /\ n + 1 \in 1..Len(Order) /\ Order[n + 1] \in Paths
    BY <1>1
  <2>2. Good(n)
    BY <1>4, <2>1
  <2>3. C[n + 1] = CopyNext(Order[n + 1], C[n])
    BY <1>2, <2>1
  <2>4. /\ C[n + 1] \in Results
        /\ \A q \in Paths : Restored(C[n].files, C[n + 1].files, q)
        /\ C[n + 1].ok => /\ C[n].ok
                          /\ snapshot[Order[n + 1]] # Absent =>
                               C[n + 1].files[Order[n + 1]] = snapshot[Order[n + 1]]
    BY <1>0, <2>1, <2>2, <2>3, CopyNextRestores
  <2>5. \A q \in Paths : Restored(w, C[n + 1].files, q)
    BY <1>0, <2>2, <2>4, RestoredTwice
  <2>6. ASSUME C[n + 1].ok, NEW j \in 1..(n + 1), snapshot[Order[j]] # Absent
        PROVE  C[n + 1].files[Order[j]] = snapshot[Order[j]]
    <3>1. CASE j = n + 1
      BY <2>4, <2>6, <3>1
    <3>2. CASE j # n + 1
      <4>1. j \in 1..n /\ Order[j] \in Paths
        BY <1>1, <2>1, <3>2
      <4>2. C[n].files[Order[j]] = snapshot[Order[j]]
        BY <1>0, <2>2, <2>4, <2>6, <4>1
      <4> QED
        BY <2>4, <4>1, <4>2 DEF Restored
    <3> QED
      BY <3>1, <3>2
  <2> QED
    BY <1>0, <2>4, <2>5, <2>6
<1>5. Nat \subseteq T
  <2> HIDE DEF T
  <2> QED
    BY <1>3, <1>4, NatInduces
<1>6. \A n \in 0..Len(Order) : Good(n)
  BY <1>1, <1>5
<1> QED
  BY <1>6 DEF Good

LEMMA CopyAllRestores ==
  ASSUME snapshot \in Trees, NEW w \in Trees,
         Grounded
  PROVE  LET c == CopyAll(w)
         IN /\ c \in Results
            /\ \A q \in Paths : Restored(w, c.files, q)
            /\ c.ok => \A q \in Paths : snapshot[q] # Absent => c.files[q] = snapshot[q]
<1>1. Len(Order) \in Nat /\ Len(Order) \in 0..Len(Order)
  BY WorkspaceAssumption, LenProperties
<1>2. CopiedTo(w, Len(Order))
  BY <1>1, CopyWalkRestores
<1>3. \A q \in Paths : \E j \in 1..Len(Order) : Order[j] = q
  BY WorkspaceAssumption, LenProperties DEF Paths, Range
<1> QED
  BY <1>2, <1>3 DEF CopiedTo, CopyAll

-----------------------------------------------------------------------------
(* ApplySelectiveDecision.                                                 *)

\* What undoing a turn may do when the paths in A are among those it may remove.
Undone(f, g, A, p) == Restored(f, g, p) \/ (p \in A /\ g[p] \in {Absent, snapshot[p]})

\* A discarded path is as in the snapshot: a file that is there is back, another one is gone.
Settled(f, p) == IF p \in Files(snapshot) THEN f[p] = snapshot[p] ELSE ~IsFile(f, p) /\ p \notin repo.stuck

\* What is undone in two steps is undone.
LEMMA UndoneTwice ==
  ASSUME NEW A, A \cap Files(snapshot) = {}, NEW p \in Paths, NEW f, NEW g, NEW h,
         Undone(f, g, A, p), Undone(g, h, A, p)
  PROVE  Undone(f, h, A, p)
<1>1. CASE Restored(f, g, p) /\ Restored(g, h, p)
  BY <1>1, RestoredTwice DEF Undone
<1>2. CASE p \in A /\ h[p] \in {Absent, snapshot[p]}
  BY <1>2 DEF Undone
<1>3. CASE p \in A /\ g[p] \in {Absent, snapshot[p]} /\ Restored(g, h, p)
  BY <1>3 DEF Undone, Restored
<1> QED
  BY <1>1, <1>2, <1>3 DEF Undone

\* What is as the discard left it stays so, whatever is undone after it.
LEMMA SettledStays ==
  ASSUME NEW A, A \cap Files(snapshot) = {}, NEW p \in Paths, NEW f, NEW g,
         Undone(f, g, A, p), Settled(f, p)
  PROVE  Settled(g, p)
<1>1. p \notin Files(snapshot) => snapshot[p] \in {Absent, Dir}
  BY DEF Files, IsFile
<1> QED
  BY <1>1 DEF Undone, Restored, Settled, IsFile

\* What an entry of the change set says of its file.
Undoable(file, A) ==
  /\ file.path \in Paths
  /\ file.status = "added" => file.path \in A
  /\ file.status # "added" => file.path \in Files(snapshot)

AllUndoable(discarded, A) ==
  \A i \in 1..Len(discarded) :
    /\ FileOf(discarded[i]).path = discarded[i]
    /\ Undoable(FileOf(discarded[i]), A)

\* Discarding one file undoes and settles it, if no error stops it.
LEMMA DiscardRestores ==
  ASSUME snapshot \in Trees, NEW r \in Results,
         Grounded,
         NEW A, A \subseteq Paths \ Files(snapshot),
         NEW file, Undoable(file, A)
  PROVE  LET c == ApplyDiscardForFile(r, file)
         IN /\ c \in Results
            /\ \A q \in Paths : Undone(r.files, c.files, A, q)
            /\ c.ok => Settled(c.files, file.path)
<1> DEFINE p == file.path
<1>1. CASE file.status = "added" /\ p \in repo.stuck
  BY <1>1 DEF ApplyDiscardForFile, Result, Results, Undone, Restored
<1>2. CASE file.status = "added" /\ p \notin repo.stuck
  <2> DEFINE g == [r.files EXCEPT ![p] = Absent]
  <2>1. ApplyDiscardForFile(r, file) = [files |-> g, ok |-> TRUE]
    BY <1>2 DEF ApplyDiscardForFile, Result
  <2>2. g \in Trees /\ g[p] = Absent /\ \A q \in Paths : q # p => g[q] = r.files[q]
    BY DEF Trees, Contents, Results, Undoable
  <2>3. p \in A /\ p \notin Files(snapshot)
    BY <1>2 DEF Undoable
  <2> HIDE DEF g, p
  <2>4. \A q \in Paths : Undone(r.files, g, A, q)
    BY <2>2, <2>3 DEF Undone, Restored
  <2>5. Settled(g, p)
    BY <1>2, <2>2, <2>3 DEF Settled, IsFile, p
  <2> QED
    BY <2>1, <2>2, <2>4, <2>5 DEF Results, p
<1>3. CASE file.status # "added"
  <2>1. p \in Files(snapshot) /\ ApplyDiscardForFile(r, file) = copyFile(r, p)
    BY <1>3 DEF ApplyDiscardForFile, Undoable
  <2>2. snapshot[p] # Absent
    BY <2>1 DEF Files, IsFile
  <2> QED
    <3> DEFINE c == ApplyDiscardForFile(r, file)
    <3>1. c \in Results /\ (\A q \in Paths : Restored(r.files, c.files, q)) /\ (c.ok => c.files[p] = snapshot[p])
      BY <2>1, <2>2, CopyFileRestores, WorkspaceAssumption DEF Undoable
    <3> HIDE DEF c
    <3>2. (\A q \in Paths : Undone(r.files, c.files, A, q)) /\ (c.ok => Settled(c.files, p))
      BY <2>1, <3>1 DEF Undone, Settled
    <3> QED
      BY <3>1, <3>2 DEF c
<1> QED
  BY <1>1, <1>2, <1>3

\* One step of the walk of ApplySelectiveDecision.
DiscardNext(r, file) == IF ~r.ok THEN r ELSE ApplyDiscardForFile(r, file)

StepsOfDiscard(w, discarded) ==
  /\ DiscardWalk(w, discarded)[0] = Result(w, TRUE)
  /\ \A n \in Nat : n < Len(discarded) =>
       DiscardWalk(w, discarded)[n + 1] = DiscardNext(DiscardWalk(w, discarded)[n], FileOf(discarded[n + 1]))

\* The walk of ApplySelectiveDecision is the function that its definition says it is.
LEMMA DiscardWalkDef ==
  ASSUME snapshot \in Trees, Grounded, NEW w \in Trees, NEW A, A \subseteq Paths \ Files(snapshot),
         NEW discarded, Len(discarded) \in Nat, AllUndoable(discarded, A)
  PROVE  StepsOfDiscard(w, discarded)
<1> DEFINE N == Len(discarded)
           Step(i, r) == DiscardNext(r, FileOf(discarded[i]))
           step == [i \in 1..N |-> [r \in Results |-> Step(i, r)]]
           base == Result(w, TRUE)
           D == DiscardWalk(w, discarded)
<1>1. base \in Results
  BY DEF Result, Results
<1>2. ASSUME NEW i \in 1..N, NEW r \in Results PROVE Step(i, r) \in Results
  <2>1. Undoable(FileOf(discarded[i]), A)
    BY DEF AllUndoable
  <2> QED
    BY <2>1, DiscardRestores DEF DiscardNext
<1> HIDE DEF Step
<1>3. step \in [1..N -> [Results -> Results]]
  BY <1>2
<1> HIDE DEF step, base
<1>4. PICK f \in [0..N -> Results] : IsWalk(f, N, base, step)
  BY <1>1, <1>3, WalkStays
<1>5. ASSUME NEW i \in 0..N PROVE f[i] = IF i = 0 THEN base ELSE Step(i, f[i - 1])
  <2>1. i # 0 => i \in 1..N /\ f[i - 1] \in Results
    BY <1>4
  <2>2. f[i] = IF i = 0 THEN base ELSE step[i][f[i - 1]]
    BY <1>4, <2>1 DEF IsWalk
  <2> QED
    BY <2>1, <2>2 DEF step
<1>6. f = [i \in 0..N |-> IF i = 0 THEN Result(w, TRUE) ELSE Step(i, f[i - 1])]
  <2>1. f = [i \in 0..N |-> f[i]]
    BY <1>4
  <2> QED
    BY <1>5, <2>1, SMTT(40) DEF base
<1>7. D = [i \in 0..N |-> IF i = 0 THEN Result(w, TRUE) ELSE Step(i, D[i - 1])]
  BY <1>6, ZenonT(40) DEF DiscardWalk, DiscardNext, Step
<1> HIDE DEF D
<1>8. 0 \in 0..N /\ \A n \in Nat : n < N => n + 1 \in 0..N /\ n + 1 # 0 /\ (n + 1) - 1 = n
  OBVIOUS
<1>9. D[0] = Result(w, TRUE) /\ \A n \in Nat : n < N => D[n + 1] = Step(n + 1, D[n])
  BY <1>7, <1>8
<1> QED
  BY <1>9 DEF StepsOfDiscard, D, Step

\* The decision as far as it got: every path is as it was, restored, or one of the turn's files and
\* gone; if there was no error, every path discarded so far is as in the snapshot.
DiscardedTo(w, discarded, A, n) ==
  LET c == DiscardWalk(w, discarded)[n]
  IN /\ c \in Results
     /\ \A q \in Paths : Undone(w, c.files, A, q)
     /\ c.ok => \A i \in 1..n : Settled(c.files, discarded[i])

LEMMA DiscardWalkRestores ==
  ASSUME snapshot \in Trees, NEW w \in Trees,
         Grounded,
         NEW A, A \subseteq Paths \ Files(snapshot),
         NEW discarded, Len(discarded) \in Nat,
         AllUndoable(discarded, A)
  PROVE  \A n \in 0..Len(discarded) : DiscardedTo(w, discarded, A, n)
<1> DEFINE D == DiscardWalk(w, discarded)
           Good(n) == /\ D[n] \in Results
                      /\ \A q \in Paths : Undone(w, D[n].files, A, q)
                      /\ D[n].ok => \A i \in 1..n : Settled(D[n].files, discarded[i])
           T == {n \in Nat : n <= Len(discarded) => Good(n)}
<1>1. /\ D[0] = Result(w, TRUE)
      /\ \A n \in Nat : n < Len(discarded) =>
           D[n + 1] = DiscardNext(D[n], FileOf(discarded[n + 1]))
  <2>1. StepsOfDiscard(w, discarded)
    BY DiscardWalkDef
  <2> QED
    BY <2>1, Zenon DEF StepsOfDiscard
<1> HIDE DEF D
<1>2. 0 \in T
  <2>1. D[0] \in Results /\ D[0].files = w
    BY <1>1 DEF Result, Results
  <2> QED
    BY <2>1 DEF Undone, Restored
<1>3. ASSUME NEW n \in Nat, n \in T PROVE n + 1 \in T
  <2> SUFFICES ASSUME n + 1 <= Len(discarded) PROVE Good(n + 1)
    OBVIOUS
  <2>1. Good(n)
    BY <1>3
  <2>2. D[n + 1] = DiscardNext(D[n], FileOf(discarded[n + 1]))
    BY <1>1
  <2>3. CASE ~D[n].ok
    BY <2>1, <2>2, <2>3 DEF DiscardNext
  <2>4. CASE D[n].ok
    <3> DEFINE file == FileOf(discarded[n + 1])
    <3>1. file.path = discarded[n + 1] /\ Undoable(file, A)
      <4>1. n + 1 \in 1..Len(discarded)
        OBVIOUS
      <4> QED
        BY <4>1 DEF AllUndoable
    <3>2. D[n + 1] = ApplyDiscardForFile(D[n], file)
      BY <2>2, <2>4 DEF DiscardNext
    <3> HIDE DEF file
    <3>3. /\ D[n + 1] \in Results
          /\ \A q \in Paths : Undone(D[n].files, D[n + 1].files, A, q)
          /\ D[n + 1].ok => Settled(D[n + 1].files, file.path)
      <4>1. D[n] \in Results
        BY <2>1
      <4> QED
        BY <3>1, <3>2, <4>1, DiscardRestores, WorkspaceAssumption
    <3>4. A \cap Files(snapshot) = {}
      OBVIOUS
    <3>5. \A q \in Paths : Undone(w, D[n + 1].files, A, q)
      BY <2>1, <3>3, <3>4, UndoneTwice
    <3>6. ASSUME D[n + 1].ok, NEW i \in 1..(n + 1) PROVE Settled(D[n + 1].files, discarded[i])
      <4>1. CASE i = n + 1
        BY <3>1, <3>3, <3>6, <4>1
      <4>2. CASE i # n + 1
        <5>1. i \in 1..n /\ discarded[i] \in Paths
          BY <4>2 DEF AllUndoable, Undoable
        <5>2. Settled(D[n].files, discarded[i])
          BY <2>1, <2>4, <5>1
        <5> QED
          BY <3>3, <3>4, <5>1, <5>2, SettledStays
      <4> QED
        BY <4>1, <4>2
    <3> QED
      BY <3>3, <3>5, <3>6
  <2> QED
    BY <2>3, <2>4
<1>4. Nat \subseteq T
  <2> HIDE DEF T
  <2> QED
    BY <1>2, <1>3, NatInduces
<1>5. \A n \in 0..Len(discarded) : Good(n)
  BY <1>4
<1> QED
  BY <1>5 DEF DiscardedTo, D

LEMMA SelectiveRestores ==
  ASSUME snapshot \in Trees, NEW w \in Trees,
         Grounded,
         NEW A, A \subseteq Paths \ Files(snapshot),
         NEW discarded, Len(discarded) \in Nat,
         AllUndoable(discarded, A)
  PROVE  LET c == ApplySelectiveDecision(w, discarded)
         IN /\ c \in Results
            /\ \A q \in Paths : Undone(w, c.files, A, q)
            /\ c.ok => \A i \in 1..Len(discarded) : Settled(c.files, discarded[i])
<1>1. DiscardedTo(w, discarded, A, Len(discarded))
  BY DiscardWalkRestores
<1> QED
  BY <1>1 DEF DiscardedTo, ApplySelectiveDecision

-----------------------------------------------------------------------------
(* The change set.                                                         *)

\* The elements of a sequence with one more at its end.
LEMMA RangeOfAppend ==
  ASSUME NEW S, NEW s \in Seq(S), NEW e \in S
  PROVE  Range(Append(s, e)) = Range(s) \cup {e}
<1> DEFINE t == Append(s, e)
<1>1. /\ Len(s) \in Nat /\ DOMAIN s = 1..Len(s) /\ DOMAIN t = 1..(Len(s) + 1)
      /\ \A i \in 1..Len(s) : t[i] = s[i]
      /\ t[Len(s) + 1] = e
  BY AppendProperties, LenProperties
<1> HIDE DEF t
<1>2. \A i \in 1..(Len(s) + 1) : i \in 1..Len(s) \/ i = Len(s) + 1
  BY <1>1
<1>3. 1..Len(s) \subseteq 1..(Len(s) + 1) /\ Len(s) + 1 \in 1..(Len(s) + 1)
  BY <1>1
<1>4. Range(t) \subseteq Range(s) \cup {e}
  BY <1>1, <1>2 DEF Range
<1>5. Range(s) \subseteq Range(t) /\ e \in Range(t)
  BY <1>1, <1>3 DEF Range
<1> QED
  BY <1>4, <1>5 DEF t

\* What FilterFiles keeps, it keeps once it has seen it.
LEMMA FilterKeeps ==
  ASSUME NEW kept, kept \subseteq Paths
  PROVE  /\ FilterWalk(kept)[Len(Order)] \in Seq(Paths)
         /\ Range(FilterWalk(kept)[Len(Order)]) = kept
<1> DEFINE N == Len(Order)
           Step(i, s) == IF Order[i] \in kept THEN Append(s, Order[i]) ELSE s
           step == [i \in 1..N |-> [s \in Seq(Paths) |-> Step(i, s)]]
           base == <<>>
           R == FilterWalk(kept)
<1>1. N \in Nat /\ \A i \in 1..N : Order[i] \in Paths
  BY WorkspaceAssumption, LenProperties, ElementOfSeq
<1>2. base \in Seq(Paths)
  OBVIOUS
<1>3. step \in [1..N -> [Seq(Paths) -> Seq(Paths)]]
  BY <1>1
<1> HIDE DEF Step
<1> HIDE DEF step, base
<1>4. PICK f \in [0..N -> Seq(Paths)] : IsWalk(f, N, base, step)
  BY <1>1, <1>2, <1>3, WalkStays
<1>5. ASSUME NEW i \in 0..N PROVE f[i] = IF i = 0 THEN base ELSE Step(i, f[i - 1])
  <2>1. i # 0 => i \in 1..N /\ f[i - 1] \in Seq(Paths)
    BY <1>1, <1>4
  <2>2. f[i] = IF i = 0 THEN base ELSE step[i][f[i - 1]]
    BY <1>4, <2>1, ZenonT(40) DEF IsWalk
  <2> QED
    BY <2>1, <2>2 DEF step
<1>6. f = [i \in 0..N |-> IF i = 0 THEN <<>> ELSE Step(i, f[i - 1])]
  BY <1>4, <1>5 DEF base
<1>7. R = [i \in 0..N |-> IF i = 0 THEN <<>> ELSE Step(i, R[i - 1])]
  BY <1>6, ZenonT(40) DEF FilterWalk, Step
<1> HIDE DEF R
<1> DEFINE Good(n) == /\ R[n] \in Seq(Paths)
                      /\ \A p : p \in Range(R[n]) <=> p \in kept /\ \E j \in 1..n : Order[j] = p
           T == {n \in Nat : n <= N => Good(n)}
<1>8. 0 \in T
  <2>1. R[0] = <<>>
    BY <1>1, <1>7
  <2>2. Range(R[0]) = {} /\ 1..0 = {}
    BY <2>1 DEF Range
  <2>3. R[0] \in Seq(Paths)
    BY <2>1
  <2>4. \A p : ~(p \in Range(R[0])) /\ ~(\E j \in 1..0 : Order[j] = p)
    BY <2>2
  <2>5. Good(0)
    BY <2>3, <2>4
  <2> QED
    BY <2>5
<1>9. ASSUME NEW n \in Nat, n \in T PROVE n + 1 \in T
  <2> SUFFICES ASSUME n + 1 <= N PROVE Good(n + 1)
    OBVIOUS
  <2>1. Good(n)
    BY <1>1, <1>9
  <2>2. n + 1 \in 0..N /\ n + 1 # 0 /\ (n + 1) - 1 = n /\ n + 1 \in 1..N
    BY <1>1
  <2>3. R[n + 1] = IF Order[n + 1] \in kept THEN Append(R[n], Order[n + 1]) ELSE R[n]
    BY <1>7, <2>2 DEF Step
  <2>4. \A p : (\E j \in 1..(n + 1) : Order[j] = p) <=> (Order[n + 1] = p \/ \E j \in 1..n : Order[j] = p)
    OBVIOUS
  <2>5. CASE Order[n + 1] \notin kept
    BY <2>1, <2>3, <2>4, <2>5
  <2>6. CASE Order[n + 1] \in kept
    <3>1. \A p : p \in Range(R[n + 1]) <=> p \in Range(R[n]) \/ p = Order[n + 1]
      BY <2>1, <2>3, <2>6, <1>1, <2>2, RangeOfAppend
    <3> QED
      BY <1>1, <2>1, <2>2, <2>3, <2>4, <2>6, <3>1
  <2> QED
    BY <2>5, <2>6
<1>10. Nat \subseteq T
  <2> HIDE DEF T
  <2> QED
    BY <1>8, <1>9, NatInduces
<1>11. Good(N)
  <2>1. N \in T
    BY <1>1, <1>10
  <2> QED
    BY <2>1
<1>12. \A p \in Paths : \E j \in 1..N : Order[j] = p
  BY WorkspaceAssumption, LenProperties DEF Paths, Range
<1> QED
  BY <1>11, <1>12 DEF R

\* The user's choice is a sequence of reviewed paths.
LEMMA ChoiceIsSeq ==
  ASSUME NEW S, S \subseteq Paths, NEW discarded \in SetToAllKPermutations(S)
  PROVE  /\ Len(discarded) \in Nat /\ DOMAIN discarded = 1..Len(discarded)
         /\ \A i \in 1..Len(discarded) : discarded[i] \in S
<1>1. IsFiniteSet(Paths)
  <2>1. Len(Order) \in Nat /\ DOMAIN Order = 1..Len(Order)
    BY WorkspaceAssumption, LenProperties
  <2>2. IsFiniteSet(1..Len(Order))
    BY <2>1, FS_Interval
  <2>3. Order \in Surjection(1..Len(Order), Paths)
    BY <2>1, WorkspaceAssumption DEF Surjection, Paths, Range
  <2> QED
    BY <2>2, <2>3, FS_Surjection
<1>2. PICK s \in SUBSET S : discarded \in SetToSeqs(s)
  BY DEF SetToAllKPermutations
<1>3. Cardinality(s) \in Nat
  <2>1. IsFiniteSet(s)
    BY <1>1, FS_Subset
  <2> QED
    BY <2>1, FS_CardinalityType
<1>4. discarded \in [1..Cardinality(s) -> s]
  BY <1>2 DEF SetToSeqs
<1>5. Len(discarded) = Cardinality(s)
  BY <1>3, <1>4
<1> QED
  BY <1>3, <1>4, <1>5

-----------------------------------------------------------------------------
(* The inductive invariant.                                                *)

\* In a workspace nothing is below what is no directory.
LEMMA WorkspaceShape ==
  ASSUME NEW w \in Workspaces
  PROVE  /\ w \in Trees
         /\ \A p \in Paths : w[p] # Absent => \A q \in Above[p] : w[q] = Dir
<1> DEFINE U == UNION {Versions[p] : p \in Paths}
           V == U \cup {Absent}
           W(f) == [p \in Paths |-> IF \A q \in Above[p] : f[q] = Dir THEN f[p] ELSE Absent]
<1>1. PICK f \in [Paths -> V] : w = W(f)
  BY DEF Workspaces
<1>2. V \subseteq Contents
  <2>1. Contents = {Absent, Dir, <<>>} \cup U
    BY DEF Contents
  <2> HIDE DEF U
  <2> QED
    BY <2>1
<1>3. w \in Trees
  BY <1>1, <1>2 DEF Trees, Contents
<1>4. ASSUME NEW p \in Paths, w[p] # Absent, NEW q \in Above[p] PROVE w[q] = Dir
  <2>1. q \in Paths /\ Above[q] \subseteq Above[p]
    BY WorkspaceAssumption
  <2>2. \A o \in Above[p] : f[o] = Dir
    BY <1>1, <1>4
  <2> QED
    BY <1>1, <2>1, <2>2
<1> QED
  BY <1>3, <1>4

\* The invariant holds at the beginning, and each action keeps it.
LEMMA WorkspaceInit == Init => IInv
<1> SUFFICES ASSUME Init PROVE IInv
  OBVIOUS
<1>1. before \in Trees
  BY WorkspaceShape DEF Init
<1>2. TypeOK
  BY <1>1, WorkspaceAssumption DEF Init, TypeOK, Trees, Contents
<1> QED
  BY <1>2 DEF Init, IInv, SnapshotInv, TurnInv, ChangeSetInv, RollbackRestores, UntouchedIsKept

LEMMA CreateSnapshotKeeps == IInv /\ CreateSnapshot => IInv'
<1> SUFFICES ASSUME IInv, CreateSnapshot PROVE IInv'
  OBVIOUS
<1> USE DEF CreateSnapshot
<1>1. /\ TypeOK /\ workspace = before /\ before \in Trees /\ Listed(before) \subseteq Paths
      /\ git = repo.git /\ tracked = repo.tracked
  BY WorkspaceShape DEF IInv, TypeOK, TurnInv, Listed, ListedBy
<1>2. ASSUME NEW p \in Paths
      PROVE  snapshot'[p] = IF \/ p \in Listed(before)
                               \/ before[p] = Dir /\ (git => \E c \in Listed(before) : p \in Above[c])
                            THEN before[p] ELSE Absent
  BY <1>1
<1>3. TypeOK'
  BY <1>1 DEF TypeOK, Trees, Contents
<1>4. ListedBy(repo.git, repo.tracked, before)' = Listed(before)
  BY <1>1 DEF Listed, ListedBy, IsFile, Ignored
<1>5. SnapshotInv'
  <2>1. \A p \in Paths : snapshot'[p] \in {Absent, before[p]}
    BY <1>2
  <2>2. Files(snapshot') = Listed(before)
    BY <1>2 DEF Files, Listed, ListedBy, IsFile
  <2>3. ASSUME NEW p \in Paths, snapshot'[p] # Absent, NEW q \in Above[p] PROVE snapshot'[q] = Dir
    <3>1. before[p] # Absent /\ q \in Paths /\ Above[q] \subseteq Above[p]
      BY <2>1, <2>3, WorkspaceAssumption
    <3>2. before[q] = Dir
      BY <1>1, <3>1, WorkspaceShape DEF TypeOK
    <3>3. git => \E c \in Listed(before) : q \in Above[c]
      BY <1>1, <1>2, <2>3, WorkspaceAssumption
    <3> QED
      BY <1>2, <3>1, <3>2, <3>3
  <2> QED
    BY <1>4, <2>1, <2>2, <2>3 DEF SnapshotInv, Grounded, Files, IsFile
<1>6. TurnInv'
  BY DEF IInv, TurnInv
<1>7. UntouchedIsKept'
  BY <1>1 DEF IInv, TurnInv, UntouchedIsKept, Touched, IsFile, Files, Ignored
<1> QED
  BY <1>3, <1>5, <1>6, <1>7 DEF IInv, ChangeSetInv, RollbackRestores

LEMMA TurnKeeps == IInv /\ Turn => IInv'
<1> SUFFICES ASSUME IInv, Turn PROVE IInv'
  OBVIOUS
<1> USE DEF Turn
<1>1. workspace' \in Workspaces /\ workspace' \in Trees
  BY WorkspaceShape
<1>0. git' \in BOOLEAN /\ tracked' \subseteq Paths
  BY WorkspaceAssumption DEF IInv, TypeOK
<1>2. TypeOK'
  BY <1>0, <1>1 DEF IInv, TypeOK, Trees
<1>3. SnapshotInv'
  BY DEF IInv, SnapshotInv, Grounded, Files, IsFile, Listed, ListedBy, Ignored
<1>4. TurnInv' /\ UntouchedIsKept'
  BY DEF TurnInv, UntouchedIsKept, Touched
<1> QED
  BY <1>2, <1>3, <1>4 DEF IInv, ChangeSetInv, RollbackRestores

LEMMA BuildChangeSetKeeps == IInv /\ BuildChangeSet => IInv'
<1> SUFFICES ASSUME IInv, BuildChangeSet PROVE IInv'
  OBVIOUS
<1> DEFINE files == ReviewedFiles
<1>1. /\ phase = "ended" /\ phase' \in {"unreviewed", "reviewed"}
      /\ changeSet' = [i \in DOMAIN files |-> Entry(files[i])]
      /\ UNCHANGED <<repo, git, tracked, before, snapshot, left, workspace, broken>>
  BY DEF BuildChangeSet
<1>2. TypeOK' /\ SnapshotInv' /\ TurnInv'
  BY <1>1 DEF IInv, TypeOK, SnapshotInv, Grounded, TurnInv, Files, IsFile, Listed, ListedBy, Ignored
<1>3. Reviewed' = Reviewed
  BY <1>1 DEF Reviewed, Changed, Status, BinaryDiff, Files, IsFile, Listed, ListedBy, Ignored
<1>4. \A p : Entry(p)' = Entry(p)
  BY <1>1 DEF Entry, Status, BuildFileDiff, BinaryDiff, Text, Files, IsFile, Listed, ListedBy, Ignored
<1>5. Reviewed \subseteq Paths
  BY DEF Reviewed, Changed, Files, Listed, ListedBy
<1>6. files \in Seq(Paths) /\ Range(files) = Reviewed
  BY <1>5, FilterKeeps DEF ReviewedFiles
<1> HIDE DEF files
<1>7. \A p : Entry(p).path = p
  BY DEF Entry
<1> DEFINE entries == [i \in DOMAIN files |-> Entry(files[i])]
<1>8. entries \in Seq(Range(entries))
  <2>1. Len(files) \in Nat /\ DOMAIN files = 1..Len(files)
    BY <1>6, LenProperties
  <2>2. \A i \in 1..Len(files) : entries[i] \in Range(entries)
    BY <2>1 DEF Range
  <2> QED
    BY <2>1, <2>2, IsASeq
<1>9. \A f : f \in Range(entries) <=> \E p \in Reviewed : f = Entry(p)
  BY <1>6 DEF Range
<1>10. {f.path : f \in Range(entries)} = Reviewed
  BY <1>7, <1>9, ZenonT(40)
<1>11. \A f \in Range(entries) : f = Entry(f.path)
  BY <1>7, <1>9
<1> HIDE DEF entries
<1>12. ChangeSetInv'
  BY <1>1, <1>3, <1>4, <1>8, <1>10, <1>11 DEF ChangeSetInv, entries, Range
<1>13. UntouchedIsKept'
  BY <1>1 DEF IInv, UntouchedIsKept, Touched, IsFile, Files, Ignored
<1> QED
  BY <1>1, <1>2, <1>12, <1>13 DEF IInv, RollbackRestores

LEMMA BuildFailsKeeps == IInv /\ BuildFails => IInv'
<1> SUFFICES ASSUME IInv, BuildFails PROVE IInv'
  OBVIOUS
<1>1. /\ phase = "ended" /\ phase' = "unreviewed"
      /\ UNCHANGED <<repo, git, tracked, before, snapshot, left, workspace, changeSet, broken>>
  BY DEF BuildFails
<1>2. TypeOK' /\ SnapshotInv' /\ TurnInv'
  BY <1>1 DEF IInv, TypeOK, SnapshotInv, Grounded, TurnInv, Files, IsFile, Listed, ListedBy, Ignored
<1> QED
  BY <1>1, <1>2 DEF IInv, ChangeSetInv, RollbackRestores, UntouchedIsKept, Touched, IsFile, Files, Ignored

\* The files that a decision may remove: those the turn added, as far as git lists them.
Added == Listed(workspace) \ Files(snapshot)

\* Undoing a turn leaves what the turn did not touch.
LEMMA UndoingKeepsUntouched ==
  ASSUME IInv, phase = "reviewed", NEW g, NEW p \in Paths, Undone(workspace, g, Added, p),
         IsFile(before, p), p \notin Touched(before, repo.tracked, left, tracked), g[p] # before[p]
  PROVE  \/ p \in Ignored(before) \ Ignored(left)
         \/ p \notin Files(snapshot) /\ repo.git /\ ~git
<1>1. /\ workspace = left /\ snapshot[p] \in {Absent, before[p]}
      /\ Files(snapshot) = ListedBy(repo.git, repo.tracked, before)
      /\ left[p] = before[p] /\ (p \in repo.tracked <=> p \in tracked)
  BY DEF IInv, TurnInv, SnapshotInv, Touched
<1>2. p \in Added
  BY <1>1 DEF Undone, Restored
<1> QED
  BY <1>1, <1>2 DEF Added, Listed, ListedBy

\* What a rollback does to the workspace.
LEMMA RestoreUndoes ==
  ASSUME snapshot \in Trees, Grounded, workspace \in Trees
  PROVE  LET c == Restore(workspace)
         IN /\ c \in Results
            /\ \A p \in Paths : /\ Undone(workspace, c.files, Added, p)
                                /\ Restored(RemoveAdded(workspace), c.files, p)
            /\ c.ok => \A p \in Paths : snapshot[p] # Absent => c.files[p] = snapshot[p]
<1> DEFINE w == RemoveAdded(workspace)
           c == CopyAll(w)
<1>1. w \in Trees
  BY DEF RemoveAdded, Trees, Contents
<1>2. \A p \in Paths : w[p] = IF p \in Added \ repo.stuck THEN Absent ELSE workspace[p]
  BY DEF RemoveAdded, Added
<1> HIDE DEF w
<1>3. /\ c \in Results
      /\ \A p \in Paths : Restored(w, c.files, p)
      /\ c.ok => \A p \in Paths : snapshot[p] # Absent => c.files[p] = snapshot[p]
  BY <1>1, CopyAllRestores
<1> HIDE DEF c
<1>4. \A p \in Paths : Undone(workspace, c.files, Added, p)
  BY <1>2, <1>3 DEF Undone, Restored, IsFile
<1> QED
  BY <1>3, <1>4 DEF Restore, w, c

LEMMA RollbackKeeps == IInv /\ Rollback => IInv'
<1> SUFFICES ASSUME IInv, Rollback PROVE IInv'
  OBVIOUS
<1> DEFINE c == Restore(workspace)
<1>1. /\ phase = "reviewed" /\ workspace' = c.files
      /\ phase' = IF c.ok THEN "rolled_back" ELSE "failed"
      /\ UNCHANGED <<repo, git, tracked, before, snapshot, left, changeSet, broken>>
  BY DEF Rollback
<1>2. TypeOK /\ Grounded /\ snapshot \in Trees /\ workspace \in Trees /\ workspace = left
  BY <1>1 DEF IInv, TypeOK, SnapshotInv, TurnInv, Trees
<1>3. /\ c \in Results
      /\ \A p \in Paths : Undone(workspace, c.files, Added, p) /\ Restored(RemoveAdded(workspace), c.files, p)
      /\ c.ok => \A p \in Paths : snapshot[p] # Absent => c.files[p] = snapshot[p]
  BY <1>2, RestoreUndoes
<1> HIDE DEF c
<1>4. TypeOK' /\ SnapshotInv' /\ TurnInv' /\ ChangeSetInv'
  <2>1. workspace' \in [Paths -> Contents]
    BY <1>1, <1>3 DEF Results, Trees
  <2> QED
    BY <1>1, <2>1 DEF IInv, TypeOK, SnapshotInv, Grounded, TurnInv, ChangeSetInv, Files, IsFile, Listed, ListedBy, Ignored
<1>5. UntouchedIsKept'
  <2> SUFFICES ASSUME NEW p \in Paths, IsFile(before, p), p \notin Touched(before, repo.tracked, left, tracked),
                      c.files[p] # before[p]
               PROVE  \/ p \in Ignored(before) \ Ignored(left)
                      \/ p \notin Files(snapshot) /\ repo.git /\ ~git
    BY <1>1 DEF UntouchedIsKept, Touched, IsFile, Files, Ignored
  <2> QED
    BY <1>1, <1>3, UndoingKeepsUntouched
<1>6. RollbackRestores'
  <2> SUFFICES ASSUME c.ok
               PROVE  /\ \A p \in Files(snapshot) : workspace'[p] = snapshot[p]
                      /\ \A p \in Listed(workspace)' \ Files(snapshot) : p \in repo.stuck \cup Ignored(left)
    BY <1>1 DEF RollbackRestores, Files, IsFile, Ignored
  <2>1. \A p \in Files(snapshot) : workspace'[p] = snapshot[p]
    BY <1>1, <1>3 DEF Files, IsFile
  <2>2. ASSUME NEW p \in Listed(workspace)' \ Files(snapshot), p \notin repo.stuck
        PROVE  p \in Ignored(left)
    <3>1. p \in Paths /\ IsFile(workspace', p) /\ c.files[p] = workspace'[p]
      BY <1>1, <2>2 DEF Listed, ListedBy, IsFile
    <3>2. snapshot[p] \in {Absent, Dir}
      BY <2>2, <3>1 DEF Files, IsFile
    <3>3. RemoveAdded(workspace)[p] = workspace'[p]
      BY <1>3, <3>1, <3>2 DEF Restored, IsFile
    <3>4. p \notin Listed(workspace) /\ IsFile(workspace, p)
      BY <2>2, <3>1, <3>3 DEF RemoveAdded, IsFile
    <3> QED
      BY <1>1, <1>2, <2>2, <3>1, <3>4 DEF Listed, ListedBy
  <2> QED
    BY <2>1, <2>2
<1> QED
  BY <1>4, <1>5, <1>6 DEF IInv

\* The paths a user may discard are those of the change set, which says of each what to do.
LEMMA ReviewedUndoable ==
  ASSUME ChangeSetInv, phase = "reviewed", NEW discarded, Len(discarded) \in Nat,
         \A i \in 1..Len(discarded) : discarded[i] \in Reviewed
  PROVE  AllUndoable(discarded, Added)
<1> SUFFICES ASSUME NEW p \in Reviewed PROVE FileOf(p).path = p /\ Undoable(FileOf(p), Added)
  BY DEF AllUndoable
<1>1. \E f \in Range(changeSet) : f.path = p
  BY DEF ChangeSetInv
<1>2. FileOf(p) \in Range(changeSet) /\ FileOf(p).path = p
  BY <1>1 DEF FileOf
<1>3. FileOf(p) = Entry(p)
  BY <1>2 DEF ChangeSetInv
<1>4. FileOf(p).status = Status(p)
  BY <1>3 DEF Entry
<1>5. p \in Paths /\ p \in Files(snapshot) \cup Listed(workspace)
  BY DEF Reviewed, Changed, Files, Listed, ListedBy
<1> QED
  BY <1>2, <1>4, <1>5 DEF Undoable, Added, Status

LEMMA SelectiveKeeps == IInv /\ Selective => IInv'
<1> SUFFICES ASSUME IInv, Selective PROVE IInv'
  OBVIOUS
<1>1. PICK discarded \in SetToAllKPermutations({f.path : f \in Range(changeSet)}) :
        LET c == ApplySelectiveDecision(workspace, discarded)
        IN workspace' = c.files /\ phase' = IF c.ok THEN "selective_applied" ELSE "failed"
  BY DEF Selective, Discards
<1> DEFINE c == ApplySelectiveDecision(workspace, discarded)
<1>2. /\ phase = "reviewed" /\ workspace' = c.files
      /\ phase' \in {"selective_applied", "failed"}
      /\ UNCHANGED <<repo, git, tracked, before, snapshot, left, changeSet, broken>>
  BY <1>1 DEF Selective
<1>3. TypeOK /\ Grounded /\ snapshot \in Trees /\ workspace \in Trees /\ ChangeSetInv
  BY <1>2 DEF IInv, TypeOK, SnapshotInv, Trees
<1>4. Len(discarded) \in Nat /\ \A i \in 1..Len(discarded) : discarded[i] \in Reviewed
  <2>1. {f.path : f \in Range(changeSet)} = Reviewed
    BY <1>2, <1>3 DEF ChangeSetInv
  <2>2. Reviewed \subseteq Paths
    BY DEF Reviewed, Changed, Files, Listed, ListedBy
  <2> QED
    BY <1>1, <2>1, <2>2, ChoiceIsSeq
<1>5. AllUndoable(discarded, Added)
  BY <1>2, <1>3, <1>4, ReviewedUndoable
<1>6. Added \subseteq Paths \ Files(snapshot)
  BY DEF Added, Listed, ListedBy
<1>7. c \in Results /\ \A p \in Paths : Undone(workspace, c.files, Added, p)
  BY <1>3, <1>4, <1>5, <1>6, SelectiveRestores
<1> HIDE DEF c
<1>8. TypeOK' /\ SnapshotInv' /\ TurnInv' /\ ChangeSetInv' /\ RollbackRestores'
  <2>1. workspace' \in [Paths -> Contents]
    BY <1>2, <1>7 DEF Results, Trees
  <2> QED
    BY <1>2, <2>1 DEF IInv, TypeOK, SnapshotInv, Grounded, TurnInv, ChangeSetInv, RollbackRestores,
                      Files, IsFile, Listed, ListedBy, Ignored
<1>9. UntouchedIsKept'
  <2> SUFFICES ASSUME NEW p \in Paths, IsFile(before, p), p \notin Touched(before, repo.tracked, left, tracked),
                      c.files[p] # before[p]
               PROVE  \/ p \in Ignored(before) \ Ignored(left)
                      \/ p \notin Files(snapshot) /\ repo.git /\ ~git
    BY <1>2 DEF UntouchedIsKept, Touched, IsFile, Files, Ignored
  <2> QED
    BY <1>2, <1>7, UndoingKeepsUntouched
<1> QED
  BY <1>8, <1>9 DEF IInv

\* A copy that fails leaves one file of the snapshot as it was, or empty, and the walk where it is.
LEMMA CopyBreaksKeeps ==
  ASSUME IInv, phase = "reviewed", NEW r \in Results, NEW p \in Paths,
         \A q \in Paths : Undone(workspace, r.files, Added, q), CopyBreaks(r, p)
  PROVE  IInv'
<1> DEFINE c == copyFile(r, p)
<1>1. /\ p \in Files(snapshot) /\ phase' = "failed"
      /\ UNCHANGED <<repo, git, tracked, before, snapshot, left, changeSet>>
      /\ \/ workspace' = [c.files EXCEPT ![p] = r.files[p]] /\ broken' = {}
         \/ workspace' = [c.files EXCEPT ![p] = <<>>] /\ broken' = {p}
  BY DEF CopyBreaks
<1>2. TypeOK /\ Grounded /\ snapshot \in Trees
  BY DEF IInv, TypeOK, SnapshotInv, Trees
<1>3. c \in Results /\ \A q \in Paths : Restored(r.files, c.files, q)
  BY <1>1, <1>2, CopyFileRestores
<1> HIDE DEF c
<1>4. \A q \in Paths : Undone(workspace, c.files, Added, q)
  <2>1. Added \cap Files(snapshot) = {}
    BY DEF Added
  <2> QED
    BY <1>3, <2>1, UndoneTwice DEF Undone
<1>5. r.files \in Trees /\ c.files \in Trees /\ <<>> \in Contents
  BY <1>3 DEF Results, Contents
<1>6. /\ workspace' \in [Paths -> Contents] /\ broken' \subseteq Paths
      /\ \A q \in Paths : q # p => workspace'[q] = c.files[q]
      /\ workspace'[p] = r.files[p] \/ broken' = {p}
  BY <1>1, <1>5 DEF Trees
<1>7. TypeOK' /\ SnapshotInv' /\ TurnInv' /\ ChangeSetInv' /\ RollbackRestores'
  BY <1>1, <1>6 DEF IInv, TypeOK, SnapshotInv, Grounded, TurnInv, ChangeSetInv, RollbackRestores,
                    Files, IsFile, ListedBy, Ignored
<1>8. UntouchedIsKept'
  <2> SUFFICES ASSUME NEW q \in Paths, IsFile(before, q), q \notin Touched(before, repo.tracked, left, tracked),
                      workspace'[q] # before[q]
               PROVE  \/ q \in Ignored(before) \ Ignored(left)
                      \/ q \notin Files(snapshot) /\ repo.git /\ ~git
                      \/ broken' = {q}
    BY <1>1 DEF UntouchedIsKept, Touched, IsFile, Files, Ignored
  <2>1. CASE q # p
    BY <1>4, <1>6, <2>1, UndoingKeepsUntouched
  <2>2. CASE q = p /\ broken' # {p}
    BY <1>6, <2>2, UndoingKeepsUntouched
  <2> QED
    BY <2>1, <2>2
<1> QED
  BY <1>7, <1>8 DEF IInv

LEMMA RollbackBreaksKeeps == IInv /\ RollbackBreaks => IInv'
<1> SUFFICES ASSUME IInv, RollbackBreaks PROVE IInv'
  OBVIOUS
<1> DEFINE w == RemoveAdded(workspace)
<1>1. PICK i \in DOMAIN Order : CopyBreaks(CopyWalk(w)[i - 1], Order[i])
  BY DEF RollbackBreaks
<1> DEFINE r == CopyWalk(w)[i - 1]
<1>2. phase = "reviewed" /\ i - 1 \in 0..Len(Order) /\ Order[i] \in Paths
  BY WorkspaceAssumption, LenProperties, ElementOfSeq DEF RollbackBreaks
<1>3. TypeOK /\ Grounded /\ snapshot \in Trees /\ workspace \in Trees
  BY <1>2 DEF IInv, TypeOK, SnapshotInv, Trees
<1>4. w \in Trees /\ \A q \in Paths : w[q] = IF q \in Added \ repo.stuck THEN Absent ELSE workspace[q]
  BY <1>3 DEF RemoveAdded, Added, Trees, Contents
<1> HIDE DEF w
<1>5. r \in Results /\ \A q \in Paths : Restored(w, r.files, q)
  BY <1>2, <1>3, <1>4, CopyWalkRestores DEF CopiedTo
<1> HIDE DEF r
<1>6. \A q \in Paths : Undone(workspace, r.files, Added, q)
  BY <1>4, <1>5 DEF Undone, Restored, IsFile
<1>7. CopyBreaks(r, Order[i])
  BY <1>1 DEF r
<1> QED
  BY <1>2, <1>5, <1>6, <1>7, CopyBreaksKeeps

LEMMA SelectiveBreaksKeeps == IInv /\ SelectiveBreaks => IInv'
<1> SUFFICES ASSUME IInv, SelectiveBreaks PROVE IInv'
  OBVIOUS
<1>1. PICK discarded \in SetToAllKPermutations({f.path : f \in Range(changeSet)}) :
        \E i \in DOMAIN discarded : CopyBreaks(DiscardWalk(workspace, discarded)[i - 1], discarded[i])
  BY DEF SelectiveBreaks, Discards
<1>2. phase = "reviewed"
  BY DEF SelectiveBreaks
<1>3. TypeOK /\ Grounded /\ snapshot \in Trees /\ workspace \in Trees /\ ChangeSetInv
  BY <1>2 DEF IInv, TypeOK, SnapshotInv, Trees
<1>4. Reviewed \subseteq Paths /\ {f.path : f \in Range(changeSet)} = Reviewed
  BY <1>2, <1>3 DEF ChangeSetInv, Reviewed, Changed, Files, Listed, ListedBy
<1>5. /\ Len(discarded) \in Nat /\ DOMAIN discarded = 1..Len(discarded)
      /\ \A j \in 1..Len(discarded) : discarded[j] \in Reviewed
  BY <1>4, ChoiceIsSeq
<1>6. PICK i \in 1..Len(discarded) : CopyBreaks(DiscardWalk(workspace, discarded)[i - 1], discarded[i])
  BY <1>1, <1>5
<1> DEFINE r == DiscardWalk(workspace, discarded)[i - 1]
<1>7. AllUndoable(discarded, Added)
  BY <1>2, <1>3, <1>5, ReviewedUndoable
<1>8. Added \subseteq Paths \ Files(snapshot)
  BY DEF Added, Listed, ListedBy
<1>9. r \in Results /\ \A q \in Paths : Undone(workspace, r.files, Added, q)
  <2>1. i - 1 \in 0..Len(discarded)
    BY <1>5
  <2>2. DiscardedTo(workspace, discarded, Added, i - 1)
    BY <1>3, <1>5, <1>7, <1>8, <2>1, DiscardWalkRestores
  <2> QED
    BY <2>2 DEF DiscardedTo
<1> HIDE DEF r
<1>10. CopyBreaks(r, discarded[i]) /\ discarded[i] \in Paths
  BY <1>4, <1>5, <1>6 DEF r
<1> QED
  BY <1>2, <1>9, <1>10, CopyBreaksKeeps

LEMMA WorkspaceNext == IInv /\ [Next]_vars => IInv'
<1> SUFFICES ASSUME IInv, [Next]_vars PROVE IInv'
  OBVIOUS
<1>1. CASE UNCHANGED vars
  BY <1>1 DEF vars, IInv, TypeOK, SnapshotInv, Grounded, TurnInv, ChangeSetInv, RollbackRestores,
              UntouchedIsKept, Touched, Reviewed, Changed, Entry, Status, BuildFileDiff, BinaryDiff, Text,
              Files, IsFile, Listed, ListedBy, Ignored
<1> QED
  BY <1>1, CreateSnapshotKeeps, TurnKeeps, BuildChangeSetKeeps, BuildFailsKeeps, RollbackKeeps,
     RollbackBreaksKeeps, SelectiveKeeps, SelectiveBreaksKeeps
     DEF Next

-----------------------------------------------------------------------------
(* The theorems.                                                           *)

\* The inductive invariant holds, whatever tree of paths, contents, circumstances and turn.
THEOREM WorkspaceInvariant == Spec => []IInv
BY WorkspaceInit, WorkspaceNext, PTL DEF Spec

\* Nothing but files, directories and holes is ever in the workspace or the snapshot.
THEOREM TypeCorrect == Spec => []TypeOK
<1>1. IInv => TypeOK
  BY DEF IInv
<1> QED
  BY <1>1, WorkspaceInvariant, PTL

\* Restore brings back every file of the snapshot and removes the turn's, as RollbackRestores says.
THEOREM RollbackIsRight == Spec => []RollbackRestores
<1>1. IInv => RollbackRestores
  BY DEF IInv
<1> QED
  BY <1>1, WorkspaceInvariant, PTL

\* No decision, completed or broken off, takes away what the turn did not touch, but for the files
\* that UntouchedIsKept excepts: the turn has changed what git says of them, or it is the one file
\* whose copy failed.
THEOREM UntouchedStays == Spec => []UntouchedIsKept
<1>1. IInv => UntouchedIsKept
  BY DEF IInv
<1> QED
  BY <1>1, WorkspaceInvariant, PTL

\* To discard every reviewed file leaves the texts that a rollback leaves.
LEMMA DiscardAllFromInv == IInv => DiscardAllIsRollback
<1> SUFFICES ASSUME IInv, phase = "reviewed" PROVE DiscardAllIsRollback
  BY DEF DiscardAllIsRollback
<1> DEFINE paths == [i \in DOMAIN changeSet |-> changeSet[i].path]
           all == ApplySelectiveDecision(workspace, paths)
           back == Restore(workspace)
<1>1. TypeOK /\ Grounded /\ snapshot \in Trees /\ workspace \in Trees /\ ChangeSetInv
  BY DEF IInv, TypeOK, SnapshotInv, Trees
<1>2. /\ changeSet \in Seq(Range(changeSet))
      /\ {f.path : f \in Range(changeSet)} = Reviewed
  BY <1>1 DEF ChangeSetInv
<1>3. Len(paths) \in Nat /\ DOMAIN changeSet = 1..Len(paths)
  BY <1>2, LenProperties
<1>4. \A i \in 1..Len(paths) : paths[i] \in Reviewed
  BY <1>2, <1>3 DEF Range
<1>5. \A p \in Reviewed : \E i \in 1..Len(paths) : paths[i] = p
  BY <1>2, <1>3 DEF Range
<1> HIDE DEF paths
<1>6. AllUndoable(paths, Added)
  BY <1>1, <1>3, <1>4, ReviewedUndoable
<1>7. Added \subseteq Paths \ Files(snapshot)
  BY DEF Added, Listed, ListedBy
<1>8. /\ \A p \in Paths : Undone(workspace, all.files, Added, p)
      /\ all.ok => \A i \in 1..Len(paths) : Settled(all.files, paths[i])
  BY <1>1, <1>3, <1>6, <1>7, SelectiveRestores
<1>9. /\ \A p \in Paths : /\ Undone(workspace, back.files, Added, p)
                          /\ Restored(RemoveAdded(workspace), back.files, p)
      /\ back.ok => \A p \in Paths : snapshot[p] # Absent => back.files[p] = snapshot[p]
  BY <1>1, RestoreUndoes
<1> HIDE DEF all, back
<1> SUFFICES ASSUME all.ok, back.ok, NEW p \in Paths \ repo.artifacts,
                    Binary \notin {snapshot[p], workspace[p]}
             PROVE  /\ Text(all.files, p) = Text(back.files, p)
                    /\ IsFile(all.files, p) <=> IsFile(back.files, p)
  BY DEF DiscardAllIsRollback, all, back, paths
<1>10. CASE p \in Files(snapshot)
  <2>1. back.files[p] = snapshot[p]
    BY <1>9, <1>10 DEF Files, IsFile
  <2>2. all.files[p] = snapshot[p]
    <3>1. CASE p \in Changed
      <4>1. p \in Reviewed
        BY <3>1 DEF Reviewed, BinaryDiff
      <4> QED
        BY <1>5, <1>8, <1>10, <4>1 DEF Settled
    <3>2. CASE p \notin Changed
      <4>1. snapshot[p] = workspace[p] /\ p \notin Added
        BY <1>10, <3>2 DEF Changed, Status, Added
      <4> QED
        BY <1>8, <4>1 DEF Undone, Restored
    <3> QED
      BY <3>1, <3>2
  <2> QED
    BY <2>1, <2>2 DEF Text, IsFile
<1>11. CASE p \in Added
  <2>1. snapshot[p] \in {Absent, Dir}
    BY <1>11 DEF Added, Files, IsFile
  <2>2. p \in Reviewed
    BY <1>11 DEF Reviewed, BinaryDiff, Changed, Status, Added
  <2>3. ~IsFile(all.files, p) /\ p \notin repo.stuck
    BY <1>5, <1>8, <1>11, <2>2 DEF Settled, Added
  <2>4. RemoveAdded(workspace)[p] = Absent
    BY <1>11, <2>3 DEF RemoveAdded, Added
  <2>5. ~IsFile(back.files, p)
    BY <1>9, <2>1, <2>4 DEF Restored, IsFile
  <2> QED
    BY <2>3, <2>5 DEF Text
<1>12. CASE p \notin Files(snapshot) /\ p \notin Added
  <2>1. snapshot[p] \in {Absent, Dir}
    BY <1>12 DEF Files, IsFile
  <2>2. Restored(workspace, all.files, p) /\ Restored(workspace, back.files, p)
    BY <1>8, <1>9, <1>12 DEF Undone
  <2> QED
    BY <2>1, <2>2 DEF Restored, Text, IsFile
<1> QED
  BY <1>10, <1>11, <1>12

\* Whenever a change set is under review, the user can roll the turn back file by file, as
\* DiscardAllIsRollback says.
THEOREM DiscardAllIsRight == Spec => []DiscardAllIsRollback
BY WorkspaceInvariant, DiscardAllFromInv, PTL

\* A text is a sequence over the lines of any two texts.
LEMMA TextIsSeq ==
  ASSUME NEW w \in [Paths -> Contents], NEW p \in Paths, w[p] # Binary, NEW L, Range(Text(w, p)) \subseteq L
  PROVE  Text(w, p) \in Texts /\ Text(w, p) \in Seq(L)
<1> DEFINE t == Text(w, p)
<1>1. t \in Texts
  <2> DEFINE V == UNION {Versions[q] : q \in Paths}
  <2>1. w[p] \in {Absent, Dir, <<>>} \cup V /\ Texts = {<<>>} \cup (V \ {Dir, Binary})
    BY DEF Contents, Texts
  <2> HIDE DEF V
  <2> QED
    BY <2>1 DEF Text, IsFile
<1>2. t \in Seq(Range(t))
  <2>1. CASE t = <<>>
    BY <2>1, EmptySeq
  <2>2. CASE t # <<>>
    <3>1. PICK q \in Paths : t \in Versions[q] \ {Dir, Binary}
      BY <1>1, <2>2 DEF Texts
    <3> HIDE DEF t
    <3> QED
      BY <3>1, WorkspaceAssumption
  <2> QED
    BY <2>1, <2>2
<1> HIDE DEF t
<1>3. \A i \in 1..Len(t) : t[i] \in L
  <2>1. \A i \in 1..Len(t) : t[i] \in Range(t)
    BY <1>2, ElementOfSeq
  <2> QED
    BY <2>1 DEF t
<1>4. t \in Seq(L)
  <2>1. t = [i \in 1..Len(t) |-> t[i]] /\ Len(t) \in Nat
    BY <1>2, LenProperties
  <2> QED
    BY <1>3, <2>1
<1> QED
  BY <1>1, <1>4 DEF t

\* The hunks of each reviewed file turn its snapshot into what the turn left, and the
\* changes they show are as few as any lines common to both texts allow.
LEMMA DiffIsExactFromInv == IInv => DiffIsExact
<1> SUFFICES ASSUME IInv, phase = "reviewed", NEW f \in Range(changeSet)
             PROVE  LET old == Text(snapshot, f.path)
                        new == Text(left, f.path)
                    IN /\ Patch(old, f.diff) = new
                       /\ \A h \in Range(f.diff) : Fits(h, old, new)
                       /\ ChangeCount(f.diff) = Len(old) + Len(new) - 2 * CommonLengths[old][new]
  BY DEF DiffIsExact
<1> DEFINE p == f.path
           old == Text(snapshot, p)
           new == Text(workspace, p)
           L == Range(old) \cup Range(new)
<1>1. /\ snapshot \in [Paths -> Contents] /\ workspace \in [Paths -> Contents] /\ workspace = left
      /\ p \in Reviewed /\ f = Entry(p)
  BY DEF IInv, TypeOK, TurnInv, ChangeSetInv
<1>2. p \in Paths /\ snapshot[p] # Binary /\ workspace[p] # Binary /\ ~BinaryDiff(p)
  BY <1>1 DEF Reviewed, Changed, Files, Listed, ListedBy, BinaryDiff
<1> HIDE DEF p
<1>3. old \in Texts /\ old \in Seq(L)
  BY <1>1, <1>2, TextIsSeq
<1>4. new \in Texts /\ new \in Seq(L)
  BY <1>1, <1>2, TextIsSeq
<1>5. f.diff = TextDiffs[old][new]
  <2>1. Entry(p).diff = BuildFileDiff(p)
    BY DEF Entry
  <2> QED
    BY <1>1, <1>2, <2>1 DEF BuildFileDiff
<1> HIDE DEF old, new, L
<1>6. f.diff = BuildUnifiedTextDiff(old, new)
  BY <1>3, <1>4, <1>5 DEF TextDiffs
<1>7. CommonLengths[old][new] = CommonLength(old, new)
  BY <1>3, <1>4 DEF CommonLengths
<1>8. /\ Patch(old, f.diff) = new
      /\ \A h \in Range(f.diff) : Fits(h, old, new)
      /\ ChangeCount(f.diff) = Len(old) + Len(new) - 2 * CommonLength(old, new)
  BY <1>3, <1>4, <1>6, BuildUnifiedTextDiffIs
<1> QED
  BY <1>1, <1>7, <1>8 DEF old, new, p

\* The diffs that a reviewer sees are exact, for every two texts: what Myers' algorithm finds is a
\* shortest script, and the hunks made of it lead from the one text to the other.
THEOREM DiffsAreExact == Spec => []DiffIsExact
BY WorkspaceInvariant, DiffIsExactFromInv, PTL
===============================================================================
