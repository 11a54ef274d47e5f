---------------------------- MODULE CommandProofs ----------------------------
(***************************************************************************)
(* Theorems about CommandPolicy, for any texts of words, any simple        *)
(* commands and lines of any length, and about CommandRuns, for any number *)
(* of calls, turns and sessions and any limit of background commands.      *)
(*                                                                         *)
(* The evaluators of CommandPolicy call each other on parts of their       *)
(* argument.  First, they are shown to end: no part is longer than the     *)
(* whole, and what a quoted script holds has no quoted script in it.  Then *)
(* what each operation does to a segment is worked out: a wrapper and      *)
(* find -exec pass the decision of what they run on, and so does a shell.  *)
(* The invariant says of the whole line what it has of its parts, and from *)
(* it the line is denied exactly if a part is, a later part reads its      *)
(* script from an earlier one, or a fetch is substituted.                  *)
(*                                                                         *)
(* The invariant of CommandRuns is local to each call, but for the number  *)
(* of entries a session has in backgroundCommands.  So a step of one call  *)
(* is checked for that call; every other call's variables are unchanged.   *)
(***************************************************************************)
EXTENDS CommandPolicy, CommandRuns, FiniteSetTheorems, SequenceTheorems, WellFoundedInduction, TLAPS

-----------------------------------------------------------------------------
(* Induction.                                                              *)

\* A set of numbers that is not empty has a least one.
LEMMA LeastNumber ==
  ASSUME NEW T, T \subseteq Nat, T # {}
  PROVE  \E n \in T : \A m \in T : n <= m
<1>1. IsWellFoundedOn(OpToRel(<, Nat), Nat)
  BY NatLessThanWellFounded
<1>2. \E n \in T : \A m \in T : <<m, n>> \notin OpToRel(<, Nat)
  BY <1>1, WFMin
<1>3. PICK n \in T : \A m \in T : <<m, n>> \notin OpToRel(<, Nat)
  BY <1>2
<1>4. ASSUME NEW m \in T PROVE n <= m
  <2>1. m \in Nat /\ n \in Nat /\ ~(m < n)
    BY <1>3 DEF OpToRel
  <2> QED
    BY <2>1
<1> QED
  BY <1>3, <1>4

LEMMA MinIs ==
  ASSUME NEW T, T \subseteq Nat, T # {}
  PROVE  Min(T) \in T /\ \A m \in T : Min(T) <= m
  BY LeastNumber DEF Min

\* Induction: a set that has every element whose predecessors it has, in the order of a rank,
\* has all of them.
LEMMA RankInduces ==
  ASSUME NEW D, NEW rank \in [D -> Nat], NEW T,
         \A x \in D : (\A y \in D : rank[y] < rank[x] => y \in T) => x \in T
  PROVE  D \subseteq T
<1> SUFFICES ASSUME D \ T # {} PROVE FALSE
  OBVIOUS
<1> DEFINE R == {rank[x] : x \in D \ T}
<1>1. R \subseteq Nat /\ R # {}
  OBVIOUS
<1> HIDE DEF R
<1>2. PICK n \in R : \A m \in R : n <= m
  BY <1>1, LeastNumber
<1>3. PICK x \in D \ T : n = rank[x]
  BY <1>2 DEF R
<1>4. ASSUME NEW y \in D, rank[y] < rank[x] PROVE y \in T
  <2>1. y \notin T => rank[y] \in R
    BY DEF R
  <2>2. rank[y] \in Nat /\ rank[x] \in Nat
    OBVIOUS
  <2> QED
    BY <1>2, <1>3, <1>4, <2>1, <2>2
<1> QED
  BY <1>3, <1>4

LEMMA NatInduces ==
  ASSUME NEW T, 0 \in T, \A n \in Nat : n \in T => n + 1 \in T
  PROVE  Nat \subseteq T
<1> DEFINE rank == [n \in Nat |-> n]
<1>1. ASSUME NEW n \in Nat, \A m \in Nat : rank[m] < rank[n] => m \in T PROVE n \in T
  <2>1. CASE n = 0
    BY <2>1
  <2>2. CASE n # 0
    <3>1. n - 1 \in Nat /\ rank[n - 1] < rank[n] /\ (n - 1) + 1 = n
      BY <2>2
    <3>2. n - 1 \in T
      BY <1>1, <3>1
    <3> QED
      BY <3>1, <3>2
  <2> QED
    BY <2>1, <2>2
<1>2. rank \in [Nat -> Nat]
  OBVIOUS
<1> HIDE DEF rank
<1> QED
  BY <1>1, <1>2, RankInduces

\* The value at x depends only on the values of lower rank.
IsRecursion(D, C, rank, step) ==
  /\ rank \in [D -> Nat] /\ step \in [D -> [[D -> C] -> C]]
  /\ \A x \in D, g \in [D -> C], h \in [D -> C] :
       (\A y \in D : rank[y] < rank[x] => g[y] = h[y]) => step[x][g] = step[x][h]

IsSolution(f, D, C, step) == f \in [D -> C] /\ \A x \in D : f[x] = step[x][f]

\* A recursive function exists, if it is one in the order of a rank.
LEMMA RankedFunctionExists ==
  ASSUME NEW D, NEW C, NEW default \in C, NEW rank, NEW step, IsRecursion(D, C, rank, step)
  PROVE  \E f : IsSolution(f, D, C, step)
<1> USE DEF IsRecursion
<1> DEFINE Upto(n, f) == f \in [D -> C] /\ \A x \in D : rank[x] < n => f[x] = step[x][f]
           T == {n \in Nat : \E f : Upto(n, f)}
<1>1. 0 \in T
  <2> DEFINE f == [x \in D |-> default]
  <2>1. Upto(0, f)
    OBVIOUS
  <2> HIDE DEF f, Upto
  <2> QED
    BY <2>1
<1>2. ASSUME NEW n \in Nat, n \in T PROVE n + 1 \in T
  <2>1. PICK f : Upto(n, f)
    BY <1>2
  <2> DEFINE g == [x \in D |-> step[x][f]]
  <2>2. g \in [D -> C] /\ f \in [D -> C]
    BY <2>1
  <2>3. \A x \in D : rank[x] < n => g[x] = f[x]
    BY <2>1
  <2>4. ASSUME NEW x \in D, rank[x] < n + 1 PROVE g[x] = step[x][g]
    <3>1. g[x] = step[x][f]
      OBVIOUS
    <3>2. \A y \in D : rank[y] < rank[x] => g[y] = f[y]
      <4>1. \A y \in D : rank[y] < rank[x] => rank[y] < n
        BY <2>4
      <4> QED
        BY <2>3, <4>1
    <3> HIDE DEF g
    <3>3. step[x][g] = step[x][f]
      BY <2>2, <3>2
    <3> QED
      BY <3>1, <3>3
  <2>5. Upto(n + 1, g)
    BY <2>2, <2>4
  <2> HIDE DEF g, Upto
  <2> QED
    BY <2>5
<1>3. Nat \subseteq T
  <2> HIDE DEF T
  <2> QED
    BY <1>1, <1>2, NatInduces
<1> DEFINE F == [n \in Nat |-> CHOOSE f : Upto(n, f)]
<1>4. \A n \in Nat : Upto(n, F[n])
  BY <1>3
<1> HIDE DEF F
<1>5. ASSUME NEW n \in Nat, NEW m \in Nat PROVE \A x \in D : rank[x] < n /\ rank[x] < m => F[n][x] = F[m][x]
  <2> DEFINE U == {x \in D : rank[x] < n /\ rank[x] < m => F[n][x] = F[m][x]}
  <2>1. ASSUME NEW x \in D, \A y \in D : rank[y] < rank[x] => y \in U PROVE x \in U
    <3> SUFFICES ASSUME rank[x] < n, rank[x] < m PROVE F[n][x] = F[m][x]
      OBVIOUS
    <3>1. \A y \in D : rank[y] < rank[x] => F[n][y] = F[m][y]
      <4> SUFFICES ASSUME NEW y \in D, rank[y] < rank[x] PROVE F[n][y] = F[m][y]
        OBVIOUS
      <4>1. rank[y] \in Nat /\ rank[x] \in Nat
        OBVIOUS
      <4>2. rank[y] < n /\ rank[y] < m
        BY <4>1
      <4> QED
        BY <2>1, <4>2
    <3>2. F[n] \in [D -> C] /\ F[m] \in [D -> C]
      BY <1>4
    <3>3. step[x][F[n]] = step[x][F[m]]
      BY <3>1, <3>2
    <3>4. F[n][x] = step[x][F[n]] /\ F[m][x] = step[x][F[m]]
      BY <1>4
    <3> QED
      BY <3>3, <3>4
  <2>2. D \subseteq U
    <3> HIDE DEF U
    <3> QED
      BY <2>1, RankInduces
  <2> QED
    BY <2>2
<1> DEFINE f == [x \in D |-> F[rank[x] + 1][x]]
<1>6. f \in [D -> C]
  BY <1>4
<1>7. ASSUME NEW x \in D PROVE f[x] = step[x][f]
  <2> DEFINE n == rank[x] + 1
  <2>1. n \in Nat /\ rank[x] < n
    OBVIOUS
  <2>2. f[x] = F[n][x] /\ F[n] \in [D -> C] /\ F[n][x] = step[x][F[n]]
    BY <1>4, <2>1
  <2>3. ASSUME NEW y \in D, rank[y] < rank[x] PROVE f[y] = F[n][y]
    <3>1. rank[y] + 1 \in Nat /\ rank[y] < rank[y] + 1 /\ rank[y] < n
      BY <2>3
    <3> QED
      BY <1>5, <2>1, <3>1
  <2> HIDE DEF f, n
  <2>4. step[x][F[n]] = step[x][f]
    BY <1>6, <2>2, <2>3
  <2> QED
    BY <2>2, <2>4
<1> HIDE DEF f
<1> QED
  BY <1>6, <1>7 DEF IsSolution
-----------------------------------------------------------------------------
(* Words and fields.                                                       *)

LEMMA TailIs ==
  ASSUME NEW S, NEW s \in Seq(S), s # <<>>
  PROVE  /\ Head(s) \in S /\ Head(s) = s[1]
         /\ Tail(s) \in Seq(S) /\ Len(Tail(s)) = Len(s) - 1
         /\ Len(s) \in Nat \ {0}
         /\ \A i \in 1..Len(s) - 1 : Tail(s)[i] = s[i + 1]
         /\ s = <<Head(s)>> \o Tail(s)
<1>1. Head(s) \in S /\ Head(s) = s[1] /\ Tail(s) \in Seq(S) /\ Len(Tail(s)) = Len(s) - 1
      /\ Len(s) \in Nat \ {0} /\ \A i \in 1..Len(s) - 1 : Tail(s)[i] = s[i + 1]
  BY EmptySeq, HeadTailProperties
<1>2. <<Head(s)>> \in Seq(S) /\ Len(<<Head(s)>>) = 1 /\ <<Head(s)>>[1] = s[1]
  BY <1>1
<1>3. /\ <<Head(s)>> \o Tail(s) \in Seq(S)
      /\ Len(<<Head(s)>> \o Tail(s)) = Len(s)
      /\ \A i \in 1..Len(s) : (<<Head(s)>> \o Tail(s))[i] = IF i = 1 THEN s[1] ELSE Tail(s)[i - 1]
  BY <1>1, <1>2, ConcatProperties
<1>4. \A i \in 1..Len(s) : (<<Head(s)>> \o Tail(s))[i] = s[i]
  <2> SUFFICES ASSUME NEW i \in 1..Len(s) PROVE (<<Head(s)>> \o Tail(s))[i] = s[i]
    OBVIOUS
  <2>1. CASE i = 1
    BY <1>3, <2>1
  <2>2. CASE i # 1
    <3>1. i - 1 \in 1..Len(s) - 1 /\ (i - 1) + 1 = i
      BY <1>1, <2>2
    <3> QED
      BY <1>1, <1>3, <2>2, <3>1
  <2> QED
    BY <2>1, <2>2
<1>5. s = <<Head(s)>> \o Tail(s)
  BY <1>1, <1>3, <1>4, SeqEqual
<1> QED
  BY <1>1, <1>5

\* What a sequence put before another one begins with, and what is behind that.
LEMMA ConcatHead ==
  ASSUME NEW S, NEW s \in Seq(S), NEW t \in Seq(S), s # <<>>
  PROVE  /\ s \o t \in Seq(S) /\ s \o t # <<>>
         /\ Head(s \o t) = Head(s)
         /\ Tail(s \o t) = Tail(s) \o t
<1>1. s = <<Head(s)>> \o Tail(s) /\ Head(s) \in S /\ Tail(s) \in Seq(S) /\ <<Head(s)>> \in Seq(S)
  BY TailIs
<1>2. s \o t = <<Head(s)>> \o (Tail(s) \o t)
  BY <1>1, ConcatAssociative
<1>3. Tail(s) \o t \in Seq(S) /\ s \o t \in Seq(S)
  BY <1>1, ConcatProperties
<1> DEFINE r == <<Head(s)>> \o (Tail(s) \o t)
<1>4. Len(r) = 1 + Len(Tail(s) \o t) /\ r[1] = Head(s) /\ r \in Seq(S)
      /\ \A i \in 2..1 + Len(Tail(s) \o t) : r[i] = (Tail(s) \o t)[i - 1]
  BY <1>1, <1>3, ConcatProperties, LenProperties
<1>5. Len(Tail(s) \o t) \in Nat
  BY <1>3, LenProperties
<1>6. r # <<>>
  BY <1>4, <1>5
<1> HIDE DEF r
<1>7. Head(r) = Head(s) /\ Tail(r) \in Seq(S) /\ Len(Tail(r)) = Len(Tail(s) \o t)
      /\ \A i \in 1..Len(r) - 1 : Tail(r)[i] = r[i + 1]
  BY <1>4, <1>5, <1>6, TailIs
<1>8. \A i \in 1..Len(Tail(s) \o t) : Tail(r)[i] = (Tail(s) \o t)[i]
  <2> SUFFICES ASSUME NEW i \in 1..Len(Tail(s) \o t) PROVE Tail(r)[i] = (Tail(s) \o t)[i]
    OBVIOUS
  <2>1. i \in 1..Len(r) - 1 /\ i + 1 \in 2..1 + Len(Tail(s) \o t) /\ (i + 1) - 1 = i
    BY <1>4, <1>5
  <2> QED
    BY <1>4, <1>7, <2>1
<1>9. Tail(r) = Tail(s) \o t
  BY <1>3, <1>7, <1>8, SeqEqual
<1> QED
  BY <1>2, <1>3, <1>6, <1>7, <1>9 DEF r

\* Two words need not be looked at as sequences: a sequence of one and what is behind it.
LEMMA ConsIs ==
  ASSUME NEW S, NEW e \in S, NEW t \in Seq(S)
  PROVE  /\ <<e>> \o t \in Seq(S) /\ <<e>> \o t # <<>>
         /\ Head(<<e>> \o t) = e /\ Tail(<<e>> \o t) = t
         /\ Len(<<e>> \o t) = Len(t) + 1
<1>1. <<e>> \in Seq(S) /\ <<e>> # <<>> /\ Head(<<e>>) = e /\ Tail(<<e>>) = <<>> /\ Len(<<e>>) = 1
  OBVIOUS
<1>2. <<>> \o t = t
  BY ConcatEmptySeq
<1>3. Len(t) \in Nat /\ Len(<<e>> \o t) = Len(<<e>>) + Len(t)
  BY <1>1, ConcatProperties, LenProperties
<1> QED
  BY <1>1, <1>2, <1>3, ConcatHead

LEMMA SimpleWordsAreWords == SimpleWords \subseteq Words /\ Seq(SimpleWords) \subseteq Seq(Words)
<1>1. SimpleWords \subseteq Words
  BY DEF Words
<1> QED
  BY <1>1, SeqMonotonic

LEMMA PlainIsSimple ==
  ASSUME NEW text \in Texts
  PROVE  Plain(text) \in SimpleWords /\ Flag(text) \in SimpleWords
<1>1. "plain" \in Kinds \ {"body"} /\ "flag" \in Kinds \ {"body"} /\ "none" \in Places
  BY DEF Kinds, Places
<1> QED
  BY <1>1 DEF Plain, Flag, Word, SimpleWords

LenRank == [s \in Seq(Words) |-> Len(s)]

LEMMA LenRanks == LenRank \in [Seq(Words) -> Nat]
  BY LenProperties DEF LenRank

LEMMA FieldsIs ==
  Fields = [segment \in Seq(Words) |->
              IF segment = <<>> THEN <<>>
              ELSE (IF Head(segment).kind = "empty" THEN <<>> ELSE <<Head(segment)>>)
                   \o Fields[Tail(segment)]]
<1> DEFINE S == Seq(Words)
           Kept(s) == IF Head(s).kind = "empty" THEN <<>> ELSE <<Head(s)>>
           step == [x \in S |-> [g \in [S -> S] |-> IF x = <<>> THEN <<>> ELSE Kept(x) \o g[Tail(x)]]]
<1>1. \A x \in S : x # <<>> => Tail(x) \in S /\ Kept(x) \in S /\ LenRank[Tail(x)] < LenRank[x]
  <2> SUFFICES ASSUME NEW x \in S, x # <<>> PROVE Tail(x) \in S /\ Kept(x) \in S /\ LenRank[Tail(x)] < LenRank[x]
    OBVIOUS
  <2>1. Tail(x) \in S /\ Head(x) \in Words /\ Len(Tail(x)) = Len(x) - 1 /\ Len(x) \in Nat
    BY TailIs
  <2>2. LenRank[Tail(x)] < LenRank[x]
    BY <2>1 DEF LenRank
  <2>3. Kept(x) \in S
    BY <2>1
  <2> QED
    BY <2>1, <2>2, <2>3
<1> HIDE DEF Kept
<1>2. step \in [S -> [[S -> S] -> S]]
  <2>1. ASSUME NEW x \in S, NEW g \in [S -> S], x # <<>> PROVE Kept(x) \o g[Tail(x)] \in S
    <3>1. g[Tail(x)] \in S /\ Kept(x) \in S
      BY <1>1, <2>1
    <3> QED
      BY <3>1, ConcatProperties
  <2>2. <<>> \in S
    OBVIOUS
  <2> QED
    BY <2>1, <2>2
<1>3. ASSUME NEW x \in S, NEW g \in [S -> S] PROVE step[x][g] = IF x = <<>> THEN <<>> ELSE Kept(x) \o g[Tail(x)]
  OBVIOUS
<1> HIDE DEF step
<1>4. ASSUME NEW x \in S, NEW g \in [S -> S], NEW h \in [S -> S],
             \A y \in S : LenRank[y] < LenRank[x] => g[y] = h[y]
      PROVE  step[x][g] = step[x][h]
  <2>1. x # <<>> => g[Tail(x)] = h[Tail(x)]
    BY <1>1, <1>4
  <2>2. step[x][g] = (IF x = <<>> THEN <<>> ELSE Kept(x) \o g[Tail(x)])
        /\ step[x][h] = (IF x = <<>> THEN <<>> ELSE Kept(x) \o h[Tail(x)])
    BY <1>3
  <2> QED
    BY <2>1, <2>2
<1> HIDE DEF S
<1>5. <<>> \in S /\ LenRank \in [S -> Nat]
  BY LenRanks DEF S
<1>6. IsRecursion(S, S, LenRank, step)
  BY <1>2, <1>4, <1>5 DEF IsRecursion
<1>7. PICK f : IsSolution(f, S, S, step)
  BY <1>5, <1>6, RankedFunctionExists
<1>8. f = [x \in S |-> IF x = <<>> THEN <<>> ELSE Kept(x) \o f[Tail(x)]]
  BY <1>3, <1>7 DEF IsSolution
<1> QED
  BY <1>8 DEF Fields, Kept, S
-----------------------------------------------------------------------------
(* What a wrapper runs.                                                    *)

\* Words taken from a sequence of words: not more, and simple ones from simple ones.
PartsOf(s) ==
  {t \in Seq(Words) : Len(t) <= Len(s) /\ (s \in Seq(SimpleWords) => t \in Seq(SimpleWords))}

LEMMA PartsOfParts ==
  ASSUME NEW s \in Seq(Words), NEW t \in PartsOf(s), NEW u \in PartsOf(t)
  PROVE  u \in PartsOf(s)
<1>1. Len(s) \in Nat /\ Len(t) \in Nat /\ Len(u) \in Nat
  BY LenProperties DEF PartsOf
<1> QED
  BY <1>1 DEF PartsOf

LEMMA TailIsPart ==
  ASSUME NEW s \in Seq(Words), s # <<>>
  PROVE  Tail(s) \in PartsOf(s) /\ Len(Tail(s)) < Len(s)
<1>1. Tail(s) \in Seq(Words) /\ Len(Tail(s)) = Len(s) - 1 /\ Len(s) \in Nat
  BY TailIs
<1>2. s \in Seq(SimpleWords) => Tail(s) \in Seq(SimpleWords)
  BY TailIs
<1> QED
  BY <1>1, <1>2 DEF PartsOf

LEMMA SubSeqIsPart ==
  ASSUME NEW s \in Seq(Words), NEW m \in Nat \ {0}, NEW n \in Int, n <= Len(s)
  PROVE  SubSeq(s, m, n) \in PartsOf(s) /\ Len(SubSeq(s, m, n)) = IF m <= n THEN n - m + 1 ELSE 0
<1>1. Len(s) \in Nat /\ m \in Int
  BY LenProperties
<1>2. \A i \in m..n : i \in 1..Len(s)
  BY <1>1
<1>3. ASSUME NEW S, s \in Seq(S)
      PROVE  SubSeq(s, m, n) \in Seq(S) /\ Len(SubSeq(s, m, n)) = IF m <= n THEN n - m + 1 ELSE 0
  <2>1. \A i \in m..n : s[i] \in S
    BY <1>2, <1>3, ElementOfSeq
  <2> QED
    BY <1>1, <2>1, SubSeqProperties
<1> QED
  BY <1>1, <1>3 DEF PartsOf

LEMMA DropIsPart ==
  ASSUME NEW s \in Seq(Words), NEW n \in Nat
  PROVE  Drop(s, n) \in PartsOf(s)
<1>1. Len(s) \in Nat /\ n + 1 \in Nat \ {0}
  BY LenProperties
<1> QED
  BY <1>1, SubSeqIsPart DEF Drop

LEMMA SkipLeadingIs ==
  ASSUME NEW kinds, NEW valued, NEW args \in Seq(Words)
  PROVE  SkipLeading(args, kinds, valued) =
           IF args = <<>> \/ Head(args).kind \notin kinds THEN args
           ELSE IF Head(args).text \in valued /\ Len(args) >= 2
           THEN SkipLeading(Tail(Tail(args)), kinds, valued)
           ELSE SkipLeading(Tail(args), kinds, valued)
<1> DEFINE S == Seq(Words)
           Value(x, g) == IF x = <<>> \/ Head(x).kind \notin kinds THEN x
                          ELSE IF Head(x).text \in valued /\ Len(x) >= 2 THEN g[Tail(Tail(x))]
                          ELSE g[Tail(x)]
           step == [x \in S |-> [g \in [S -> S] |-> Value(x, g)]]
<1>1. ASSUME NEW x \in S, x # <<>>
      PROVE  /\ Tail(x) \in S /\ LenRank[Tail(x)] < LenRank[x]
             /\ Len(x) >= 2 => Tail(Tail(x)) \in S /\ LenRank[Tail(Tail(x))] < LenRank[x]
  <2>1. Tail(x) \in S /\ Len(Tail(x)) = Len(x) - 1 /\ Len(x) \in Nat
    BY <1>1, TailIs
  <2>2. LenRank[Tail(x)] = Len(x) - 1 /\ LenRank[x] = Len(x)
    BY <2>1 DEF LenRank
  <2>3. CASE Len(x) >= 2
    <3>1. Tail(x) # <<>>
      <4>1. Len(Tail(x)) # 0
        BY <2>1, <2>3
      <4>2. Len(<<>>) = 0
        BY EmptySeq
      <4> QED
        BY <4>1, <4>2, Zenon
    <3>2. Tail(Tail(x)) \in S /\ Len(Tail(Tail(x))) = Len(Tail(x)) - 1
      BY <2>1, <3>1, TailIs
    <3>3. LenRank[Tail(Tail(x))] = Len(x) - 2
      BY <2>1, <3>2 DEF LenRank
    <3> QED
      BY <2>1, <2>2, <3>2, <3>3
  <2> QED
    BY <2>1, <2>2, <2>3
<1>2. step \in [S -> [[S -> S] -> S]]
  <2> SUFFICES ASSUME NEW x \in S, NEW g \in [S -> S] PROVE Value(x, g) \in S
    OBVIOUS
  <2> QED
    BY <1>1
<1>3. ASSUME NEW x \in S, NEW g, NEW h, \A y \in S : LenRank[y] < LenRank[x] => g[y] = h[y]
      PROVE  Value(x, g) = Value(x, h)
  BY <1>1, <1>3
<1>4. \A x \in S, g \in [S -> S] : step[x][g] = Value(x, g)
  OBVIOUS
<1>5. <<>> \in S /\ LenRank \in [S -> Nat]
  BY LenRanks
<1> HIDE DEF S, step, Value
<1>6. IsRecursion(S, S, LenRank, step)
  <2> SUFFICES ASSUME NEW x \in S, NEW g \in [S -> S], NEW h \in [S -> S],
                      \A y \in S : LenRank[y] < LenRank[x] => g[y] = h[y]
               PROVE  step[x][g] = step[x][h]
    BY <1>2, <1>5 DEF IsRecursion
  <2>1. Value(x, g) = Value(x, h)
    BY <1>3
  <2> QED
    BY <1>4, <2>1
<1>7. PICK f : IsSolution(f, S, S, step)
  BY <1>5, <1>6, RankedFunctionExists
<1>8. f = [x \in S |-> Value(x, f)]
  BY <1>4, <1>7 DEF IsSolution
<1> DEFINE Skip == CHOOSE h : h = [x \in S |-> Value(x, h)]
<1>9. Skip = [x \in S |-> Value(x, Skip)]
  BY <1>8
<1>10. \A x : SkipLeading(x, kinds, valued) = Skip[x]
  BY DEF SkipLeading, S, Value
<1> HIDE DEF Skip
<1>11. args \in S
  BY DEF S
<1>12. Skip[args] = Value(args, Skip)
  BY <1>9, <1>11
<1> QED
  BY <1>10, <1>12 DEF Value

LEMMA SkipLeadingIsPart ==
  ASSUME NEW kinds, NEW valued
  PROVE  \A args \in Seq(Words) : SkipLeading(args, kinds, valued) \in PartsOf(args)
<1> DEFINE T == {x \in Seq(Words) : SkipLeading(x, kinds, valued) \in PartsOf(x)}
<1>1. ASSUME NEW x \in Seq(Words), \A y \in Seq(Words) : LenRank[y] < LenRank[x] => y \in T
      PROVE  x \in T
  <2>1. x \in PartsOf(x)
    BY LenProperties DEF PartsOf
  <2>2. ASSUME x # <<>> PROVE Tail(x) \in PartsOf(x) /\ SkipLeading(Tail(x), kinds, valued) \in PartsOf(x)
    <3>1. Tail(x) \in PartsOf(x) /\ Len(Tail(x)) < Len(x) /\ Tail(x) \in Seq(Words)
      BY <2>2, TailIsPart DEF PartsOf
    <3>2. LenRank[Tail(x)] < LenRank[x]
      BY <3>1 DEF LenRank
    <3>3. SkipLeading(Tail(x), kinds, valued) \in PartsOf(Tail(x))
      BY <1>1, <3>1, <3>2
    <3> QED
      BY <3>1, <3>3, PartsOfParts
  <2>3. ASSUME x # <<>>, Len(x) >= 2 PROVE SkipLeading(Tail(Tail(x)), kinds, valued) \in PartsOf(x)
    <3>1. Tail(x) \in Seq(Words) /\ Len(Tail(x)) = Len(x) - 1 /\ Len(x) \in Nat
      BY <2>3, TailIs
    <3>2. Tail(x) # <<>>
      <4>1. Len(Tail(x)) # 0
        BY <2>3, <3>1
      <4>2. Len(<<>>) = 0
        BY EmptySeq
      <4> QED
        BY <4>1, <4>2, Zenon
    <3>3. Tail(Tail(x)) \in PartsOf(Tail(x)) /\ Len(Tail(Tail(x))) < Len(Tail(x)) /\ Tail(Tail(x)) \in Seq(Words)
      BY <3>1, <3>2, TailIsPart DEF PartsOf
    <3>4. Len(Tail(Tail(x))) \in Nat
      BY <3>3, LenProperties
    <3>5. LenRank[Tail(Tail(x))] < LenRank[x]
      BY <3>1, <3>3, <3>4 DEF LenRank
    <3>6. SkipLeading(Tail(Tail(x)), kinds, valued) \in PartsOf(Tail(Tail(x)))
      BY <1>1, <3>3, <3>5
    <3>7. SkipLeading(Tail(Tail(x)), kinds, valued) \in PartsOf(Tail(x))
      BY <3>1, <3>3, <3>6, PartsOfParts
    <3> QED
      BY <2>2, <2>3, <3>7, PartsOfParts
  <2>4. SkipLeading(x, kinds, valued) =
           IF x = <<>> \/ Head(x).kind \notin kinds THEN x
           ELSE IF Head(x).text \in valued /\ Len(x) >= 2 THEN SkipLeading(Tail(Tail(x)), kinds, valued)
           ELSE SkipLeading(Tail(x), kinds, valued)
    BY SkipLeadingIs
  <2>5. SkipLeading(x, kinds, valued) \in PartsOf(x)
    BY <2>1, <2>2, <2>3, <2>4
  <2> QED
    BY <2>5
<1>2. Seq(Words) \subseteq T
  <2> DEFINE S == Seq(Words)
  <2>1. \A x \in S : (\A y \in S : LenRank[y] < LenRank[x] => y \in T) => x \in T
    BY <1>1
  <2>2. LenRank \in [S -> Nat]
    BY LenRanks
  <2> HIDE DEF T, S
  <2>3. S \subseteq T
    BY <2>1, <2>2, RankInduces
  <2> QED
    BY <2>3 DEF S
<1> QED
  BY <1>2

LEMMA WrappedCommandIsPart ==
  ASSUME NEW executable, NEW args \in Seq(Words)
  PROVE  WrappedCommand(executable, args) \in PartsOf(args)
<1>1. args \in PartsOf(args) /\ <<>> \in PartsOf(args)
  <2>1. Len(<<>>) = 0 /\ <<>> \in Seq(Words) /\ <<>> \in Seq(SimpleWords) /\ Len(args) \in Nat
    BY EmptySeq, LenProperties
  <2> QED
    BY <2>1 DEF PartsOf
<1>2. \A kinds, valued : SkipLeading(args, kinds, valued) \in PartsOf(args)
  BY SkipLeadingIsPart
<1>3. \A n \in Nat : Drop(args, n) \in PartsOf(args)
  BY DropIsPart
<1>4. \A kinds, valued : Drop(SkipLeading(args, kinds, valued), 1) \in PartsOf(args)
  <2> SUFFICES ASSUME NEW kinds, NEW valued PROVE Drop(SkipLeading(args, kinds, valued), 1) \in PartsOf(args)
    OBVIOUS
  <2>1. SkipLeading(args, kinds, valued) \in PartsOf(args) /\ SkipLeading(args, kinds, valued) \in Seq(Words)
    BY <1>2 DEF PartsOf
  <2>2. Drop(SkipLeading(args, kinds, valued), 1) \in PartsOf(SkipLeading(args, kinds, valued))
    BY <2>1, DropIsPart
  <2> QED
    BY <2>1, <2>2, PartsOfParts
<1>5. 1 \in Nat /\ 2 \in Nat
  OBVIOUS
<1> QED
  BY <1>1, <1>2, <1>3, <1>4, <1>5 DEF WrappedCommand, SkipEnv, SkipFlags

CommandRank == [s \in Commandlines |-> Len(s)]

LEMMA CommandRanks == CommandRank \in [Commandlines -> Nat]
  BY LenProperties DEF CommandRank, Commandlines

LEMMA WrappedCommandIsShorter ==
  ASSUME NEW words \in Commandlines, WrappedCommand(Head(words).text, Tail(words)) # <<>>
  PROVE  /\ WrappedCommand(Head(words).text, Tail(words)) \in Commandlines \cap PartsOf(words)
         /\ CommandRank[WrappedCommand(Head(words).text, Tail(words))] < CommandRank[words]
<1> DEFINE rest == WrappedCommand(Head(words).text, Tail(words))
<1>1. words \in Seq(Words) /\ words # <<>>
  BY DEF Commandlines
<1>2. Tail(words) \in PartsOf(words) /\ Len(Tail(words)) < Len(words) /\ Tail(words) \in Seq(Words)
  BY <1>1, TailIsPart DEF PartsOf
<1>3. rest \in PartsOf(Tail(words))
  BY <1>2, WrappedCommandIsPart
<1> HIDE DEF rest
<1>4. rest \in PartsOf(words)
  BY <1>1, <1>2, <1>3, PartsOfParts
<1>5. rest \in Commandlines
  BY <1>3 DEF Commandlines, PartsOf, rest
<1>6. Len(rest) <= Len(Tail(words)) /\ Len(rest) \in Nat /\ Len(words) \in Nat /\ Len(Tail(words)) \in Nat
  BY <1>1, <1>2, <1>3, LenProperties DEF PartsOf
<1> QED
  BY <1>2, <1>4, <1>5, <1>6 DEF CommandRank, rest

LEMMA PeelIs ==
  peelCommandWrappers =
    [words \in Commandlines |->
       IF WrappedCommand(Head(words).text, Tail(words)) = <<>> THEN words
       ELSE peelCommandWrappers[WrappedCommand(Head(words).text, Tail(words))]]
<1> DEFINE S == Commandlines
           Rest(x) == WrappedCommand(Head(x).text, Tail(x))
           Value(x, g) == IF Rest(x) = <<>> THEN x ELSE g[Rest(x)]
           step == [x \in S |-> [g \in [S -> S] |-> Value(x, g)]]
<1>1. \A x \in S : Rest(x) # <<>> => Rest(x) \in S /\ CommandRank[Rest(x)] < CommandRank[x]
  BY WrappedCommandIsShorter
<1> HIDE DEF Rest
<1>2. step \in [S -> [[S -> S] -> S]]
  BY <1>1
<1>3. ASSUME NEW x \in S, NEW g, NEW h, \A y \in S : CommandRank[y] < CommandRank[x] => g[y] = h[y]
      PROVE  Value(x, g) = Value(x, h)
  BY <1>1, <1>3
<1>4. \A x \in S, g \in [S -> S] : step[x][g] = Value(x, g)
  OBVIOUS
<1>5. <<Plain("env")>> \in S /\ CommandRank \in [S -> Nat]
  <2>1. "env" \in Texts
    BY TextsAssumption
  <2>2. Plain("env") \in Words
    BY <2>1, PlainIsSimple, SimpleWordsAreWords
  <2> QED
    BY <2>2, CommandRanks DEF Commandlines
<1> HIDE DEF S, step, Value
<1>6. IsRecursion(S, S, CommandRank, step)
  <2> SUFFICES ASSUME NEW x \in S, NEW g \in [S -> S], NEW h \in [S -> S],
                      \A y \in S : CommandRank[y] < CommandRank[x] => g[y] = h[y]
               PROVE  step[x][g] = step[x][h]
    BY <1>2, <1>5 DEF IsRecursion
  <2>1. Value(x, g) = Value(x, h)
    BY <1>3
  <2> QED
    BY <1>4, <2>1
<1>7. PICK f : IsSolution(f, S, S, step)
  BY <1>5, <1>6, RankedFunctionExists
<1>8. f = [x \in S |-> Value(x, f)]
  BY <1>4, <1>7 DEF IsSolution
<1> QED
  BY <1>8 DEF peelCommandWrappers, S, Value, Rest

LEMMA PeelIsPart ==
  \A words \in Commandlines : peelCommandWrappers[words] \in Commandlines \cap PartsOf(words)
<1> DEFINE T == {x \in Commandlines : peelCommandWrappers[x] \in Commandlines \cap PartsOf(x)}
<1>1. ASSUME NEW x \in Commandlines, \A y \in Commandlines : CommandRank[y] < CommandRank[x] => y \in T
      PROVE  x \in T
  <2> DEFINE rest == WrappedCommand(Head(x).text, Tail(x))
  <2>1. x \in PartsOf(x) /\ x \in Seq(Words)
    BY LenProperties DEF PartsOf, Commandlines
  <2>2. ASSUME rest # <<>> PROVE peelCommandWrappers[rest] \in Commandlines \cap PartsOf(x)
    <3>1. rest \in Commandlines \cap PartsOf(x) /\ CommandRank[rest] < CommandRank[x]
      BY <2>2, WrappedCommandIsShorter
    <3> HIDE DEF rest
    <3>2. peelCommandWrappers[rest] \in Commandlines \cap PartsOf(rest)
      BY <1>1, <3>1
    <3> QED
      BY <2>1, <3>1, <3>2, PartsOfParts
  <2>3. peelCommandWrappers[x] = IF rest = <<>> THEN x ELSE peelCommandWrappers[rest]
    BY PeelIs
  <2> QED
    BY <2>1, <2>2, <2>3
<1>2. Commandlines \subseteq T
  <2> HIDE DEF T
  <2> QED
    BY <1>1, CommandRanks, RankInduces
<1> QED
  BY <1>2

-----------------------------------------------------------------------------
(* Every decision is a category.                                           *)

LEMMA FirstCategoryIs ==
  ASSUME NEW categories, DOMAIN categories \subseteq Nat, NEW otherwise
  PROVE  \/ /\ \A i \in DOMAIN categories : categories[i] = NoCategory
            /\ FirstCategory(categories, otherwise) = otherwise
         \/ \E i \in DOMAIN categories :
              categories[i] # NoCategory /\ FirstCategory(categories, otherwise) = categories[i]
<1> DEFINE found == {i \in DOMAIN categories : categories[i] # NoCategory}
<1>1. CASE found = {}
  BY <1>1 DEF FirstCategory
<1>2. CASE found # {}
  <2>1. Min(found) \in found
    BY <1>2, MinIs
  <2> QED
    BY <1>2, <2>1 DEF FirstCategory
<1> QED
  BY <1>1, <1>2

LEMMA NoCategoryIsNone == NoCategory \notin Categories
  BY DEF NoCategory, Categories, AllowCategories, ReadCategories, WriteCategories, DenyCategories

LEMMA PlaceDecision ==
  ASSUME NEW args \in Seq(Words)
  PROVE  checkOperandPathPolicy(args) \in DenyCategories \cup {NoCategory}
<1> DEFINE categories == [i \in DOMAIN args |-> PlaceCategory(OperandPlace(args, i))]
<1>1. \A p : PlaceCategory(p) \in DenyCategories \cup {NoCategory}
  BY DEF PlaceCategory, DenyCategories
<1>2. DOMAIN categories \subseteq Nat
  BY LenProperties
<1>3. \A i \in DOMAIN categories : categories[i] \in DenyCategories \cup {NoCategory}
  BY <1>1
<1> HIDE DEF categories
<1>4. FirstCategory(categories, NoCategory) \in DenyCategories \cup {NoCategory}
  BY <1>2, <1>3, FirstCategoryIs
<1> QED
  BY <1>4 DEF checkOperandPathPolicy, categories

LEMMA RmDecision ==
  ASSUME NEW args \in Seq(Words)
  PROVE  evaluatePolicyRm(args) \in Categories
<1> DEFINE categories == [i \in DOMAIN args |-> RmCategory(args[i])]
<1>1. \A w : RmCategory(w) \in Categories \cup {NoCategory}
  BY DEF RmCategory, Categories, DenyCategories
<1>2. DOMAIN categories \subseteq Nat
  BY LenProperties
<1>3. \A i \in DOMAIN categories : categories[i] \in Categories \cup {NoCategory}
  BY <1>1
<1>4. "allow_workspace_file" \in Categories
  BY DEF Categories, AllowCategories, WriteCategories
<1> HIDE DEF categories
<1>5. FirstCategory(categories, "allow_workspace_file") \in Categories
  BY <1>2, <1>3, <1>4, FirstCategoryIs
<1> QED
  BY <1>5 DEF evaluatePolicyRm, categories

LEMMA ExecutableDecisionType ==
  ASSUME NEW executable, NEW args \in Seq(Words)
  PROVE  ExecutableDecision(executable, args) \in Categories
<1> USE DEF Categories, AllowCategories, ReadCategories, WriteCategories, DenyCategories
<1>1. evaluatePolicyGit(args) \in Categories
  BY DEF evaluatePolicyGit
<1>2. evaluatePolicyDocker(args) \in Categories
  BY DEF evaluatePolicyDocker
<1>3. evaluatePolicyChmodChown(args) \in Categories /\ evaluatePolicyKill(args) \in Categories
      /\ evaluatePolicyRsync(args) \in Categories
  BY DEF evaluatePolicyChmodChown, evaluatePolicyKill, evaluatePolicyRsync
<1>4. evaluatePolicyNpm(args) \in Categories /\ evaluatePolicyPip(args) \in Categories
      /\ evaluatePolicyCargo(args) \in Categories
  BY DEF evaluatePolicyNpm, evaluatePolicyPip, evaluatePolicyCargo
<1>5. evaluatePolicyGh(args) \in Categories /\ evaluatePolicyBrew(args) \in Categories
      /\ evaluatePolicyCrontab(args) \in Categories
  BY DEF evaluatePolicyGh, evaluatePolicyBrew, evaluatePolicyCrontab
<1>6. evaluatePolicyCat(args) \in Categories /\ evaluatePolicySed(args) \in Categories
  BY DEF evaluatePolicyCat, evaluatePolicySed
<1>7. evaluatePolicyCloudCLI(executable, args) \in Categories
  BY DEF evaluatePolicyCloudCLI
<1>8. {"allow_build_test", "allow_workspace_file", "allow_read", "allow_default"} \subseteq Categories
  OBVIOUS
<1> HIDE DEF Categories
<1> QED
  BY <1>1, <1>2, <1>3, <1>4, <1>5, <1>6, <1>7, <1>8, RmDecision DEF ExecutableDecision

-----------------------------------------------------------------------------
(* A sequence of sequences, flattened.                                     *)

LEMMA FlattenWalk ==
  ASSUME NEW S, NEW ss \in Seq(Seq(S)), ss # <<>>
  PROVE  \E f \in [1..Len(ss) -> Seq(S)] :
           /\ f[1] = ss[1]
           /\ \A i \in 2..Len(ss) : f[i] = f[i - 1] \o ss[i]
           /\ FlattenSeq(ss) = f[Len(ss)]
<1> DEFINE D == 1..Len(ss)
           C == Seq(S)
           Value(i, g) == IF i = 1 THEN ss[i] ELSE g[i - 1] \o ss[i]
           rank == [i \in D |-> i]
           step == [i \in D |-> [g \in [D -> C] |-> Value(i, g)]]
<1>1. Len(ss) \in Nat \ {0} /\ \A i \in D : ss[i] \in C
  BY EmptySeq, ElementOfSeq
<1>2. rank \in [D -> Nat] /\ \A i \in D : i # 1 => i - 1 \in D /\ rank[i - 1] < rank[i]
  BY <1>1
<1>3. step \in [D -> [[D -> C] -> C]]
  <2> SUFFICES ASSUME NEW i \in D, NEW g \in [D -> C] PROVE Value(i, g) \in C
    OBVIOUS
  <2>1. CASE i = 1
    BY <1>1, <2>1
  <2>2. CASE i # 1
    <3>1. g[i - 1] \in C /\ ss[i] \in C
      BY <1>1, <1>2, <2>2
    <3>2. g[i - 1] \o ss[i] \in C
      BY <3>1, ConcatProperties
    <3> QED
      BY <2>2, <3>2
  <2> QED
    BY <2>1, <2>2
<1>4. \A i \in D, g \in [D -> C] : step[i][g] = Value(i, g)
  OBVIOUS
<1>5. ASSUME NEW x \in D, NEW g, NEW h, \A y \in D : rank[y] < rank[x] => g[y] = h[y]
      PROVE  Value(x, g) = Value(x, h)
  BY <1>2, <1>5
<1>6. ss[1] \in C /\ 1 \in D /\ Len(ss) \in D
  BY <1>1
<1> HIDE DEF D, C, rank, step, Value
<1>7. IsRecursion(D, C, rank, step)
  <2> SUFFICES ASSUME NEW x \in D, NEW g \in [D -> C], NEW h \in [D -> C],
                      \A y \in D : rank[y] < rank[x] => g[y] = h[y]
               PROVE  step[x][g] = step[x][h]
    BY <1>2, <1>3 DEF IsRecursion
  <2>1. Value(x, g) = Value(x, h)
    BY <1>5
  <2> QED
    BY <1>4, <2>1
<1>8. PICK f : IsSolution(f, D, C, step)
  BY <1>6, <1>7, RankedFunctionExists
<1>9. f = [i \in D |-> Value(i, f)]
  BY <1>4, <1>8 DEF IsSolution
<1> DEFINE Flat == CHOOSE h : h = [i \in D |-> Value(i, h)]
<1>10. Flat = [i \in D |-> Value(i, Flat)]
  BY <1>9
<1>11. FlattenSeq(ss) = Flat[Len(ss)]
  BY <1>1 DEF FlattenSeq, D, Value
<1> HIDE DEF Flat
<1>12. ASSUME NEW i \in D, \A j \in D : rank[j] < rank[i] => j \in {k \in D : Flat[k] \in C}
       PROVE  i \in {k \in D : Flat[k] \in C}
  <2>1. Flat[i] = Value(i, Flat)
    BY <1>10
  <2>2. i # 1 => i - 1 \in D /\ Flat[i - 1] \in C
    BY <1>2, <1>12
  <2>3. ss[i] \in C
    BY <1>1
  <2>4. i # 1 => Flat[i - 1] \o ss[i] \in C
    BY <2>2, <2>3, ConcatProperties DEF C
  <2> QED
    BY <2>1, <2>3, <2>4 DEF Value
<1>13. D \subseteq {k \in D : Flat[k] \in C}
  <2> DEFINE T == {k \in D : Flat[k] \in C}
  <2>1. \A x \in D : (\A y \in D : rank[y] < rank[x] => y \in T) => x \in T
    BY <1>12
  <2> HIDE DEF T
  <2>2. D \subseteq T
    BY <1>2, <2>1, RankInduces
  <2> QED
    BY <2>2 DEF T
<1>14. Flat \in [D -> C]
  BY <1>10, <1>13
<1>15. Flat[1] = ss[1]
  BY <1>6, <1>10 DEF Value
<1>16. ASSUME NEW i \in 2..Len(ss) PROVE Flat[i] = Flat[i - 1] \o ss[i]
  <2>1. i \in D /\ i # 1
    BY <1>1 DEF D
  <2> QED
    BY <1>10, <2>1 DEF Value
<1> QED
  BY <1>11, <1>14, <1>15, <1>16 DEF D, C

\* Induction along such a walk.
LEMMA OneUpInduces ==
  ASSUME NEW n \in Nat, n >= 1, NEW T, 1 \in T, \A i \in 2..n : i - 1 \in T => i \in T
  PROVE  1..n \subseteq T
<1> DEFINE D == 1..n
           rank == [i \in D |-> i]
<1>1. rank \in [D -> Nat]
  OBVIOUS
<1>2. ASSUME NEW x \in D, \A y \in D : rank[y] < rank[x] => y \in T PROVE x \in T
  <2>1. x # 1 => x \in 2..n /\ x - 1 \in D /\ rank[x - 1] < rank[x]
    OBVIOUS
  <2> QED
    BY <1>2, <2>1
<1> HIDE DEF D, rank
<1>3. D \subseteq T
  BY <1>1, <1>2, RankInduces
<1> QED
  BY <1>3 DEF D

\* A sequence of single elements flattens to the sequence of these.
LEMMA FlattenSingles ==
  ASSUME NEW S, NEW s \in Seq(S)
  PROVE  FlattenSeq([i \in DOMAIN s |-> <<s[i]>>]) = s
<1> DEFINE ss == [i \in DOMAIN s |-> <<s[i]>>]
<1>1. Len(s) \in Nat /\ DOMAIN s = 1..Len(s) /\ \A i \in 1..Len(s) : s[i] \in S
  BY LenProperties, ElementOfSeq
<1>2. ss \in Seq(Seq(S)) /\ Len(ss) = Len(s) /\ \A i \in 1..Len(s) : ss[i] = <<s[i]>>
  BY <1>1
<1> HIDE DEF ss
<1>3. CASE s = <<>>
  <2>1. Len(s) = 0 /\ ss = <<>>
    BY <1>2, <1>3, EmptySeq
  <2> QED
    BY <1>3, <2>1 DEF FlattenSeq, ss
<1>4. CASE s # <<>>
  <2>1. Len(s) >= 1 /\ ss # <<>>
    BY <1>1, <1>2, <1>4, EmptySeq
  <2>2. PICK f \in [1..Len(ss) -> Seq(S)] :
           /\ f[1] = ss[1]
           /\ \A i \in 2..Len(ss) : f[i] = f[i - 1] \o ss[i]
           /\ FlattenSeq(ss) = f[Len(ss)]
    <3>1. ss \in Seq(Seq(S))
      BY <1>2
    <3> QED
      BY <2>1, <3>1, FlattenWalk
  <2> DEFINE T == {i \in 1..Len(s) : f[i] = SubSeq(s, 1, i)}
  <2>3. 1 \in T
    <3>1. SubSeq(s, 1, 1) = <<s[1]>>
      <4>1. 1 \in 1..Len(s) /\ 1 \in 1..Len(s) /\ 1 - 1 = 0 /\ s[1] \in S
        BY <1>1, <2>1
      <4>2. SubSeq(s, 1, 1) = SubSeq(s, 1, 1 - 1) \o <<s[1]>>
        BY <4>1, SubSeqRecursiveSecond
      <4>3. SubSeq(s, 1, 0) = <<>>
        BY SubSeqEmpty
      <4>4. <<s[1]>> \in Seq(S)
        BY <4>1
      <4> QED
        BY <4>1, <4>2, <4>3, <4>4, ConcatEmptySeq
    <3> QED
      BY <1>1, <1>2, <2>1, <2>2, <3>1
  <2>4. ASSUME NEW i \in 2..Len(s), i - 1 \in T PROVE i \in T
    <3>1. i \in 1..Len(s) /\ 1 \in 1..Len(s) /\ i \in 1..Len(s)
      BY <1>1
    <3>2. SubSeq(s, 1, i) = SubSeq(s, 1, i - 1) \o <<s[i]>>
      BY <1>1, <3>1, SubSeqRecursiveSecond
    <3>3. f[i] = f[i - 1] \o <<s[i]>> /\ f[i - 1] = SubSeq(s, 1, i - 1)
      BY <1>2, <2>2, <2>4, <3>1
    <3> QED
      BY <3>1, <3>2, <3>3
  <2>5. 1..Len(s) \subseteq T
    <3> HIDE DEF T
    <3> QED
      BY <1>1, <2>1, <2>3, <2>4, OneUpInduces
  <2>6. f[Len(s)] = SubSeq(s, 1, Len(s))
    BY <1>1, <2>1, <2>5
  <2>7. SubSeq(s, 1, Len(s)) = s
    BY SubSeqFull
  <2> QED
    BY <2>2, <2>6, <2>7 DEF ss
<1> QED
  BY <1>3, <1>4

LEMMA ConcatThree ==
  ASSUME NEW S, NEW s \in Seq(S), NEW t \in Seq(S), NEW u \in Seq(S)
  PROVE  (s \o t) \o u = s \o (t \o u) /\ s \o t \in Seq(S) /\ t \o u \in Seq(S)
  BY ConcatAssociative, ConcatProperties

\* What FlattenSeq builds up, one sequence at a time, from position k on.
IsWalk(f, ss, k, N, S, front) ==
  /\ N \in Nat /\ N >= 1 /\ k \in 1..N
  /\ front \in Seq(S) /\ f[k] = front
  /\ \A i \in 2..N : k < i => ss[i] \in Seq(S) /\ f[i] = f[i - 1] \o ss[i]

BeginsWith(s, front, S) == \E rest \in Seq(S) : s = front \o rest

\* Flattening keeps what is in front.
LEMMA WalkFront ==
  ASSUME NEW S, NEW k, NEW N, NEW ss, NEW f, NEW front, IsWalk(f, ss, k, N, S, front)
  PROVE  BeginsWith(f[N], front, S)
<1> DEFINE T == {i \in 1..N : k <= i => \E rest \in Seq(S) : f[i] = front \o rest}
<1>0. N \in Nat /\ N >= 1 /\ k \in 1..N /\ front \in Seq(S) /\ f[k] = front
  BY DEF IsWalk
<1>1. f[k] = front \o <<>> /\ <<>> \in Seq(S)
  BY <1>0, ConcatEmptySeq
<1>2. 1 \in T
  <2>1. k <= 1 => k = 1
    BY <1>0
  <2>2. 1 \in 1..N
    BY <1>0
  <2>3. k = 1 => \E rest \in Seq(S) : f[1] = front \o rest
    BY <1>1
  <2> QED
    BY <2>1, <2>2, <2>3
<1>3. ASSUME NEW i \in 2..N, i - 1 \in T PROVE i \in T
  <2>0. i \in 1..N
    BY <1>0
  <2>1. CASE k <= i - 1
    <3>1. PICK rest \in Seq(S) : f[i - 1] = front \o rest
      BY <1>3, <2>1
    <3>2. k < i
      BY <1>0, <2>1
    <3>3. ss[i] \in Seq(S) /\ f[i] = f[i - 1] \o ss[i]
      BY <3>2 DEF IsWalk
    <3>4. \A b \in Seq(S) : (front \o rest) \o b = front \o (rest \o b) /\ rest \o b \in Seq(S)
      BY <1>0, ConcatThree
    <3>5. f[i] = front \o (rest \o ss[i]) /\ rest \o ss[i] \in Seq(S)
      BY <3>1, <3>3, <3>4
    <3> QED
      BY <2>0, <3>5
  <2>2. CASE ~(k <= i - 1)
    <3>1. k <= i => k = i
      BY <1>0, <2>2
    <3> QED
      BY <1>1, <2>0, <3>1
  <2> QED
    BY <2>1, <2>2
<1>4. N \in T
  <2> HIDE DEF T
  <2>1. 1..N \subseteq T
    BY <1>0, <1>2, <1>3, OneUpInduces
  <2> QED
    BY <1>0, <2>1
<1> QED
  BY <1>0, <1>4 DEF BeginsWith

LEMMA WalkSecond ==
  ASSUME NEW S, NEW N, NEW ss, NEW f, N > 1, IsWalk(f, ss, 1, N, S, ss[1])
  PROVE  IsWalk(f, ss, 2, N, S, ss[1] \o ss[2])
<1>1. N \in Nat /\ 2 \in 1..N /\ 2 \in 2..N /\ 1 < 2 /\ 2 - 1 = 1
  BY DEF IsWalk
<1>2. ss[1] \in Seq(S) /\ f[1] = ss[1]
  BY DEF IsWalk
<1>3. ss[2] \in Seq(S) /\ f[2] = f[2 - 1] \o ss[2]
  BY <1>1 DEF IsWalk
<1>4. f[2] = ss[1] \o ss[2]
  BY <1>1, <1>2, <1>3
<1>5. ss[1] \o ss[2] \in Seq(S)
  BY <1>2, <1>3, ConcatProperties
<1>6. ASSUME NEW i \in 2..N, 2 < i PROVE ss[i] \in Seq(S) /\ f[i] = f[i - 1] \o ss[i]
  <2>1. 1 < i
    BY <1>1, <1>6
  <2> QED
    BY <2>1 DEF IsWalk
<1> QED
  BY <1>1, <1>4, <1>5, <1>6 DEF IsWalk

LEMMA WalkFronts ==
  ASSUME NEW S, NEW N, NEW ss, NEW f, IsWalk(f, ss, 1, N, S, ss[1])
  PROVE  BeginsWith(f[N], ss[1], S) /\ (N > 1 => BeginsWith(f[N], ss[1] \o ss[2], S))
<1>1. BeginsWith(f[N], ss[1], S)
  BY WalkFront
<1>2. ASSUME N > 1 PROVE BeginsWith(f[N], ss[1] \o ss[2], S)
  <2>1. IsWalk(f, ss, 2, N, S, ss[1] \o ss[2])
    BY <1>2, WalkSecond
  <2> QED
    BY <2>1, WalkFront
<1> QED
  BY <1>1, <1>2

Nested(S) == Seq(Seq(S))

LEMMA FlattenFront ==
  ASSUME NEW S, NEW ss \in Nested(S), ss # <<>>
  PROVE  /\ FlattenSeq(ss) \in Seq(S)
         /\ BeginsWith(FlattenSeq(ss), ss[1], S)
         /\ Len(ss) > 1 => BeginsWith(FlattenSeq(ss), ss[1] \o ss[2], S)
         /\ Len(ss) = 1 => FlattenSeq(ss) = ss[1]
<1>1. PICK f \in [1..Len(ss) -> Seq(S)] :
           /\ f[1] = ss[1]
           /\ \A i \in 2..Len(ss) : f[i] = f[i - 1] \o ss[i]
           /\ FlattenSeq(ss) = f[Len(ss)]
  BY FlattenWalk DEF Nested
<1> DEFINE N == Len(ss)
<1>2. N \in Nat /\ N >= 1 /\ \A i \in 1..N : ss[i] \in Seq(S)
  BY EmptySeq, ElementOfSeq DEF Nested
<1>3. f[1] = ss[1] /\ \A i \in 2..N : f[i] = f[i - 1] \o ss[i]
  BY <1>1
<1>4. FlattenSeq(ss) = f[N] /\ (N = 1 => f[N] = ss[1])
  BY <1>1
<1>a. N \in 1..N
  BY <1>2
<1>b. f[N] \in Seq(S)
  <2> HIDE DEF N
  <2> QED
    BY <1>a, <1>1 DEF N
<1>c. f[1] = ss[1] /\ (\A i \in 1..N : ss[i] \in Seq(S)) /\ (\A i \in 2..N : f[i] = f[i - 1] \o ss[i])
  BY <1>2, <1>3
<1>d. N \in Nat /\ N >= 1
  BY <1>2
<1>e. IsWalk(f, ss, 1, N, S, ss[1])
  <2>1. 1 \in 1..N /\ \A i \in 2..N : i \in 1..N
    BY <1>d
  <2>2. ss[1] \in Seq(S) /\ \A i \in 2..N : ss[i] \in Seq(S)
    BY <1>c, <2>1
  <2> HIDE DEF N
  <2> QED
    BY <1>c, <1>d, <2>1, <2>2 DEF IsWalk
<1> HIDE DEF N
<1>5. BeginsWith(f[N], ss[1], S) /\ (N > 1 => BeginsWith(f[N], ss[1] \o ss[2], S))
  BY <1>e, WalkFronts
<1> QED
  BY <1>4, <1>b, <1>5 DEF N


\* Every element of the flattened sequence is one of a sequence in it, and the other way round;
\* the first is the first of the first.
LEMMA FlattenPositions ==
  ASSUME NEW S, NEW ss \in Nested(S), ss # <<>>, \A i \in DOMAIN ss : ss[i] # <<>>
  PROVE  /\ FlattenSeq(ss) \in Seq(S) /\ FlattenSeq(ss) # <<>>
         /\ \A k \in DOMAIN FlattenSeq(ss) : \E i \in DOMAIN ss : \E j \in DOMAIN ss[i] :
              FlattenSeq(ss)[k] = ss[i][j] /\ (k = 1 <=> i = 1 /\ j = 1)
         /\ \A i \in DOMAIN ss : \A j \in DOMAIN ss[i] : \E k \in DOMAIN FlattenSeq(ss) :
              FlattenSeq(ss)[k] = ss[i][j] /\ (k = 1 <=> i = 1 /\ j = 1)
<1>1. PICK f \in [1..Len(ss) -> Seq(S)] :
           /\ f[1] = ss[1]
           /\ \A i \in 2..Len(ss) : f[i] = f[i - 1] \o ss[i]
           /\ FlattenSeq(ss) = f[Len(ss)]
  BY FlattenWalk DEF Nested
<1>2. /\ Len(ss) \in Nat /\ Len(ss) >= 1 /\ DOMAIN ss = 1..Len(ss)
      /\ \A i \in 1..Len(ss) : ss[i] \in Seq(S) /\ Len(ss[i]) \in Nat /\ Len(ss[i]) >= 1
                               /\ DOMAIN ss[i] = 1..Len(ss[i])
  <2>1. \A i \in 1..Len(ss) : ss[i] \in Seq(S)
    BY ElementOfSeq DEF Nested
  <2>2. DOMAIN ss = 1..Len(ss) /\ Len(ss) \in Nat \ {0}
    BY LenProperties, EmptySeq DEF Nested
  <2>3. \A i \in 1..Len(ss) : Len(ss[i]) \in Nat \ {0} /\ DOMAIN ss[i] = 1..Len(ss[i])
    BY <2>1, <2>2, LenProperties, EmptySeq
  <2> QED
    BY <2>1, <2>2, <2>3
<1> DEFINE N == Len(ss)
           flat == FlattenSeq(ss)
<1>3. /\ N \in Nat /\ N >= 1 /\ DOMAIN ss = 1..N
      /\ \A i \in 1..N : ss[i] \in Seq(S) /\ Len(ss[i]) \in Nat /\ Len(ss[i]) >= 1
                         /\ DOMAIN ss[i] = 1..Len(ss[i])
  BY <1>2
<1>4. /\ f[1] = ss[1] /\ \A i \in 2..N : f[i] = f[i - 1] \o ss[i]
      /\ f \in [1..N -> Seq(S)] /\ flat = f[N]
  BY <1>1
<1> HIDE DEF N, flat
<1> DEFINE Into(n) == \A k \in 1..Len(f[n]) : \E i \in 1..n : \E j \in 1..Len(ss[i]) :
                        f[n][k] = ss[i][j] /\ (k = 1 <=> i = 1 /\ j = 1)
           From(n) == \A i \in 1..n : \A j \in 1..Len(ss[i]) : \E k \in 1..Len(f[n]) :
                        f[n][k] = ss[i][j] /\ (k = 1 <=> i = 1 /\ j = 1)
           T == {n \in 1..N : Len(f[n]) >= 1 /\ Into(n) /\ From(n)}
<1>5. 1 \in T
  <2>1. f[1] = ss[1] /\ 1 \in 1..N /\ 1..1 = {1} /\ Len(f[1]) >= 1
    BY <1>3, <1>4
  <2>2. Into(1)
    BY <2>1
  <2>3. From(1)
    BY <2>1
  <2> HIDE DEF Into, From
  <2> QED
    BY <2>1, <2>2, <2>3
<1>6. ASSUME NEW n \in 2..N, n - 1 \in T PROVE n \in T
  <2> DEFINE m == Len(f[n - 1])
             l == Len(ss[n])
             g == f[n - 1]
             h == ss[n]
  <2>1. n \in 1..N /\ n - 1 \in 1..N /\ n \in Nat /\ n # 1
    BY <1>3
  <2>2. g \in Seq(S) /\ h \in Seq(S) /\ l \in Nat /\ l >= 1
    BY <1>3, <1>4, <2>1
  <2>3. m >= 1 /\ Into(n - 1) /\ From(n - 1)
    BY <1>6
  <2>4. m \in Nat
    BY <2>2, LenProperties
  <2>5. f[n] = g \o h
    BY <1>4
  <2>6. f[n] \in Seq(S) /\ Len(f[n]) = m + l
        /\ \A k \in 1..m + l : f[n][k] = IF k <= m THEN g[k] ELSE h[k - m]
    <3> HIDE DEF g, h
    <3>1. g \o h \in Seq(S) /\ Len(g \o h) = Len(g) + Len(h)
          /\ \A k \in 1..Len(g) + Len(h) : (g \o h)[k] = IF k <= Len(g) THEN g[k] ELSE h[k - Len(g)]
      BY <2>2, ConcatProperties
    <3> QED
      BY <2>5, <3>1 DEF g, h
  <2>7. /\ \A k \in 1..m : \E i \in 1..(n - 1) : \E j \in 1..Len(ss[i]) :
              g[k] = ss[i][j] /\ (k = 1 <=> i = 1 /\ j = 1)
        /\ \A i \in 1..(n - 1) : \A j \in 1..Len(ss[i]) : \E k \in 1..m :
              g[k] = ss[i][j] /\ (k = 1 <=> i = 1 /\ j = 1)
    BY <2>3
  <2> HIDE DEF m, l, g
  <2>8. ASSUME NEW k \in 1..m + l
        PROVE  \E i \in 1..n : \E j \in 1..Len(ss[i]) : f[n][k] = ss[i][j] /\ (k = 1 <=> i = 1 /\ j = 1)
    <3>1. CASE k <= m
      <4>1. k \in 1..m /\ f[n][k] = g[k]
        BY <2>4, <2>6, <3>1
      <4>2. PICK i \in 1..(n - 1) : \E j \in 1..Len(ss[i]) :
               g[k] = ss[i][j] /\ (k = 1 <=> i = 1 /\ j = 1)
        BY <2>7, <4>1
      <4>3. i \in 1..n
        BY <2>1
      <4> QED
        BY <4>1, <4>2, <4>3
    <3>2. CASE ~(k <= m)
      <4>1. k - m \in 1..l /\ n \in 1..n /\ k # 1
        BY <2>1, <2>2, <2>3, <2>4, <3>2 DEF m
      <4>2. f[n][k] = ss[n][k - m]
        BY <2>6, <3>2
      <4> QED
        BY <2>1, <4>1, <4>2 DEF l
    <3> QED
      BY <3>1, <3>2
  <2>9. ASSUME NEW i \in 1..n, NEW j \in 1..Len(ss[i])
        PROVE  \E k \in 1..m + l : f[n][k] = ss[i][j] /\ (k = 1 <=> i = 1 /\ j = 1)
    <3>1. CASE i = n
      <4>1. j \in 1..l
        BY <3>1 DEF l
      <4>2. m + j \in 1..m + l /\ ~(m + j <= m) /\ (m + j) - m = j /\ m + j # 1 /\ i # 1
        BY <2>1, <2>2, <2>3, <2>4, <3>1, <4>1 DEF m
      <4>3. f[n][m + j] = ss[i][j]
        BY <2>6, <3>1, <4>2
      <4> QED
        BY <4>2, <4>3
    <3>2. CASE i # n
      <4>1. i \in 1..(n - 1)
        BY <2>1, <3>2
      <4>2. PICK k \in 1..m : g[k] = ss[i][j] /\ (k = 1 <=> i = 1 /\ j = 1)
        BY <2>7, <4>1
      <4>3. k \in 1..m + l /\ k <= m
        BY <2>2, <2>4
      <4>4. f[n][k] = g[k]
        BY <2>6, <4>3
      <4> QED
        BY <4>2, <4>3, <4>4
    <3> QED
      BY <3>1, <3>2
  <2>10. Into(n)
    BY <2>6, <2>8
  <2>11. From(n)
    BY <2>6, <2>9
  <2>12. Len(f[n]) >= 1
    BY <2>2, <2>4, <2>6
  <2> HIDE DEF Into, From
  <2> QED
    BY <2>1, <2>10, <2>11, <2>12
<1> HIDE DEF T
<1>7. 1..N \subseteq T
  BY <1>3, <1>5, <1>6, OneUpInduces
<1>8. N \in T
  BY <1>3, <1>7
<1>9. Len(flat) >= 1 /\ Into(N) /\ From(N)
  BY <1>4, <1>8 DEF T
<1>10. flat \in Seq(S) /\ DOMAIN flat = 1..Len(flat)
  BY <1>3, <1>4, LenProperties
<1>11. flat # <<>>
  BY <1>9, EmptySeq
<1>12. ASSUME NEW k \in DOMAIN flat
       PROVE  \E i \in DOMAIN ss : \E j \in DOMAIN ss[i] : flat[k] = ss[i][j] /\ (k = 1 <=> i = 1 /\ j = 1)
  <2>1. k \in 1..Len(f[N])
    BY <1>4, <1>10
  <2>2. PICK i \in 1..N : \E j \in 1..Len(ss[i]) : f[N][k] = ss[i][j] /\ (k = 1 <=> i = 1 /\ j = 1)
    BY <1>9, <2>1
  <2> QED
    BY <1>3, <1>4, <2>2
<1>13. ASSUME NEW i \in DOMAIN ss, NEW j \in DOMAIN ss[i]
       PROVE  \E k \in DOMAIN flat : flat[k] = ss[i][j] /\ (k = 1 <=> i = 1 /\ j = 1)
  <2>1. i \in 1..N /\ j \in 1..Len(ss[i])
    BY <1>3
  <2>2. From(N)
    BY <1>9
  <2>3. \A j0 \in 1..Len(ss[i]) : \E k \in 1..Len(f[N]) :
          f[N][k] = ss[i][j0] /\ (k = 1 <=> i = 1 /\ j0 = 1)
    BY ONLY <2>1, <2>2 DEF From
  <2>4. PICK k \in 1..Len(f[N]) : f[N][k] = ss[i][j] /\ (k = 1 <=> i = 1 /\ j = 1)
    BY ONLY <2>1, <2>3, Zenon
  <2> QED
    BY <1>4, <1>10, <2>4
<1> QED
  BY <1>10, <1>11, <1>12, <1>13 DEF flat

\* Induction along a sequence.
LEMMA SeqInduces ==
  ASSUME NEW S, NEW T, <<>> \in T, \A e \in S, t \in Seq(S) : t \in T => <<e>> \o t \in T
  PROVE  Seq(S) \subseteq T
<1> DEFINE D == Seq(S)
           rank == [s \in D |-> Len(s)]
<1>1. rank \in [D -> Nat]
  BY LenProperties
<1>2. ASSUME NEW x \in D, \A y \in D : rank[y] < rank[x] => y \in T PROVE x \in T
  <2>1. CASE x = <<>>
    BY <2>1
  <2>2. CASE x # <<>>
    <3>1. Head(x) \in S /\ Tail(x) \in Seq(S) /\ Len(Tail(x)) = Len(x) - 1 /\ Len(x) \in Nat
          /\ x = <<Head(x)>> \o Tail(x)
      BY <2>2, TailIs
    <3>2. rank[Tail(x)] < rank[x]
      BY <3>1
    <3>3. Tail(x) \in T
      BY <1>2, <3>1, <3>2
    <3>4. <<Head(x)>> \o Tail(x) \in T
      BY <3>1, <3>3
    <3> QED
      BY <3>1, <3>4
  <2> QED
    BY <2>1, <2>2
<1> HIDE DEF D, rank
<1>3. D \subseteq T
  BY <1>1, <1>2, RankInduces
<1> QED
  BY <1>3 DEF D

LEMMA ConcatWords ==
  \A a, b, c \in Seq(Words) : (a \o b) \o c = a \o (b \o c) /\ a \o b \in Seq(Words)
<1> SUFFICES ASSUME NEW a \in Seq(Words), NEW b \in Seq(Words), NEW c \in Seq(Words)
             PROVE  (a \o b) \o c = a \o (b \o c) /\ a \o b \in Seq(Words)
  OBVIOUS
<1> QED
  BY ConcatThree

\* What is left of a word: nothing, or the word.
Kept(w) == IF w.kind = "empty" THEN <<>> ELSE <<w>>

\* The words of a set that are not a pair of quotes with nothing in it.
Bare(T) == {w \in T : w.kind # "empty"}

LEMMA FieldsOfNothing == Fields[<<>>] = <<>>
<1>1. <<>> \in Seq(Words)
  OBVIOUS
<1> QED
  BY <1>1, FieldsIs

LEMMA FieldsCons ==
  ASSUME NEW e \in Words, NEW t \in Seq(Words)
  PROVE  Fields[<<e>> \o t] = Kept(e) \o Fields[t]
<1>1. <<e>> \o t \in Seq(Words) /\ <<e>> \o t # <<>> /\ Head(<<e>> \o t) = e /\ Tail(<<e>> \o t) = t
  BY ConsIs
<1> DEFINE s == <<e>> \o t
<1>2. s \in Seq(Words) /\ s # <<>> /\ Head(s) = e /\ Tail(s) = t
  BY <1>1
<1> HIDE DEF s
<1>3. Fields[s] = Kept(e) \o Fields[t]
  BY <1>2, FieldsIs DEF Kept
<1> QED
  BY <1>3 DEF s

LEMMA FieldsType ==
  ASSUME NEW T, T \subseteq Words
  PROVE  \A s \in Seq(T) : Fields[s] \in Seq(Bare(T)) /\ Len(Fields[s]) <= Len(s)
<1> DEFINE U == {s \in Seq(T) : Fields[s] \in Seq(Bare(T)) /\ Len(Fields[s]) <= Len(s)}
<1>1. <<>> \in U
  <2>1. <<>> \in Seq(T) /\ <<>> \in Seq(Bare(T)) /\ Len(<<>>) = 0
    BY EmptySeq
  <2>2. Fields[<<>>] \in Seq(Bare(T))
    BY <2>1, FieldsOfNothing, Zenon
  <2>3. Len(Fields[<<>>]) = 0
    BY <2>1, FieldsOfNothing, Zenon
  <2> QED
    BY <2>1, <2>2, <2>3
<1>2. ASSUME NEW e \in T, NEW t \in Seq(T), t \in U PROVE <<e>> \o t \in U
  <2>1. e \in Words /\ t \in Seq(Words)
    BY SeqMonotonic
  <2>2. Fields[<<e>> \o t] = Kept(e) \o Fields[t]
    BY <2>1, FieldsCons
  <2>3. <<e>> \o t \in Seq(T) /\ Len(<<e>> \o t) = Len(t) + 1
    BY ConsIs
  <2>4. Fields[t] \in Seq(Bare(T)) /\ Len(Fields[t]) <= Len(t) /\ Len(t) \in Nat
    BY <1>2, LenProperties
  <2>5. Len(Fields[t]) \in Nat
    BY <2>4, LenProperties
  <2>6. CASE e.kind = "empty"
    <3>1. Fields[<<e>> \o t] = Fields[t]
      BY <2>2, <2>4, <2>6, ConcatEmptySeq DEF Kept
    <3> QED
      BY <2>3, <2>4, <2>5, <3>1
  <2>7. CASE e.kind # "empty"
    <3>1. Fields[<<e>> \o t] = <<e>> \o Fields[t] /\ e \in Bare(T)
      BY <2>2, <2>7 DEF Kept, Bare
    <3>2. <<e>> \o Fields[t] \in Seq(Bare(T)) /\ Len(<<e>> \o Fields[t]) = Len(Fields[t]) + 1
      BY <2>4, <3>1, ConsIs
    <3>3. Len(Fields[<<e>> \o t]) <= Len(<<e>> \o t)
      BY ONLY <2>3, <2>4, <2>5, <3>1, <3>2
    <3> QED
      BY <2>3, <3>1, <3>2, <3>3
  <2> QED
    BY <2>6, <2>7
<1> HIDE DEF U
<1>3. Seq(T) \subseteq U
  BY <1>1, <1>2, SeqInduces
<1> QED
  BY <1>3 DEF U

LEMMA FieldsKeep ==
  \A s \in Seq(Bare(Words)) : Fields[s] = s
<1> DEFINE U == {s \in Seq(Bare(Words)) : Fields[s] = s}
<1>1. <<>> \in U
  BY FieldsOfNothing
<1>2. ASSUME NEW e \in Bare(Words), NEW t \in Seq(Bare(Words)), t \in U PROVE <<e>> \o t \in U
  <2>1. e \in Words /\ e.kind # "empty" /\ t \in Seq(Words)
    <3>1. Bare(Words) \subseteq Words
      BY DEF Bare
    <3> QED
      BY <3>1, SeqMonotonic DEF Bare
  <2>2. Fields[<<e>> \o t] = <<e>> \o Fields[t]
    BY <2>1, FieldsCons DEF Kept
  <2>3. <<e>> \o t \in Seq(Bare(Words))
    BY ConsIs
  <2> QED
    BY <1>2, <2>2, <2>3
<1> HIDE DEF U
<1>3. Seq(Bare(Words)) \subseteq U
  BY <1>1, <1>2, SeqInduces
<1> QED
  BY <1>3 DEF U

LEMMA FieldsConcat ==
  ASSUME NEW v \in Seq(Words)
  PROVE  \A u \in Seq(Words) : Fields[u \o v] = Fields[u] \o Fields[v]
<1>0. Fields[v] \in Seq(Words) /\ \A u \in Seq(Words) : Fields[u] \in Seq(Words)
  <2>1. Bare(Words) \subseteq Words
    BY DEF Bare
  <2>2. \A u \in Seq(Words) : Fields[u] \in Seq(Bare(Words))
    BY FieldsType
  <2> QED
    BY <2>1, <2>2, SeqMonotonic
<1> DEFINE U == {u \in Seq(Words) : Fields[u \o v] = Fields[u] \o Fields[v]}
<1>1. <<>> \in U
  <2>1. <<>> \o v = v /\ <<>> \o Fields[v] = Fields[v]
    BY <1>0, ConcatEmptySeq
  <2>2. <<>> \in Seq(Words)
    OBVIOUS
  <2>3. Fields[<<>> \o v] = Fields[<<>>] \o Fields[v]
    BY ONLY <2>1, FieldsOfNothing
  <2> QED
    BY <2>2, <2>3
<1>2. ASSUME NEW e \in Words, NEW t \in Seq(Words), t \in U PROVE <<e>> \o t \in U
  <2>1. Fields[<<e>> \o t] = Kept(e) \o Fields[t]
    BY FieldsCons
  <2>2. <<e>> \o t \in Seq(Words) /\ <<e>> \in Seq(Words)
    BY ConsIs
  <2>3. (<<e>> \o t) \o v = <<e>> \o (t \o v) /\ t \o v \in Seq(Words)
    BY <2>2, ConcatThree
  <2>4. Fields[<<e>> \o (t \o v)] = Kept(e) \o Fields[t \o v]
    BY <2>3, FieldsCons
  <2>5. Fields[t \o v] = Fields[t] \o Fields[v]
    BY <1>2
  <2>6. Kept(e) \in Seq(Words)
    BY DEF Kept
  <2>7. Kept(e) \o (Fields[t] \o Fields[v]) = (Kept(e) \o Fields[t]) \o Fields[v]
    <3>1. Fields[t] \in Seq(Words) /\ Fields[v] \in Seq(Words)
      BY <1>0
    <3> QED
      BY <2>6, <3>1, ConcatWords
  <2> QED
    BY <2>1, <2>2, <2>3, <2>4, <2>5, <2>7
<1> HIDE DEF U
<1>3. Seq(Words) \subseteq U
  BY <1>1, <1>2, SeqInduces
<1> QED
  BY <1>3 DEF U

-----------------------------------------------------------------------------
(* Scripts without quoted scripts.                                         *)

SimpleScripts == Nested(SimpleWords)

LEMMA SimpleWordHasNoScript ==
  \A w \in SimpleWords : w.script = <<>> /\ w.kind # "body" /\ w.kind \in Kinds /\ w.place \in Places
  BY DEF SimpleWords

LEMMA SplitSimpleSegment ==
  ASSUME NEW s \in Seq(SimpleWords)
  PROVE  SplitSegment(s) = <<s>>
<1>1. \A i \in DOMAIN s : s[i] \in SimpleWords
  BY ElementOfSeq, LenProperties
<1>2. Len(<<>>) = 0
  BY EmptySeq
<1>3. \A i \in DOMAIN s : ~(Len(s[i].script) > 1)
  <2> SUFFICES ASSUME NEW i \in DOMAIN s PROVE ~(Len(s[i].script) > 1)
    OBVIOUS
  <2>1. s[i].script = <<>>
    BY <1>1, SimpleWordHasNoScript
  <2>2. Len(s[i].script) = 0
    BY <1>2, <2>1, Zenon
  <2> QED
    BY <2>2
<1>4. {i \in DOMAIN s : Len(s[i].script) > 1} = {}
  BY <1>3, Zenon
<1> QED
  BY <1>4, Zenon DEF SplitSegment

LEMMA SplitSimple ==
  ASSUME NEW script \in SimpleScripts
  PROVE  splitShellSegments(script) = script
<1>1. \A i \in DOMAIN script : script[i] \in Seq(SimpleWords)
  BY ElementOfSeq, LenProperties DEF SimpleScripts, Nested
<1>2. \A i \in DOMAIN script : SplitSegment(script[i]) = <<script[i]>>
  BY <1>1, SplitSimpleSegment, Zenon
<1>3. [i \in DOMAIN script |-> SplitSegment(script[i])] = [i \in DOMAIN script |-> <<script[i]>>]
  BY <1>2, Zenon
<1>4. FlattenSeq([i \in DOMAIN script |-> <<script[i]>>]) = script
  BY FlattenSingles DEF SimpleScripts, Nested
<1> QED
  BY <1>3, <1>4, Zenon DEF splitShellSegments

LEMMA ScriptOfIsSimple ==
  ASSUME NEW w \in Words
  PROVE  /\ ScriptOf(w) \in SimpleScripts
         /\ w \in SimpleWords => ScriptOf(w) = <<<<w>>>> /\ <<w>> \in Seq(SimpleWords)
<1>1. CASE w \in SimpleWords
  <2>1. w.kind # "body"
    BY <1>1, SimpleWordHasNoScript
  <2>2. <<w>> \in Seq(SimpleWords)
    BY <1>1
  <2>3. <<<<w>>>> \in Seq(Seq(SimpleWords))
    BY <2>2
  <2> QED
    BY <2>1, <2>2, <2>3 DEF ScriptOf, SimpleScripts, Nested
<1>2. CASE w \notin SimpleWords
  <2>1. w.kind = "body" /\ w.script \in Seq(Seq(SimpleWords))
    BY <1>2 DEF Words
  <2> QED
    BY <1>2, <2>1 DEF ScriptOf, SimpleScripts, Nested
<1> QED
  BY <1>1, <1>2

\* What is behind the flag is a script without quoted scripts; a bare word is one of one word.
LEMMA ShellScriptIs ==
  ASSUME NEW args \in Seq(Words)
  PROVE  \/ extractShellScript(args) = <<>>
         \/ /\ Len(args) >= 2
            /\ \E w \in Words :
                 /\ extractShellScript(args) = ScriptOf(w)
                 /\ args \in Seq(SimpleWords) => w \in SimpleWords
<1> DEFINE at == {i \in DOMAIN args : args[i].text \in ScriptFlags}
<1>1. DOMAIN args = 1..Len(args) /\ Len(args) \in Nat
  BY LenProperties
<1>2. CASE at = {} \/ Min(at) = Len(args)
  BY <1>2 DEF extractShellScript
<1>3. CASE ~(at = {} \/ Min(at) = Len(args))
  <2>0. at \subseteq Nat /\ at # {}
    BY <1>1, <1>3
  <2>1. Min(at) \in at
    <3> HIDE DEF at
    <3> QED
      BY <2>0, MinIs
  <2>2. Min(at) \in 1..Len(args) /\ Min(at) # Len(args)
    BY <1>1, <1>3, <2>1
  <2>3. extractShellScript(args) = ScriptOf(args[Min(at) + 1])
    BY <1>3 DEF extractShellScript
  <2> HIDE DEF at
  <2>4. Min(at) + 1 \in 1..Len(args) /\ Len(args) >= 2
    BY <1>1, <2>2
  <2>5. args[Min(at) + 1] \in Words /\ (args \in Seq(SimpleWords) => args[Min(at) + 1] \in SimpleWords)
    BY <2>4, ElementOfSeq
  <2> QED
    BY <2>3, <2>4, <2>5
<1> QED
  BY <1>2, <1>3

-----------------------------------------------------------------------------
(* Scripts and finds decide by the decisions of the commands in them.      *)

\* What makes a script run without asking.
LEMMA ScriptIsAllowed ==
  ASSUME NEW script, NEW single, DOMAIN splitShellSegments(script) \subseteq Nat
  PROVE  Allowed(ScriptDecision(script, single)) <=>
           /\ ~hasFetchSubstitution(script)
           /\ \A i \in DOMAIN splitShellSegments(script) :
                LET d == SegmentDecision(splitShellSegments(script)[i], i = 1, single)
                IN d = NoCategory \/ Allowed(d)
<1> DEFINE segments == splitShellSegments(script)
           decisions == [i \in DOMAIN segments |-> SegmentDecision(segments[i], i = 1, single)]
           denials == [i \in DOMAIN segments |-> IF Allowed(decisions[i]) THEN NoCategory ELSE decisions[i]]
           last == FirstCategory(decisions, "allow_default")
<1>1. ~Allowed("deny_network_pipe") /\ ~Allowed(NoCategory) /\ Allowed("allow_default")
  BY DEF Allowed, AllowCategories, ReadCategories, WriteCategories, NoCategory
<1>2. \A i \in DOMAIN segments : decisions[i] = SegmentDecision(segments[i], i = 1, single)
  OBVIOUS
<1>3. \A i \in DOMAIN segments : denials[i] = IF Allowed(decisions[i]) THEN NoCategory ELSE decisions[i]
  OBVIOUS
<1>4. DOMAIN decisions = DOMAIN segments /\ DOMAIN denials = DOMAIN segments /\ DOMAIN segments \subseteq Nat
  OBVIOUS
<1>5. ScriptDecision(script, single) =
        IF hasFetchSubstitution(script) THEN "deny_network_pipe" ELSE FirstCategory(denials, last)
  BY DEF ScriptDecision
<1> HIDE DEF segments, decisions, denials, last
<1>6. \/ /\ \A i \in DOMAIN denials : denials[i] = NoCategory
         /\ FirstCategory(denials, last) = last
      \/ \E i \in DOMAIN denials : denials[i] # NoCategory /\ FirstCategory(denials, last) = denials[i]
  BY <1>4, FirstCategoryIs
<1>7. \/ /\ \A i \in DOMAIN decisions : decisions[i] = NoCategory
         /\ last = "allow_default"
      \/ \E i \in DOMAIN decisions : decisions[i] # NoCategory /\ last = decisions[i]
  BY <1>4, FirstCategoryIs DEF last
<1>8. Allowed(FirstCategory(denials, last)) <=> \A i \in DOMAIN segments : decisions[i] = NoCategory \/ Allowed(decisions[i])
  BY <1>1, <1>3, <1>4, <1>6, <1>7
<1> QED
  BY <1>1, <1>2, <1>5, <1>8 DEF segments

LEMMA ScriptDecisionType ==
  ASSUME NEW script, NEW single, DOMAIN splitShellSegments(script) \subseteq Nat,
         \A i \in DOMAIN splitShellSegments(script) :
           SegmentDecision(splitShellSegments(script)[i], i = 1, single) \in Categories \cup {NoCategory}
  PROVE  ScriptDecision(script, single) \in Categories
<1> DEFINE segments == splitShellSegments(script)
           decisions == [i \in DOMAIN segments |-> SegmentDecision(segments[i], i = 1, single)]
           denials == [i \in DOMAIN segments |-> IF Allowed(decisions[i]) THEN NoCategory ELSE decisions[i]]
           last == FirstCategory(decisions, "allow_default")
<1>1. "deny_network_pipe" \in Categories /\ "allow_default" \in Categories
  BY DEF Categories, AllowCategories, DenyCategories, WriteCategories
<1>2. \A i \in DOMAIN segments : decisions[i] \in Categories \cup {NoCategory}
  OBVIOUS
<1>3. \A i \in DOMAIN segments : denials[i] \in Categories \cup {NoCategory}
  BY <1>2
<1>4. DOMAIN decisions = DOMAIN segments /\ DOMAIN denials = DOMAIN segments /\ DOMAIN segments \subseteq Nat
  OBVIOUS
<1>5. ScriptDecision(script, single) =
        IF hasFetchSubstitution(script) THEN "deny_network_pipe" ELSE FirstCategory(denials, last)
  BY DEF ScriptDecision
<1> HIDE DEF segments, decisions, denials, last
<1>6. last \in Categories
  BY <1>1, <1>2, <1>4, FirstCategoryIs DEF last
<1>7. FirstCategory(denials, last) \in Categories
  BY <1>3, <1>4, <1>6, FirstCategoryIs
<1> QED
  BY <1>1, <1>5, <1>7

LEMMA ScriptDecisionSame ==
  ASSUME NEW script, NEW g, NEW h,
         \A i \in DOMAIN splitShellSegments(script) :
           SegmentDecision(splitShellSegments(script)[i], i = 1, g)
             = SegmentDecision(splitShellSegments(script)[i], i = 1, h)
  PROVE  ScriptDecision(script, g) = ScriptDecision(script, h)
<1>1. [i \in DOMAIN splitShellSegments(script) |-> SegmentDecision(splitShellSegments(script)[i], i = 1, g)]
      = [i \in DOMAIN splitShellSegments(script) |-> SegmentDecision(splitShellSegments(script)[i], i = 1, h)]
  BY Zenon
<1> QED
  BY <1>1, Zenon DEF ScriptDecision

LEMMA ExecBodyIs ==
  ASSUME NEW args \in Seq(Words), NEW i \in DOMAIN args
  PROVE  /\ ExecEnd(args, i) \in i + 1..Len(args) + 1
         /\ SubSeq(args, i + 1, ExecEnd(args, i) - 1) \in PartsOf(args)
         /\ Len(SubSeq(args, i + 1, ExecEnd(args, i) - 1)) < Len(args)
<1> DEFINE marks == {k \in i + 1..Len(args) : args[k].text \in EndMarks} \cup {Len(args) + 1}
           n == ExecEnd(args, i) - 1
<1>1. DOMAIN args = 1..Len(args) /\ Len(args) \in Nat /\ i \in Nat \ {0} /\ i <= Len(args)
  BY LenProperties
<1>2. marks \subseteq Nat /\ marks # {} /\ marks \subseteq i + 1..Len(args) + 1
  BY <1>1
<1>3. ExecEnd(args, i) = Min(marks)
  BY DEF ExecEnd
<1> HIDE DEF marks
<1>4. ExecEnd(args, i) \in marks
  BY <1>2, <1>3, MinIs
<1>5. ExecEnd(args, i) \in i + 1..Len(args) + 1
  BY <1>2, <1>4
<1>6. n \in Int /\ n <= Len(args) /\ i + 1 \in Nat \ {0}
  BY <1>1, <1>5
<1> HIDE DEF n
<1>7. SubSeq(args, i + 1, n) \in PartsOf(args) /\ Len(SubSeq(args, i + 1, n)) = IF i + 1 <= n THEN n - (i + 1) + 1 ELSE 0
  BY <1>6, SubSeqIsPart
<1>8. Len(SubSeq(args, i + 1, n)) < Len(args)
  BY <1>1, <1>6, <1>7
<1> QED
  BY <1>5, <1>7, <1>8 DEF n

\* What makes a find run without asking.
LEMMA FindIsAllowed ==
  ASSUME NEW args \in Seq(Words), NEW single,
         \A i \in DOMAIN args : ActionDecision(args, i, single) \in Categories
  PROVE  /\ evaluatePolicyFind(args, single) \in Categories
         /\ Allowed(evaluatePolicyFind(args, single)) <=>
              \A i \in FindActions(args) : Allowed(ActionDecision(args, i, single))
<1> DEFINE d(i) == ActionDecision(args, i, single)
           denials == [i \in DOMAIN args |-> IF i \notin FindActions(args) \/ Allowed(d(i)) THEN NoCategory ELSE d(i)]
<1>1. "allow_read" \in Categories /\ Allowed("allow_read") /\ ~Allowed(NoCategory)
  BY DEF Categories, AllowCategories, ReadCategories, WriteCategories, Allowed, NoCategory
<1>2. DOMAIN denials = DOMAIN args /\ DOMAIN denials \subseteq Nat
  BY LenProperties
<1>3. \A i \in DOMAIN args : d(i) \in Categories
  OBVIOUS
<1>4. \A i \in DOMAIN args : denials[i] = IF i \notin FindActions(args) \/ Allowed(d(i)) THEN NoCategory ELSE d(i)
  OBVIOUS
<1>5. FindActions(args) \subseteq DOMAIN args
  BY DEF FindActions
<1>6. evaluatePolicyFind(args, single) = FirstCategory(denials, "allow_read")
  BY DEF evaluatePolicyFind
<1> HIDE DEF denials, d
<1>7. \/ /\ \A i \in DOMAIN denials : denials[i] = NoCategory
         /\ FirstCategory(denials, "allow_read") = "allow_read"
      \/ \E i \in DOMAIN denials : denials[i] # NoCategory /\ FirstCategory(denials, "allow_read") = denials[i]
  BY <1>2, FirstCategoryIs
<1>8. Allowed(FirstCategory(denials, "allow_read")) <=> \A i \in FindActions(args) : Allowed(d(i))
  BY <1>1, <1>2, <1>3, <1>4, <1>5, <1>7, NoCategoryIsNone
<1>9. FirstCategory(denials, "allow_read") \in Categories
  BY <1>1, <1>2, <1>3, <1>4, <1>7
<1> QED
  BY <1>6, <1>8, <1>9 DEF d

LEMMA FindSame ==
  ASSUME NEW args, NEW g, NEW h,
         \A i \in DOMAIN args : ActionDecision(args, i, g) = ActionDecision(args, i, h)
  PROVE  evaluatePolicyFind(args, g) = evaluatePolicyFind(args, h)
<1>1. [i \in DOMAIN args |-> IF i \notin FindActions(args) \/ Allowed(ActionDecision(args, i, g))
                           THEN NoCategory ELSE ActionDecision(args, i, g)]
      = [i \in DOMAIN args |-> IF i \notin FindActions(args) \/ Allowed(ActionDecision(args, i, h))
                           THEN NoCategory ELSE ActionDecision(args, i, h)]
  BY Zenon
<1> QED
  BY <1>1, Zenon DEF evaluatePolicyFind

-----------------------------------------------------------------------------
(* The decision on a command: it exists, and is a category.                *)

\* The commands the decision on one can depend on.
Below(args) ==
  {y \in Commandlines :
     /\ y \in Seq(SimpleWords) \/ Len(y) < Len(args)
     /\ args \in Seq(SimpleWords) => y \in Seq(SimpleWords) /\ Len(y) < Len(args)}

LEMMA FieldsOfSimple ==
  ASSUME NEW s \in Seq(SimpleWords)
  PROVE  Fields[s] \in Seq(SimpleWords) /\ Fields[s] \in Seq(Words) /\ Len(Fields[s]) <= Len(s)
<1>1. Fields[s] \in Seq(Bare(SimpleWords)) /\ Len(Fields[s]) <= Len(s)
  BY FieldsType, SimpleWordsAreWords
<1>2. Bare(SimpleWords) \subseteq SimpleWords
  BY DEF Bare
<1>3. Fields[s] \in Seq(SimpleWords)
  BY <1>1, <1>2, SeqMonotonic
<1> QED
  BY <1>1, <1>3, SimpleWordsAreWords

LEMMA ShellSegmentIsBelow ==
  ASSUME NEW args \in Seq(Words), extractShellScript(args) # <<>>,
         NEW i \in DOMAIN extractShellScript(args)
  PROVE  Fields[extractShellScript(args)[i]] \in Below(args) \cup {<<>>}
<1> DEFINE script == extractShellScript(args)
           segment == script[i]
           words == Fields[segment]
<1>1. PICK w \in Words : script = ScriptOf(w) /\ (args \in Seq(SimpleWords) => w \in SimpleWords)
  BY ShellScriptIs
<1>2. Len(args) >= 2 /\ Len(args) \in Nat
  BY ShellScriptIs, LenProperties
<1>3. script \in SimpleScripts
  BY <1>1, ScriptOfIsSimple
<1>4. segment \in Seq(SimpleWords)
  <2> HIDE DEF script
  <2>1. i \in DOMAIN script
    BY DEF script
  <2> QED
    BY <1>3, <2>1, ElementOfSeq, LenProperties DEF SimpleScripts, Nested
<1>5. ASSUME args \in Seq(SimpleWords) PROVE Len(segment) = 1
  <2>1. w \in SimpleWords
    BY <1>1, <1>5
  <2>2. script = <<<<w>>>>
    BY <1>1, <2>1, ScriptOfIsSimple
  <2>3. i = 1
    BY <2>2
  <2>4. segment = <<w>>
    BY <2>2, <2>3
  <2> QED
    BY <2>4
<1> HIDE DEF segment, script
<1>6. words \in Seq(SimpleWords) /\ words \in Seq(Words) /\ Len(words) <= Len(segment)
  BY <1>4, FieldsOfSimple
<1>7. Len(words) \in Nat /\ Len(segment) \in Nat
  BY <1>4, <1>6, LenProperties
<1> HIDE DEF words
<1>8. args \in Seq(SimpleWords) => Len(words) < Len(args)
  <2> SUFFICES ASSUME args \in Seq(SimpleWords) PROVE Len(words) < Len(args)
    OBVIOUS
  <2>1. Len(segment) = 1
    BY <1>5
  <2> QED
    BY ONLY <2>1, <1>2, <1>6, <1>7
<1>9. words \in Below(args) \cup {<<>>}
  BY <1>6, <1>8 DEF Below, Commandlines
<1> QED
  BY <1>9 DEF words, segment, script

LEMMA ExecBodyIsBelow ==
  ASSUME NEW args \in Seq(Words), NEW i \in DOMAIN args
  PROVE  SubSeq(args, i + 1, ExecEnd(args, i) - 1) \in Below(args) \cup {<<>>}
<1> DEFINE body == SubSeq(args, i + 1, ExecEnd(args, i) - 1)
<1>1. body \in PartsOf(args) /\ Len(body) < Len(args)
  BY ExecBodyIs
<1> HIDE DEF body
<1>2. body \in Below(args) \cup {<<>>}
  BY <1>1 DEF Below, PartsOf, Commandlines
<1> QED
  BY <1>2 DEF body

LEMMA CommandDecisionSame ==
  ASSUME NEW executable, NEW args \in Seq(Words), NEW g, NEW h,
         \A y \in Below(args) : g[y] = h[y]
  PROVE  CommandDecision(executable, args, g) = CommandDecision(executable, args, h)
<1>1. ASSUME extractShellScript(args) # <<>>
      PROVE  ScriptDecision(extractShellScript(args), g) = ScriptDecision(extractShellScript(args), h)
  <2> DEFINE script == extractShellScript(args)
  <2>1. script \in SimpleScripts
    BY <1>1, ShellScriptIs, ScriptOfIsSimple
  <2>2. \A i \in DOMAIN script : Fields[script[i]] \in Below(args) \cup {<<>>}
    BY <1>1, ShellSegmentIsBelow
  <2> HIDE DEF script
  <2>3. splitShellSegments(script) = script
    BY <2>1, SplitSimple
  <2>4. ASSUME NEW i \in DOMAIN script
        PROVE  SegmentDecision(script[i], i = 1, g) = SegmentDecision(script[i], i = 1, h)
    <3>1. Fields[script[i]] = <<>> \/ g[Fields[script[i]]] = h[Fields[script[i]]]
      BY <2>2
    <3> QED
      BY <3>1, Zenon DEF SegmentDecision
  <2>5. \A i \in DOMAIN splitShellSegments(script) :
           SegmentDecision(splitShellSegments(script)[i], i = 1, g)
             = SegmentDecision(splitShellSegments(script)[i], i = 1, h)
    BY <2>3, <2>4, Zenon
  <2>6. ScriptDecision(script, g) = ScriptDecision(script, h)
    BY <2>5, ScriptDecisionSame
  <2> QED
    BY <2>6 DEF script
<1>2. evaluatePolicyFind(args, g) = evaluatePolicyFind(args, h)
  <2>1. ASSUME NEW i \in DOMAIN args PROVE ActionDecision(args, i, g) = ActionDecision(args, i, h)
    <3>1. SubSeq(args, i + 1, ExecEnd(args, i) - 1) \in Below(args) \cup {<<>>}
      BY ExecBodyIsBelow
    <3>2. \/ SubSeq(args, i + 1, ExecEnd(args, i) - 1) = <<>>
          \/ g[SubSeq(args, i + 1, ExecEnd(args, i) - 1)] = h[SubSeq(args, i + 1, ExecEnd(args, i) - 1)]
      BY <3>1
    <3> QED
      BY <3>2, Zenon DEF ActionDecision
  <2> QED
    BY <2>1, FindSame
<1> QED
  BY <1>1, <1>2, Zenon DEF CommandDecision

LEMMA CommandDecisionType ==
  ASSUME NEW executable, NEW args \in Seq(Words), NEW g,
         \A y \in Below(args) : g[y] \in Categories
  PROVE  /\ CommandDecision(executable, args, g) \in Categories
         /\ \A i \in DOMAIN args : ActionDecision(args, i, g) \in Categories
<1>1. {"deny_network_pipe", "deny_inline_script", "deny_unparseable", "deny_dangerous_fs"} \subseteq Categories
  BY DEF Categories, DenyCategories
<1>2. ASSUME extractShellScript(args) # <<>>
      PROVE  ScriptDecision(extractShellScript(args), g) \in Categories
  <2> DEFINE script == extractShellScript(args)
  <2>1. script \in SimpleScripts
    BY <1>2, ShellScriptIs, ScriptOfIsSimple
  <2>2. \A i \in DOMAIN script : Fields[script[i]] \in Below(args) \cup {<<>>}
    BY <1>2, ShellSegmentIsBelow
  <2> HIDE DEF script
  <2>3. splitShellSegments(script) = script /\ DOMAIN script \subseteq Nat
    BY <2>1, SplitSimple, LenProperties DEF SimpleScripts, Nested
  <2>4. ASSUME NEW i \in DOMAIN script
        PROVE  SegmentDecision(script[i], i = 1, g) \in Categories \cup {NoCategory}
    <3>1. Fields[script[i]] = <<>> \/ g[Fields[script[i]]] \in Categories
      BY <2>2
    <3> QED
      BY <1>1, <3>1 DEF SegmentDecision
  <2>5. \A i \in DOMAIN splitShellSegments(script) :
           SegmentDecision(splitShellSegments(script)[i], i = 1, g) \in Categories \cup {NoCategory}
    BY <2>3, <2>4, Zenon
  <2>6. ScriptDecision(script, g) \in Categories
    BY <2>3, <2>5, ScriptDecisionType
  <2> QED
    BY <2>6 DEF script
<1>3. ASSUME NEW i \in DOMAIN args PROVE ActionDecision(args, i, g) \in Categories
  <2>1. SubSeq(args, i + 1, ExecEnd(args, i) - 1) \in Below(args) \cup {<<>>}
    BY ExecBodyIsBelow
  <2>2. \/ SubSeq(args, i + 1, ExecEnd(args, i) - 1) = <<>>
        \/ g[SubSeq(args, i + 1, ExecEnd(args, i) - 1)] \in Categories
    BY <2>1
  <2> QED
    BY <1>1, <2>2 DEF ActionDecision
<1>4. evaluatePolicyFind(args, g) \in Categories
  BY <1>3, FindIsAllowed
<1>5. checkOperandPathPolicy(args) # NoCategory => checkOperandPathPolicy(args) \in Categories
  BY PlaceDecision DEF Categories
<1>6. ASSUME \E c \in DOMAIN AlwaysDenied : executable \in AlwaysDenied[c]
      PROVE  (CHOOSE c \in DOMAIN AlwaysDenied : executable \in AlwaysDenied[c]) \in Categories
  <2>1. (CHOOSE c \in DOMAIN AlwaysDenied : executable \in AlwaysDenied[c]) \in DOMAIN AlwaysDenied
    BY <1>6, Zenon
  <2>2. DOMAIN AlwaysDenied \subseteq Categories
    BY DEF AlwaysDenied, Categories, DenyCategories
  <2> QED
    BY <2>1, <2>2, Zenon
<1>7. ExecutableDecision(executable, args) \in Categories
  BY ExecutableDecisionType
<1> HIDE DEF Categories
<1>8. CommandDecision(executable, args, g) \in Categories
  BY <1>1, <1>2, <1>4, <1>5, <1>6, <1>7 DEF CommandDecision
<1> QED
  BY <1>3, <1>8

SimpleCommandlines == Seq(SimpleWords) \ {<<>>}

\* The decision on a command, once those on other commands are known.
Decision(x, g) ==
  CommandDecision(Head(peelCommandWrappers[x]).text, Tail(peelCommandWrappers[x]), g)

LEMMA SimpleCommandlinesAre ==
  SimpleCommandlines \subseteq Commandlines /\ SimpleCommandlines = Commandlines \cap Seq(SimpleWords)
  BY SimpleWordsAreWords DEF SimpleCommandlines, Commandlines

LEMMA BelowPeeled ==
  ASSUME NEW x \in Commandlines
  PROVE  /\ Tail(peelCommandWrappers[x]) \in Seq(Words)
         /\ \A y \in Below(Tail(peelCommandWrappers[x])) :
              /\ y \in SimpleCommandlines \/ (y \in Commandlines /\ CommandRank[y] < CommandRank[x])
              /\ x \in SimpleCommandlines => y \in SimpleCommandlines /\ CommandRank[y] < CommandRank[x]
<1> DEFINE p == peelCommandWrappers[x]
           t == Tail(p)
<1>1. p \in Commandlines \cap PartsOf(x)
  BY PeelIsPart
<1>2. p \in Seq(Words) /\ p # <<>> /\ Len(p) <= Len(x) /\ (x \in Seq(SimpleWords) => p \in Seq(SimpleWords))
  BY <1>1 DEF PartsOf, Commandlines
<1> HIDE DEF p
<1>3. t \in PartsOf(p) /\ Len(t) < Len(p)
  BY <1>2, TailIsPart
<1>4. t \in Seq(Words) /\ (x \in Seq(SimpleWords) => t \in Seq(SimpleWords))
  BY <1>2, <1>3 DEF PartsOf
<1>5. Len(t) \in Nat /\ Len(p) \in Nat /\ Len(x) \in Nat /\ Len(t) < Len(x)
  <2>1. Len(t) \in Nat /\ Len(p) \in Nat /\ Len(x) \in Nat
    BY <1>2, <1>4, LenProperties DEF Commandlines
  <2> QED
    BY <2>1, <1>2, <1>3
<1> HIDE DEF t
<1>6. ASSUME NEW y \in Below(t)
      PROVE  /\ y \in SimpleCommandlines \/ (y \in Commandlines /\ CommandRank[y] < CommandRank[x])
             /\ x \in SimpleCommandlines => y \in SimpleCommandlines /\ CommandRank[y] < CommandRank[x]
  <2>1. y \in Commandlines /\ Len(y) \in Nat
    BY LenProperties DEF Below, Commandlines
  <2>2. CommandRank[y] = Len(y) /\ CommandRank[x] = Len(x)
    BY <2>1 DEF CommandRank
  <2>3. Len(y) < Len(t) => CommandRank[y] < CommandRank[x]
    BY <1>5, <2>1, <2>2
  <2>4. x \in SimpleCommandlines => t \in Seq(SimpleWords)
    BY <1>4 DEF SimpleCommandlines
  <2>5. y \in SimpleCommandlines <=> y \in Seq(SimpleWords)
    BY <2>1, SimpleCommandlinesAre
  <2>6. /\ y \in Seq(SimpleWords) \/ Len(y) < Len(t)
        /\ t \in Seq(SimpleWords) => y \in Seq(SimpleWords) /\ Len(y) < Len(t)
    BY DEF Below
  <2> QED
    BY ONLY <2>1, <2>3, <2>4, <2>5, <2>6
<1> QED
  BY <1>4, <1>6 DEF t, p

\* First for the commands without a quoted script.
LEMMA SimpleDecisionsExist ==
  \E f \in [SimpleCommandlines -> Categories] : \A x \in SimpleCommandlines : f[x] = Decision(x, f)
<1> DEFINE D == SimpleCommandlines
           C == Categories
           rank == [x \in D |-> CommandRank[x]]
           step == [x \in D |-> [g \in [D -> C] |-> Decision(x, g)]]
<1>1. rank \in [D -> Nat]
  BY CommandRanks, SimpleCommandlinesAre
<1>2. ASSUME NEW x \in D
      PROVE  /\ Tail(peelCommandWrappers[x]) \in Seq(Words)
             /\ \A y \in Below(Tail(peelCommandWrappers[x])) : y \in D /\ rank[y] < rank[x]
  <2>1. x \in Commandlines
    BY SimpleCommandlinesAre
  <2> QED
    BY <2>1, BelowPeeled
<1>3. "allow_default" \in C
  BY DEF Categories, AllowCategories, WriteCategories
<1> HIDE DEF D, C, rank
<1>4. ASSUME NEW x \in D, NEW g \in [D -> C] PROVE Decision(x, g) \in C
  <2>1. \A y \in Below(Tail(peelCommandWrappers[x])) : g[y] \in Categories
    BY <1>2 DEF C
  <2> QED
    BY <1>2, <2>1, CommandDecisionType DEF Decision, C
<1>5. ASSUME NEW x \in D, NEW g, NEW h, \A y \in D : rank[y] < rank[x] => g[y] = h[y]
      PROVE  Decision(x, g) = Decision(x, h)
  <2>1. \A y \in Below(Tail(peelCommandWrappers[x])) : g[y] = h[y]
    BY <1>2, <1>5
  <2> QED
    BY <1>2, <2>1, CommandDecisionSame DEF Decision
<1>6. step \in [D -> [[D -> C] -> C]]
  BY <1>4
<1>7. \A x \in D, g \in [D -> C] : step[x][g] = Decision(x, g)
  OBVIOUS
<1> HIDE DEF step
<1>8. IsRecursion(D, C, rank, step)
  <2> SUFFICES ASSUME NEW x \in D, NEW g \in [D -> C], NEW h \in [D -> C],
                      \A y \in D : rank[y] < rank[x] => g[y] = h[y]
               PROVE  step[x][g] = step[x][h]
    BY <1>1, <1>6 DEF IsRecursion
  <2>1. Decision(x, g) = Decision(x, h)
    BY <1>5
  <2> QED
    BY <1>7, <2>1
<1>9. PICK f : IsSolution(f, D, C, step)
  BY <1>3, <1>8, RankedFunctionExists
<1>10. f \in [D -> C] /\ \A x \in D : f[x] = Decision(x, f)
  BY <1>7, <1>9 DEF IsSolution
<1> QED
  BY <1>10 DEF D, C

\* Then for those with one.
LEMMA DecisionsExist ==
  \E f \in [Commandlines -> Categories] : \A x \in Commandlines : f[x] = Decision(x, f)
<1>1. PICK s \in [SimpleCommandlines -> Categories] : \A x \in SimpleCommandlines : s[x] = Decision(x, s)
  BY SimpleDecisionsExist
<1> DEFINE D == Commandlines
           C == Categories
           E == SimpleCommandlines
           With(g) == [y \in D |-> IF y \in E THEN s[y] ELSE g[y]]
           Value(x, g) == IF x \in E THEN s[x] ELSE Decision(x, With(g))
           step == [x \in D |-> [g \in [D -> C] |-> Value(x, g)]]
<1>2. CommandRank \in [D -> Nat] /\ E \subseteq D
  BY CommandRanks, SimpleCommandlinesAre
<1>3. ASSUME NEW x \in D
      PROVE  /\ Tail(peelCommandWrappers[x]) \in Seq(Words)
             /\ \A y \in Below(Tail(peelCommandWrappers[x])) : y \in E \/ (y \in D /\ CommandRank[y] < CommandRank[x])
             /\ x \in E => \A y \in Below(Tail(peelCommandWrappers[x])) : y \in E
  BY BelowPeeled
<1>4. "allow_default" \in C
  BY DEF Categories, AllowCategories, WriteCategories
<1>5. s \in [E -> C] /\ \A x \in E : s[x] = Decision(x, s)
  BY <1>1
<1> HIDE DEF D, C, E
<1>6. ASSUME NEW x \in D, NEW g \in [D -> C] PROVE Value(x, g) \in C
  <2>1. With(g) \in [D -> C]
    BY <1>5
  <2> HIDE DEF With
  <2>2. \A y \in Below(Tail(peelCommandWrappers[x])) : With(g)[y] \in Categories
    BY <1>2, <1>3, <2>1 DEF C
  <2>3. Decision(x, With(g)) \in C
    BY <1>3, <2>2, CommandDecisionType DEF Decision, C
  <2> QED
    BY <1>5, <2>3
<1>7. ASSUME NEW x \in D, NEW g, NEW h, \A y \in D : CommandRank[y] < CommandRank[x] => g[y] = h[y]
      PROVE  Value(x, g) = Value(x, h)
  <2>1. \A y \in D : y \in E \/ CommandRank[y] < CommandRank[x] => With(g)[y] = With(h)[y]
    BY <1>7
  <2> HIDE DEF With
  <2>2. \A y \in Below(Tail(peelCommandWrappers[x])) : With(g)[y] = With(h)[y]
    BY <1>2, <1>3, <2>1
  <2>3. Decision(x, With(g)) = Decision(x, With(h))
    BY <1>3, <2>2, CommandDecisionSame DEF Decision
  <2> QED
    BY <2>3
<1> HIDE DEF Value
<1>8. step \in [D -> [[D -> C] -> C]]
  BY <1>6
<1>9. \A x \in D, g \in [D -> C] : step[x][g] = Value(x, g)
  OBVIOUS
<1> HIDE DEF step
<1>10. IsRecursion(D, C, CommandRank, step)
  <2> SUFFICES ASSUME NEW x \in D, NEW g \in [D -> C], NEW h \in [D -> C],
                      \A y \in D : CommandRank[y] < CommandRank[x] => g[y] = h[y]
               PROVE  step[x][g] = step[x][h]
    BY <1>2, <1>8 DEF IsRecursion
  <2>1. Value(x, g) = Value(x, h)
    BY <1>7
  <2> QED
    BY <1>9, <2>1
<1>11. PICK f : IsSolution(f, D, C, step)
  BY <1>4, <1>10, RankedFunctionExists
<1>12. f \in [D -> C] /\ \A x \in D : f[x] = Value(x, f)
  BY <1>9, <1>11 DEF IsSolution
<1>13. \A x \in E : f[x] = s[x]
  BY <1>2, <1>12 DEF Value
<1>14. ASSUME NEW x \in D PROVE f[x] = Decision(x, f)
  <2>1. CASE x \in E
    <3>1. \A y \in Below(Tail(peelCommandWrappers[x])) : s[y] = f[y]
      BY <1>3, <1>13, <2>1
    <3>2. Decision(x, s) = Decision(x, f)
      BY <1>3, <3>1, CommandDecisionSame DEF Decision
    <3> QED
      BY <1>5, <1>13, <2>1, <3>2
  <2>2. CASE x \notin E
    <3>1. \A y \in D : With(f)[y] = f[y]
      BY <1>13
    <3> HIDE DEF With
    <3>2. \A y \in Below(Tail(peelCommandWrappers[x])) : With(f)[y] = f[y]
      BY <1>2, <1>3, <3>1
    <3>3. Decision(x, With(f)) = Decision(x, f)
      BY <1>3, <3>2, CommandDecisionSame DEF Decision
    <3> QED
      BY <1>12, <2>2, <3>3 DEF Value
  <2> QED
    BY <2>1, <2>2
<1> QED
  BY <1>12, <1>14 DEF D, C

\* evaluatePolicySingle terminates on every command, and gives it a category.
LEMMA SingleIs ==
  \A x \in Commandlines :
    evaluatePolicySingle[x] = Decision(x, evaluatePolicySingle) /\ evaluatePolicySingle[x] \in Categories
<1>1. PICK f \in [Commandlines -> Categories] : \A x \in Commandlines : f[x] = Decision(x, f)
  BY DecisionsExist
<1>2. f = [x \in Commandlines |-> Decision(x, f)]
  BY <1>1
<1> DEFINE Single == CHOOSE g : g = [x \in Commandlines |-> Decision(x, g)]
<1>3. Single = [x \in Commandlines |-> Decision(x, Single)]
  BY <1>2, Zenon
<1>4. evaluatePolicySingle = Single
  BY DEF evaluatePolicySingle, Decision
<1> HIDE DEF Single
<1>5. \A x \in Commandlines : Single[x] = Decision(x, Single)
  BY <1>3, Zenon
<1>6. ASSUME NEW x \in Commandlines, \A y \in Below(Tail(peelCommandWrappers[x])) : Single[y] \in Categories
      PROVE  Single[x] \in Categories
  <2>1. Decision(x, Single) \in Categories
    BY <1>6, BelowPeeled, CommandDecisionType DEF Decision
  <2> QED
    BY <1>5, <2>1
<1> DEFINE E == SimpleCommandlines
           rank == [x \in E |-> CommandRank[x]]
           T == {x \in Commandlines : Single[x] \in Categories}
<1>7. rank \in [E -> Nat] /\ E \subseteq Commandlines
  BY CommandRanks, SimpleCommandlinesAre
<1>8. ASSUME NEW x \in E, \A y \in E : rank[y] < rank[x] => y \in T PROVE x \in T
  <2>1. \A y \in Below(Tail(peelCommandWrappers[x])) : y \in E /\ rank[y] < rank[x]
    BY <1>7, BelowPeeled
  <2> QED
    BY <1>6, <1>7, <1>8, <2>1
<1>9. E \subseteq T
  <2> HIDE DEF E, rank, T
  <2> QED
    BY <1>7, <1>8, RankInduces
<1>10. ASSUME NEW x \in Commandlines, \A y \in Commandlines : CommandRank[y] < CommandRank[x] => y \in T
       PROVE  x \in T
  <2>1. \A y \in Below(Tail(peelCommandWrappers[x])) : y \in E \/ (y \in Commandlines /\ CommandRank[y] < CommandRank[x])
    BY BelowPeeled
  <2> QED
    BY <1>6, <1>9, <1>10, <2>1
<1>11. Commandlines \subseteq T
  <2> HIDE DEF T, E
  <2> QED
    BY <1>10, CommandRanks, RankInduces
<1> QED
  BY <1>4, <1>5, <1>11

-----------------------------------------------------------------------------
(* A wrapper does not change what a command is.                            *)

LEMMA WordIs ==
  ASSUME NEW text, NEW kind, NEW place
  PROVE  /\ Word(text, kind, place).text = text /\ Word(text, kind, place).kind = kind
         /\ Word(text, kind, place).place = place /\ Word(text, kind, place).script = <<>>
  BY DEF Word

LEMMA SkipStops ==
  ASSUME NEW kinds, NEW valued, NEW p \in Seq(Words), p # <<>>, Head(p).kind \notin kinds
  PROVE  SkipLeading(p, kinds, valued) = p
  BY SkipLeadingIs

LEMMA SkipOne ==
  ASSUME NEW kinds, NEW valued, NEW p \in Seq(Words), NEW w \in Words,
         w.kind \in kinds, w.text \notin valued
  PROVE  SkipLeading(<<w>> \o p, kinds, valued) = SkipLeading(p, kinds, valued)
<1> DEFINE s == <<w>> \o p
<1>1. s \in Seq(Words) /\ s # <<>> /\ Head(s) = w /\ Tail(s) = p
  BY ConsIs
<1> HIDE DEF s
<1>2. SkipLeading(s, kinds, valued) = SkipLeading(p, kinds, valued)
  BY <1>1, SkipLeadingIs
<1> QED
  BY <1>2 DEF s

LEMMA SkipTwo ==
  ASSUME NEW kinds, NEW valued, NEW p \in Seq(Words), NEW w \in Words, NEW v \in Words,
         w.kind \in kinds, w.text \in valued
  PROVE  SkipLeading(<<w>> \o (<<v>> \o p), kinds, valued) = SkipLeading(p, kinds, valued)
<1> DEFINE r == <<v>> \o p
           s == <<w>> \o r
<1>1. r \in Seq(Words) /\ r # <<>> /\ Tail(r) = p /\ Len(r) = Len(p) + 1
  BY ConsIs
<1>2. Len(p) \in Nat
  BY LenProperties
<1> HIDE DEF r
<1>3. s \in Seq(Words) /\ s # <<>> /\ Head(s) = w /\ Tail(s) = r /\ Len(s) = Len(r) + 1
  BY <1>1, ConsIs
<1>4. Len(s) >= 2
  BY <1>1, <1>2, <1>3
<1> HIDE DEF s
<1>5. SkipLeading(s, kinds, valued) = SkipLeading(Tail(Tail(s)), kinds, valued)
  BY <1>3, <1>4, SkipLeadingIs
<1> QED
  BY <1>1, <1>3, <1>5 DEF s, r

\* The words of the wrappers, of the shells and of find.
LEMMA WordsUsed ==
  /\ {Plain("env"), Plain("nohup"), Plain("time"), Plain("nice"), Plain("5"), Plain("timeout"),
      Plain("1"), Plain("xargs"), Plain("bash"), Plain("find"), Plain("."), Plain("+")} \subseteq SimpleWords
  /\ {Flag("-n"), Flag("-k"), Flag("-c"), Flag("-lc"), Flag("-exec")} \subseteq SimpleWords
  /\ Word("A=1", "assign", "none") \in SimpleWords
<1>1. \A text \in {"env", "nohup", "time", "nice", "5", "timeout", "1", "xargs", "bash", "find", ".", "+",
                   "-n", "-k", "-c", "-lc", "-exec"} : Plain(text) \in SimpleWords /\ Flag(text) \in SimpleWords
  BY TextsAssumption, PlainIsSimple
<1>2. "A=1" \in Texts /\ "assign" \in Kinds \ {"body"} /\ "none" \in Places
  BY TextsAssumption DEF Kinds, Places
<1>3. Word("A=1", "assign", "none") \in SimpleWords
  BY <1>2 DEF Word, SimpleWords
<1> QED
  BY <1>1, <1>3

LEMMA ConsWord ==
  ASSUME NEW a \in Words, NEW p \in Seq(Words)
  PROVE  /\ <<a>> \o p \in Seq(Words) /\ <<a>> \o p # <<>> /\ Head(<<a>> \o p) = a /\ Tail(<<a>> \o p) = p
         /\ Len(<<a>> \o p) = Len(p) + 1
         /\ Drop(<<a>> \o p, 1) = p
<1>1. <<a>> \o p \in Seq(Words) /\ <<a>> \o p # <<>> /\ Head(<<a>> \o p) = a /\ Tail(<<a>> \o p) = p
      /\ Len(<<a>> \o p) = Len(p) + 1
  BY ConsIs
<1>2. SubSeq(<<a>> \o p, 2, Len(p) + 1) = p
  OBVIOUS
<1> QED
  BY <1>1, <1>2 DEF Drop

\* Words in front of a sequence, one by one.
LEMMA ConsTwo ==
  ASSUME NEW p \in Seq(Words), NEW a \in Words, NEW b \in Words
  PROVE  /\ <<a, b>> \o p \in Commandlines /\ Head(<<a, b>> \o p) = a
         /\ Tail(<<a, b>> \o p) = <<b>> \o p
<1>1. <<a, b>> \o p \in Seq(Words) /\ <<a, b>> \o p # <<>> /\ Head(<<a, b>> \o p) = a
      /\ Tail(<<a, b>> \o p) = <<b>> \o p
  OBVIOUS
<1> QED
  BY <1>1 DEF Commandlines

LEMMA ConsPair ==
  ASSUME NEW p \in Seq(Words), NEW a \in Words, NEW b \in Words
  PROVE  <<a, b>> \o p = <<a>> \o (<<b>> \o p)
<1> DEFINE s == <<a, b>> \o p
<1>1. s \in Seq(Words) /\ s # <<>> /\ Head(s) = a /\ Tail(s) = <<b>> \o p
  OBVIOUS
<1> HIDE DEF s
<1>2. s = <<Head(s)>> \o Tail(s)
  BY <1>1, TailIs
<1> QED
  BY <1>1, <1>2 DEF s

LEMMA DropTwo ==
  ASSUME NEW p \in Seq(Words), NEW a \in Words, NEW b \in Words
  PROVE  /\ <<a, b>> \o p \in Seq(Words) /\ Drop(<<a, b>> \o p, 2) = p
         /\ 1 \in DOMAIN SubSeq(<<a, b>> \o p, 1, 1) /\ SubSeq(<<a, b>> \o p, 1, 1)[1] = a
<1>1. <<a, b>> \o p \in Seq(Words) /\ Len(<<a, b>> \o p) = Len(p) + 2
      /\ SubSeq(<<a, b>> \o p, 3, Len(p) + 2) = p
  OBVIOUS
<1>2. 1 \in DOMAIN SubSeq(<<a, b>> \o p, 1, 1) /\ SubSeq(<<a, b>> \o p, 1, 1)[1] = a
  <2> DEFINE s == <<a, b>> \o p
  <2>1. s \in Seq(Words) /\ s[1] = a /\ 1 \in 1..Len(s) /\ s[1] \in Words
    OBVIOUS
  <2> HIDE DEF s
  <2>2. SubSeq(s, 1, 1) \in Seq(Words) /\ Len(SubSeq(s, 1, 1)) = 1 /\ SubSeq(s, 1, 1)[1] = s[1]
    BY <2>1, SubSeqProperties
  <2>3. DOMAIN SubSeq(s, 1, 1) = 1..1
    BY <2>2, LenProperties
  <2> QED
    BY <2>1, <2>2, <2>3 DEF s
<1> QED
  BY <1>1, <1>2 DEF Drop

LEMMA ConsThree ==
  ASSUME NEW p \in Seq(Words), NEW a \in Words, NEW b \in Words, NEW c \in Words
  PROVE  /\ <<a, b, c>> \o p \in Commandlines /\ Head(<<a, b, c>> \o p) = a
         /\ Tail(<<a, b, c>> \o p) = <<b, c>> \o p
         /\ Tail(<<a, b, c>> \o p) = <<b>> \o (<<c>> \o p)
<1>1. <<a, b, c>> \o p \in Seq(Words) /\ <<a, b, c>> \o p # <<>> /\ Head(<<a, b, c>> \o p) = a
      /\ Tail(<<a, b, c>> \o p) = <<b, c>> \o p
  OBVIOUS
<1>2. <<b, c>> \o p = <<b>> \o (<<c>> \o p)
  BY ConsPair
<1> QED
  BY <1>1, <1>2 DEF Commandlines

LEMMA ConsFour ==
  ASSUME NEW p \in Seq(Words), NEW a \in Words, NEW b \in Words, NEW c \in Words, NEW d \in Words
  PROVE  /\ <<a, b, c, d>> \o p \in Commandlines /\ Head(<<a, b, c, d>> \o p) = a
         /\ Tail(<<a, b, c, d>> \o p) = <<b>> \o (<<c>> \o (<<d>> \o p))
<1>1. <<a, b, c, d>> \o p \in Seq(Words) /\ <<a, b, c, d>> \o p # <<>> /\ Head(<<a, b, c, d>> \o p) = a
  OBVIOUS
<1>2. Tail(<<a, b, c, d>> \o p) = <<b, c, d>> \o p
  OBVIOUS
<1>3. <<b, c, d>> \o p = <<b>> \o (<<c, d>> \o p)
  OBVIOUS
<1>4. <<c, d>> \o p = <<c>> \o (<<d>> \o p)
  BY ConsPair
<1> QED
  BY <1>1, <1>2, <1>3, <1>4 DEF Commandlines

\* What a wrapper skips of its own.
LEMMA WrapperRuns ==
  ASSUME NEW p \in Seq(Words), p # <<>>, Head(p).kind = "plain", NEW wrapper \in Wrappers
  PROVE  /\ wrapper \in Seq(SimpleWords) /\ wrapper # <<>>
         /\ wrapper \o p \in Commandlines
         /\ WrappedCommand(Head(wrapper \o p).text, Tail(wrapper \o p)) = p
         /\ Head(wrapper \o p) = Head(wrapper)
         /\ Head(wrapper) \in {Plain("env"), Plain("nohup"), Plain("time"), Plain("nice"), Plain("timeout"), Plain("xargs")}
<1> DEFINE kinds == FlagKinds
<1>0. "plain" \notin FlagKinds /\ "plain" \notin FlagKinds \cup {"assign"} /\ "flag" \in FlagKinds
      /\ "flag" \in FlagKinds \cup {"assign"} /\ "assign" \in FlagKinds \cup {"assign"}
  BY DEF FlagKinds
<1>w. {Plain("env"), Plain("nohup"), Plain("time"), Plain("nice"), Plain("5"), Plain("timeout"),
       Plain("1"), Plain("xargs"), Flag("-n"), Flag("-k"), Word("A=1", "assign", "none")} \subseteq SimpleWords
      /\ SimpleWords \subseteq Words
  BY WordsUsed, SimpleWordsAreWords
<1>t. \A text : Plain(text).text = text /\ Plain(text).kind = "plain" /\ Flag(text).text = text /\ Flag(text).kind = "flag"
  BY WordIs DEF Plain, Flag
<1>n. /\ WrappedCommand("nohup", p) = p /\ WrappedCommand("time", p) = p
  BY DEF WrappedCommand
<1> DEFINE Ok(w) == /\ w \in Seq(SimpleWords) /\ w # <<>>
                    /\ w \o p \in Commandlines
                    /\ WrappedCommand(Head(w \o p).text, Tail(w \o p)) = p
                    /\ Head(w \o p) = Head(w)
                    /\ Head(w) \in {Plain("env"), Plain("nohup"), Plain("time"), Plain("nice"), Plain("timeout"), Plain("xargs")}
<1>1. \A name \in {"nohup", "time"} : Ok(<<Plain(name)>>)
  <2> SUFFICES ASSUME NEW name \in {"nohup", "time"} PROVE Ok(<<Plain(name)>>)
    OBVIOUS
  <2> DEFINE e == Plain(name)
  <2>1. e \in SimpleWords /\ e \in Words /\ e.text = name
        /\ e \in {Plain("env"), Plain("nohup"), Plain("time"), Plain("nice"), Plain("timeout"), Plain("xargs")}
    BY <1>w, <1>t
  <2> HIDE DEF e
  <2>2. <<e>> \in Seq(SimpleWords) /\ <<e>> # <<>> /\ Head(<<e>>) = e
    BY <2>1
  <2>3. <<e>> \o p \in Seq(Words) /\ <<e>> \o p # <<>> /\ Head(<<e>> \o p) = e /\ Tail(<<e>> \o p) = p
    BY <2>1, ConsWord
  <2>4. WrappedCommand(Head(<<e>> \o p).text, Tail(<<e>> \o p)) = p
    BY <1>n, <2>1, <2>3
  <2>5. Ok(<<e>>)
    BY <2>1, <2>2, <2>3, <2>4 DEF Commandlines
  <2> QED
    BY <2>5 DEF e
<1>2. Ok(<<Plain("env"), Word("A=1", "assign", "none")>>)
  <2> DEFINE e == Plain("env")
             a == Word("A=1", "assign", "none")
  <2>1. e \in SimpleWords /\ a \in SimpleWords /\ e.text = "env" /\ a.kind = "assign" /\ a.text = "A=1"
        /\ e \in {Plain("env"), Plain("nohup"), Plain("time"), Plain("nice"), Plain("timeout"), Plain("xargs")}
    BY <1>w, <1>t, WordIs
  <2> HIDE DEF e, a
  <2>2. <<e, a>> \in Seq(SimpleWords) /\ <<e, a>> # <<>> /\ Head(<<e, a>>) = e
    BY <2>1
  <2>3. <<e, a>> \o p \in Commandlines /\ Head(<<e, a>> \o p) = e /\ Tail(<<e, a>> \o p) = <<a>> \o p
    BY <1>w, <2>1, ConsTwo
  <2>4. SkipLeading(<<a>> \o p, FlagKinds \cup {"assign"}, {"-u"}) = SkipLeading(p, FlagKinds \cup {"assign"}, {"-u"})
    BY <1>0, <1>w, <2>1, SkipOne
  <2>5. SkipLeading(p, FlagKinds \cup {"assign"}, {"-u"}) = p
    BY <1>0, SkipStops
  <2>6. WrappedCommand("env", <<a>> \o p) = p
    BY <2>4, <2>5 DEF WrappedCommand, SkipEnv
  <2>7. Ok(<<e, a>>)
    BY <2>1, <2>2, <2>3, <2>6
  <2> QED
    BY <2>7 DEF e, a
<1>3. Ok(<<Plain("nice"), Flag("-n"), Plain("5")>>)
  <2> DEFINE e == Plain("nice")
             a == Flag("-n")
             b == Plain("5")
             args == <<a, b>> \o p
  <2>1. e \in SimpleWords /\ a \in SimpleWords /\ b \in SimpleWords /\ e.text = "nice" /\ a.text = "-n"
        /\ e \in {Plain("env"), Plain("nohup"), Plain("time"), Plain("nice"), Plain("timeout"), Plain("xargs")}
    BY <1>w, <1>t
  <2> HIDE DEF e, a, b
  <2>2. <<e, a, b>> \in Seq(SimpleWords) /\ <<e, a, b>> # <<>> /\ Head(<<e, a, b>>) = e
    BY <2>1
  <2>3. <<e, a, b>> \o p \in Commandlines /\ Head(<<e, a, b>> \o p) = e /\ Tail(<<e, a, b>> \o p) = args
    <3>1. e \in Words /\ a \in Words /\ b \in Words
      BY <1>w, <2>1
    <3> QED
      BY <3>1, ConsThree, ZenonT(60)
  <2>5. Drop(args, 2) = p /\ 1 \in DOMAIN SubSeq(args, 1, 1) /\ SubSeq(args, 1, 1)[1] = a
    BY <1>w, <2>1, DropTwo
  <2> HIDE DEF args
  <2>6. Has(SubSeq(args, 1, 1), {"-n"})
    <3> HIDE DEF args
    <3> QED
      BY <2>1, <2>5 DEF Has
  <2>7. WrappedCommand("nice", args) = p
    BY <2>5, <2>6 DEF WrappedCommand
  <2>8. Ok(<<e, a, b>>)
    BY <2>1, <2>2, <2>3, <2>7
  <2> QED
    BY <2>8 DEF e, a, b
<1>4. Ok(<<Plain("timeout"), Flag("-k"), Plain("1"), Plain("5")>>)
  <2> DEFINE e == Plain("timeout")
             a == Flag("-k")
             b == Plain("1")
             c == Plain("5")
             r == <<c>> \o p
             valued == {"-s", "--signal", "-k", "--kill-after"}
  <2>1. e \in SimpleWords /\ a \in SimpleWords /\ b \in SimpleWords /\ c \in SimpleWords
        /\ e.text = "timeout" /\ a.text = "-k" /\ a.kind = "flag" /\ c.kind = "plain"
        /\ e \in {Plain("env"), Plain("nohup"), Plain("time"), Plain("nice"), Plain("timeout"), Plain("xargs")}
    BY <1>w, <1>t
  <2> HIDE DEF e, a, b, c
  <2>2. <<e, a, b, c>> \in Seq(SimpleWords) /\ <<e, a, b, c>> # <<>> /\ Head(<<e, a, b, c>>) = e
    BY <2>1
  <2>3. <<e, a, b, c>> \o p \in Commandlines /\ Head(<<e, a, b, c>> \o p) = e
        /\ Tail(<<e, a, b, c>> \o p) = <<a>> \o (<<b>> \o r)
    <3>1. e \in Words /\ a \in Words /\ b \in Words /\ c \in Words
      BY <1>w, <2>1
    <3>2. <<e, a, b, c>> \o p \in Commandlines
      BY <3>1, ConsFour, ZenonT(60)
    <3>3. Head(<<e, a, b, c>> \o p) = e
      BY ONLY <3>1, p \in Seq(Words), ConsFour
    <3>4. Tail(<<e, a, b, c>> \o p) = <<a>> \o (<<b>> \o (<<c>> \o p))
      <4>0. p \in Seq(Words)
        OBVIOUS
      <4>1. Tail(<<e, a, b, c>> \o p) = <<a, b, c>> \o p
        BY ONLY <3>1, <4>0
      <4>2. <<a, b, c>> \o p = <<a>> \o (<<b, c>> \o p)
        BY ONLY <3>1, <4>0
      <4>3. <<b, c>> \o p = <<b>> \o (<<c>> \o p)
        BY ONLY <3>1, <4>0, ConsPair
      <4> QED
        BY ONLY <4>1, <4>2, <4>3, Zenon
    <3> QED
      BY <3>2, <3>3, <3>4, Zenon
  <2>4. r \in Seq(Words) /\ r # <<>> /\ Head(r) = c /\ Drop(r, 1) = p
    BY <1>w, <2>1, ConsWord
  <2> HIDE DEF r
  <2>5. SkipLeading(<<a>> \o (<<b>> \o r), FlagKinds, valued) = SkipLeading(r, FlagKinds, valued)
    BY <1>0, <1>w, <2>1, <2>4, SkipTwo
  <2>6. SkipLeading(r, FlagKinds, valued) = r
    BY <1>0, <2>1, <2>4, SkipStops
  <2>7. WrappedCommand("timeout", <<a>> \o (<<b>> \o r)) = p
    BY <2>4, <2>5, <2>6 DEF WrappedCommand, SkipFlags
  <2>8. Ok(<<e, a, b, c>>)
    BY <2>1, <2>2, <2>3, <2>7
  <2> QED
    BY <2>8 DEF e, a, b, c
<1>5. Ok(<<Plain("xargs"), Flag("-n"), Plain("1")>>)
  <2> DEFINE e == Plain("xargs")
             a == Flag("-n")
             b == Plain("1")
             valued == {"-I", "-n", "-P", "-L", "-d", "-E", "-a", "-s"}
  <2>1. e \in SimpleWords /\ a \in SimpleWords /\ b \in SimpleWords
        /\ e.text = "xargs" /\ a.text = "-n" /\ a.kind = "flag"
        /\ e \in {Plain("env"), Plain("nohup"), Plain("time"), Plain("nice"), Plain("timeout"), Plain("xargs")}
    BY <1>w, <1>t
  <2> HIDE DEF e, a, b
  <2>2. <<e, a, b>> \in Seq(SimpleWords) /\ <<e, a, b>> # <<>> /\ Head(<<e, a, b>>) = e
    BY <2>1
  <2>3. <<e, a, b>> \o p \in Commandlines /\ Head(<<e, a, b>> \o p) = e
        /\ Tail(<<e, a, b>> \o p) = <<a>> \o (<<b>> \o p)
    <3>1. e \in Words /\ a \in Words /\ b \in Words
      BY <1>w, <2>1
    <3>2. <<e, a, b>> \o p \in Commandlines
      BY <3>1, ConsThree, ZenonT(60)
    <3>3. Head(<<e, a, b>> \o p) = e
      BY <3>1, ConsThree, ZenonT(60)
    <3>4. Tail(<<e, a, b>> \o p) = <<a>> \o (<<b>> \o p)
      BY <3>1, ConsThree, ZenonT(60)
    <3> QED
      BY <3>2, <3>3, <3>4, Zenon
  <2>4. SkipLeading(<<a>> \o (<<b>> \o p), FlagKinds, valued) = SkipLeading(p, FlagKinds, valued)
    BY <1>0, <1>w, <2>1, SkipTwo
  <2>5. SkipLeading(p, FlagKinds, valued) = p
    BY <1>0, SkipStops
  <2>6. WrappedCommand("xargs", <<a>> \o (<<b>> \o p)) = p
    BY <2>4, <2>5 DEF WrappedCommand, SkipFlags
  <2>7. Ok(<<e, a, b>>)
    BY <2>1, <2>2, <2>3, <2>6
  <2> QED
    BY <2>7 DEF e, a, b
<1>6. Ok(wrapper)
  <2> HIDE DEF Ok
  <2> QED
    BY <1>1, <1>2, <1>3, <1>4, <1>5 DEF Wrappers
<1> QED
  BY <1>6

LEMMA PeelNothing ==
  ASSUME NEW p \in Commandlines,
         Head(p).text \notin {"env", "nohup", "time", "nice", "timeout", "xargs"}
  PROVE  peelCommandWrappers[p] = p
<1>1. WrappedCommand(Head(p).text, Tail(p)) = <<>>
  BY DEF WrappedCommand
<1> QED
  BY <1>1, PeelIs

\* A wrapped command is decided like the command.
LEMMA WrappedIsDecidedAlike ==
  ASSUME NEW p \in Commandlines, Head(p).kind = "plain", NEW wrapper \in Wrappers
  PROVE  /\ wrapper \o p \in Commandlines
         /\ peelCommandWrappers[wrapper \o p] = peelCommandWrappers[p]
         /\ evaluatePolicySingle[wrapper \o p] = evaluatePolicySingle[p]
<1> DEFINE w == wrapper \o p
<1>1. p \in Seq(Words) /\ p # <<>>
  BY DEF Commandlines
<1>2. w \in Commandlines /\ WrappedCommand(Head(w).text, Tail(w)) = p
  BY <1>1, WrapperRuns
<1> HIDE DEF w
<1>3. peelCommandWrappers[w] = peelCommandWrappers[p]
  BY <1>1, <1>2, PeelIs
<1>4. Decision(w, evaluatePolicySingle) = Decision(p, evaluatePolicySingle)
  BY <1>3 DEF Decision
<1>5. evaluatePolicySingle[w] = evaluatePolicySingle[p]
  BY <1>2, <1>4, SingleIs
<1> QED
  BY <1>2, <1>3, <1>5 DEF w

-----------------------------------------------------------------------------
(* Paths in the arguments.                                                 *)

BadPlaces == {"system", "credential"}
PathHit(args) == \E i \in DOMAIN args : OperandPlace(args, i) \in BadPlaces

LEMMA DenialsAreNotAllowed == \A c \in DenyCategories : ~Allowed(c)
  BY DEF DenyCategories, Allowed, AllowCategories, ReadCategories, WriteCategories

LEMMA PathIsChecked ==
  ASSUME NEW args \in Seq(Words)
  PROVE  /\ checkOperandPathPolicy(args) # NoCategory <=> PathHit(args)
         /\ PathHit(args) => ~Allowed(checkOperandPathPolicy(args))
<1> DEFINE categories == [i \in DOMAIN args |-> PlaceCategory(OperandPlace(args, i))]
<1>1. \A p : PlaceCategory(p) # NoCategory <=> p \in BadPlaces
  BY DEF PlaceCategory, NoCategory, BadPlaces
<1>2. DOMAIN categories \subseteq Nat /\ DOMAIN categories = DOMAIN args
  BY LenProperties
<1>3. \A i \in DOMAIN args : categories[i] # NoCategory <=> OperandPlace(args, i) \in BadPlaces
  BY <1>1
<1>4. checkOperandPathPolicy(args) = FirstCategory(categories, NoCategory)
  BY DEF checkOperandPathPolicy
<1> HIDE DEF categories
<1>5. checkOperandPathPolicy(args) # NoCategory <=> PathHit(args)
  BY <1>2, <1>3, <1>4, FirstCategoryIs DEF PathHit
<1>6. checkOperandPathPolicy(args) # NoCategory => checkOperandPathPolicy(args) \in DenyCategories
  BY PlaceDecision
<1> QED
  BY <1>5, <1>6, DenialsAreNotAllowed

\* Words that are about no path, and do not make the next one a path.
Quiet == {w \in Words : w.place = "none" /\ w.kind # "redirect"}

LEMMA QuietPlace ==
  ASSUME NEW args \in Seq(Words), NEW i \in DOMAIN args, args[i] \in Quiet
  PROVE  OperandPlace(args, i) \notin BadPlaces
  BY DEF OperandPlace, BadPlaces, Quiet

LEMMA QuietFront ==
  ASSUME NEW u \in Seq(Words), NEW v \in Seq(Words), \A i \in DOMAIN u : u[i] \in Quiet
  PROVE  PathHit(u \o v) <=> PathHit(v)
<1> DEFINE s == u \o v
           m == Len(u)
           n == Len(v)
<1>1. s \in Seq(Words) /\ Len(s) = m + n /\ m \in Nat /\ n \in Nat /\ DOMAIN s = 1..m + n
      /\ DOMAIN u = 1..m /\ DOMAIN v = 1..n
      /\ \A i \in 1..m + n : s[i] = IF i <= m THEN u[i] ELSE v[i - m]
  BY ConcatProperties, LenProperties
<1> HIDE DEF s
<1>2. ASSUME NEW i \in 1..n PROVE OperandPlace(s, m + i) = OperandPlace(v, i)
  <2>1. m + i \in 1..m + n /\ ~(m + i <= m) /\ (m + i) - m = i /\ s[m + i] = v[i]
    <3> HIDE DEF m, n
    <3>1. m + i \in 1..m + n /\ ~(m + i <= m) /\ (m + i) - m = i
      BY <1>1
    <3>2. s[m + i] = v[(m + i) - m]
      BY <1>1, <3>1
    <3> QED
      BY <3>1, <3>2
  <2>2. m + i < Len(s) <=> i < Len(v)
    BY <1>1
  <2>3. i < Len(v) => s[m + i + 1] = v[i + 1]
    <3>1. i < Len(v) => m + i + 1 \in 1..m + n /\ ~(m + i + 1 <= m) /\ (m + i + 1) - m = i + 1
      BY <1>1
    <3> QED
      BY <1>1, <3>1
  <2> QED
    BY <2>1, <2>2, <2>3 DEF OperandPlace
<1>3. ASSUME NEW i \in DOMAIN s, OperandPlace(s, i) \in BadPlaces
      PROVE  \E j \in DOMAIN v : OperandPlace(v, j) \in BadPlaces
  <2>1. i \in 1..m + n
    BY <1>1
  <2>2. ~(i <= m)
    <3> SUFFICES ASSUME i <= m PROVE FALSE
      OBVIOUS
    <3>1. i \in DOMAIN u /\ s[i] = u[i]
      BY <1>1, <2>1
    <3>2. s[i] \in Quiet
      BY <3>1
    <3> QED
      BY <1>1, <1>3, <3>2, QuietPlace
  <2>3. i - m \in 1..n /\ m + (i - m) = i
    BY <1>1, <2>1, <2>2
  <2>4. OperandPlace(v, i - m) = OperandPlace(s, i)
    BY <1>2, <2>3
  <2> QED
    BY <1>1, <1>3, <2>3, <2>4
<1>4. ASSUME NEW j \in DOMAIN v, OperandPlace(v, j) \in BadPlaces
      PROVE  \E i \in DOMAIN s : OperandPlace(s, i) \in BadPlaces
  <2>1. j \in 1..n /\ m + j \in DOMAIN s
    BY <1>1
  <2> QED
    BY <1>2, <1>4, <2>1
<1> QED
  BY <1>3, <1>4 DEF PathHit, s

LEMMA QuietBack ==
  ASSUME NEW u \in Seq(Words), NEW v \in Seq(Words), \A i \in DOMAIN v : v[i] \in Quiet
  PROVE  PathHit(u \o v) <=> PathHit(u)
<1> DEFINE s == u \o v
           m == Len(u)
           n == Len(v)
<1>1. s \in Seq(Words) /\ Len(s) = m + n /\ m \in Nat /\ n \in Nat /\ DOMAIN s = 1..m + n
      /\ DOMAIN u = 1..m /\ DOMAIN v = 1..n
      /\ \A i \in 1..m + n : s[i] = IF i <= m THEN u[i] ELSE v[i - m]
  BY ConcatProperties, LenProperties
<1> HIDE DEF s
<1>q. \A i \in 1..m + n : i > m => s[i] \in Quiet
  <2> SUFFICES ASSUME NEW i \in 1..m + n, i > m PROVE s[i] \in Quiet
    OBVIOUS
  <2>1. ~(i <= m) /\ i - m \in 1..n
    BY <1>1
  <2> QED
    BY <1>1, <2>1
<1>2. ASSUME NEW i \in 1..m PROVE OperandPlace(s, i) \in BadPlaces <=> OperandPlace(u, i) \in BadPlaces
  <2>1. i \in 1..m + n /\ s[i] = u[i] /\ i <= m
    BY <1>1
  <2>2. CASE i < m
    <3>1. i + 1 \in 1..m + n /\ s[i + 1] = u[i + 1] /\ i < Len(s) /\ i < Len(u)
      BY <1>1, <2>2
    <3> QED
      BY <2>1, <3>1 DEF OperandPlace
  <2>3. CASE i = m
    <3>1. ~(i < Len(u)) /\ (i < Len(s) => i + 1 \in 1..m + n /\ i + 1 > m)
      BY <1>1, <2>3
    <3>2. i < Len(s) => s[i + 1].place = "none"
      BY <1>q, <3>1 DEF Quiet
    <3>3. "none" \notin BadPlaces
      BY DEF BadPlaces
    <3> QED
      BY <2>1, <3>1, <3>2, <3>3 DEF OperandPlace
  <2>4. i < m \/ i = m
    BY <2>1
  <2> QED
    BY ONLY <2>2, <2>3, <2>4
<1>3. ASSUME NEW i \in DOMAIN s, OperandPlace(s, i) \in BadPlaces
      PROVE  \E j \in DOMAIN u : OperandPlace(u, j) \in BadPlaces
  <2>1. i \in 1..m + n
    BY <1>1
  <2>2. ~(i > m)
    BY <1>1, <1>3, <1>q, <2>1, QuietPlace
  <2>3. i \in 1..m
    BY <1>1, <2>1, <2>2
  <2> QED
    BY <1>1, <1>2, <1>3, <2>3
<1>4. ASSUME NEW j \in DOMAIN u, OperandPlace(u, j) \in BadPlaces
      PROVE  \E i \in DOMAIN s : OperandPlace(s, i) \in BadPlaces
  <2>1. j \in 1..m /\ j \in DOMAIN s
    BY <1>1
  <2> QED
    BY <1>2, <1>4, <2>1
<1> QED
  BY <1>3, <1>4 DEF PathHit, s

-----------------------------------------------------------------------------
(* A command under find -exec.                                             *)

Unmarked == {w \in SimpleWords : w.text \notin EndMarks}
Pluses == {Plain("+")}

LEMMA PlusesAre ==
  /\ Pluses \subseteq SimpleWords /\ Pluses \subseteq Quiet
  /\ \A w \in Pluses : w.text = "+" /\ w.kind = "plain" /\ w.place = "none"
<1>1. Plain("+") \in SimpleWords /\ Plain("+") \in Words
  BY WordsUsed, SimpleWordsAreWords
<1>2. Plain("+").text = "+" /\ Plain("+").kind = "plain" /\ Plain("+").place = "none"
  BY WordIs DEF Plain
<1>3. Plain("+") \in Quiet
  BY <1>1, <1>2 DEF Quiet
<1> QED
  BY <1>1, <1>2, <1>3 DEF Pluses

LEMMA FindWordsAre ==
  /\ Plain("find") \in SimpleWords /\ Plain(".") \in SimpleWords /\ Flag("-exec") \in SimpleWords
  /\ Plain("find").text = "find" /\ Plain("find").kind = "plain"
  /\ Plain(".").text = "." /\ Flag("-exec").text = "-exec"
  /\ Plain("find") \in Quiet /\ Plain(".") \in Quiet /\ Flag("-exec") \in Quiet
<1>1. Plain("find") \in SimpleWords /\ Plain(".") \in SimpleWords /\ Flag("-exec") \in SimpleWords
  BY WordsUsed
<1>2. /\ Plain("find").text = "find" /\ Plain("find").kind = "plain" /\ Plain("find").place = "none"
      /\ Plain(".").text = "." /\ Plain(".").kind = "plain" /\ Plain(".").place = "none"
      /\ Flag("-exec").text = "-exec" /\ Flag("-exec").kind = "flag" /\ Flag("-exec").place = "none"
  BY WordIs DEF Plain, Flag
<1> QED
  BY <1>1, <1>2, SimpleWordsAreWords DEF Quiet

\* What find is given: a path, -exec, a command without an end mark, and end marks.
FindArgs(args, q, m) ==
  /\ args \in Seq(Words) /\ q \in Seq(Unmarked) /\ m \in Seq(Pluses)
  /\ Len(args) = 2 + Len(q) + Len(m) /\ DOMAIN args = 1..2 + Len(q) + Len(m)
  /\ args[1] = Plain(".") /\ args[2] = Flag("-exec")
  /\ \A i \in 1..Len(q) : args[2 + i] = q[i]
  /\ \A i \in 2 + Len(q) + 1..2 + Len(q) + Len(m) : args[i] = Plain("+")

LEMMA FindArgsAre ==
  ASSUME NEW q \in Seq(Unmarked), NEW m \in Seq(Pluses)
  PROVE  /\ FindWords \o (q \o m) \in Commandlines
         /\ Head(FindWords \o (q \o m)) = Plain("find")
         /\ FindArgs(Tail(FindWords \o (q \o m)), q, m)
         /\ Tail(FindWords \o (q \o m)) = <<Plain("."), Flag("-exec")>> \o (q \o m)
         /\ q \in Seq(Words) /\ m \in Seq(Words) /\ q \o m \in Seq(Words)
<1>1. q \in Seq(Words) /\ m \in Seq(Words)
  <2>1. Unmarked \subseteq Words /\ Pluses \subseteq Words
    BY PlusesAre, SimpleWordsAreWords DEF Unmarked
  <2> QED
    BY <2>1, SeqMonotonic
<1> DEFINE t == q \o m
           a == Plain(".")
           b == Flag("-exec")
           e == Plain("find")
           args == <<a, b>> \o t
<1>2. a \in Words /\ b \in Words /\ e \in Words
  BY FindWordsAre, SimpleWordsAreWords
<1>3. t \in Seq(Words) /\ Len(t) = Len(q) + Len(m) /\ Len(q) \in Nat /\ Len(m) \in Nat
      /\ \A i \in 1..Len(q) + Len(m) : t[i] = IF i <= Len(q) THEN q[i] ELSE m[i - Len(q)]
  BY <1>1, ConcatProperties, LenProperties
<1> HIDE DEF t, a, b, e
<1>4. /\ <<e, a, b>> \o t \in Commandlines /\ Head(<<e, a, b>> \o t) = e
      /\ Tail(<<e, a, b>> \o t) = args
  <2>1. <<e, a, b>> \o t \in Seq(Words) /\ <<e, a, b>> \o t # <<>> /\ Head(<<e, a, b>> \o t) = e
        /\ Tail(<<e, a, b>> \o t) = <<a, b>> \o t
    BY <1>2, <1>3
  <2> QED
    BY <2>1 DEF Commandlines
<1>5. args \in Seq(Words) /\ Len(args) = Len(t) + 2 /\ args[1] = a /\ args[2] = b
  BY <1>2, <1>3
<1>6. \A i \in 1..Len(t) : args[i + 2] = t[i]
  BY <1>2, <1>3
<1> HIDE DEF args
<1>7. \A i \in 1..Len(q) : args[2 + i] = q[i]
  <2> SUFFICES ASSUME NEW i \in 1..Len(q) PROVE args[2 + i] = q[i]
    OBVIOUS
  <2>1. i \in 1..Len(t) /\ i \in 1..Len(q) + Len(m) /\ i <= Len(q) /\ 2 + i = i + 2
    BY <1>3
  <2> QED
    BY <1>3, <1>6, <2>1
<1>8. \A i \in 2 + Len(q) + 1..2 + Len(q) + Len(m) : args[i] = Plain("+")
  <2> SUFFICES ASSUME NEW i \in 2 + Len(q) + 1..2 + Len(q) + Len(m) PROVE args[i] = Plain("+")
    OBVIOUS
  <2> DEFINE j == i - 2 - Len(q)
             k == i - 2
  <2>1. k \in 1..Len(t) /\ k \in 1..Len(q) + Len(m) /\ ~(k <= Len(q)) /\ k - Len(q) = j /\ j \in 1..Len(m) /\ k + 2 = i
    BY <1>3
  <2>2. m[j] \in Pluses
    BY <2>1, ElementOfSeq
  <2> HIDE DEF k, j
  <2>3. args[k + 2] = t[k] /\ t[k] = m[k - Len(q)]
    BY <1>3, <1>6, <2>1
  <2>4. m[k - Len(q)] = m[j]
    BY <2>1
  <2> QED
    BY <2>1, <2>2, <2>3, <2>4 DEF Pluses
<1>9. DOMAIN args = 1..2 + Len(q) + Len(m) /\ Len(args) = 2 + Len(q) + Len(m)
  BY <1>3, <1>5, LenProperties
<1>10. FindArgs(args, q, m)
  BY <1>5, <1>7, <1>8, <1>9 DEF FindArgs, a, b
<1> QED
  BY <1>1, <1>3, <1>4, <1>10 DEF FindWords, t, a, b, e, args

LEMMA FindBody ==
  ASSUME NEW args, NEW q, NEW m, FindArgs(args, q, m)
  PROVE  /\ FindActions(args) = {2}
         /\ SubSeq(args, 3, ExecEnd(args, 2) - 1) = q
<1>1. args \in Seq(Words) /\ q \in Seq(Unmarked) /\ m \in Seq(Pluses) /\ Len(q) \in Nat /\ Len(m) \in Nat
      /\ Len(args) = 2 + Len(q) + Len(m) /\ DOMAIN args = 1..2 + Len(q) + Len(m)
  BY LenProperties DEF FindArgs
<1>2. \A i \in 1..Len(q) : args[2 + i].text \notin EndMarks /\ args[2 + i] = q[i] /\ q[i] \in Unmarked
  <2> SUFFICES ASSUME NEW i \in 1..Len(q) PROVE args[2 + i].text \notin EndMarks /\ args[2 + i] = q[i] /\ q[i] \in Unmarked
    OBVIOUS
  <2>1. q[i] \in Unmarked
    BY <1>1, ElementOfSeq
  <2> QED
    BY <2>1 DEF FindArgs, Unmarked
<1>3. \A k \in 3..2 + Len(q) : args[k].text \notin EndMarks
  <2> SUFFICES ASSUME NEW k \in 3..2 + Len(q) PROVE args[k].text \notin EndMarks
    OBVIOUS
  <2>1. k - 2 \in 1..Len(q) /\ 2 + (k - 2) = k
    BY <1>1
  <2> QED
    BY <1>2, <2>1
<1>4. \A k \in 2 + Len(q) + 1..2 + Len(q) + Len(m) : args[k].text = "+"
  BY PlusesAre DEF FindArgs, Pluses
<1>5. args[1].text = "." /\ args[2].text = "-exec"
  BY FindWordsAre DEF FindArgs
<1>6. ~IsAction(args[1]) /\ IsAction(args[2]) /\ "+" \in EndMarks
      /\ \A k \in 2 + Len(q) + 1..2 + Len(q) + Len(m) : ~IsAction(args[k])
  BY <1>4, <1>5 DEF IsAction, ExecActions, EndMarks
<1>7. 2 \in FindActions(args)
  <2>1. 2 \in DOMAIN args /\ 1..2 - 1 = {1}
    BY <1>1
  <2> QED
    BY <1>6, <2>1 DEF FindActions
<1>8. ASSUME NEW i \in FindActions(args) PROVE i = 2
  <2>1. i \in 1..2 + Len(q) + Len(m) /\ IsAction(args[i])
        /\ \A j \in 1..i - 1 : IsAction(args[j]) => \E k \in j + 1..i - 1 : args[k].text \in EndMarks
    BY <1>1, <1>8 DEF FindActions
  <2>2. i # 1 /\ ~(i > 2 + Len(q))
    <3>1. i # 1
      BY <1>6, <2>1
    <3>2. ASSUME i > 2 + Len(q) PROVE FALSE
      <4>1. i \in 2 + Len(q) + 1..2 + Len(q) + Len(m)
        BY <1>1, <2>1, <3>2
      <4> QED
        BY <1>6, <2>1, <4>1
    <3> QED
      BY <3>1, <3>2
  <2>3. ASSUME i > 2 PROVE FALSE
    <3>1. 2 \in 1..i - 1
      BY <1>1, <2>1, <2>3
    <3>2. PICK k \in 2 + 1..i - 1 : args[k].text \in EndMarks
      BY <1>6, <2>1, <3>1
    <3>3. k \in 3..2 + Len(q)
      BY <1>1, <2>1, <2>2, <3>2
    <3> QED
      BY <1>3, <3>2, <3>3
  <2> QED
    BY <1>1, <2>1, <2>2, <2>3
<1> DEFINE marks == {k \in 2 + 1..Len(args) : args[k].text \in EndMarks} \cup {Len(args) + 1}
           n == 2 + Len(q) + 1
<1>9. marks \subseteq Nat /\ marks # {} /\ n \in marks /\ \A k \in marks : n <= k
  <2>1. n \in marks
    <3>1. CASE Len(m) = 0
      BY <1>1, <3>1
    <3>2. CASE Len(m) # 0
      <4>1. n \in 2 + 1..Len(args) /\ n \in 2 + Len(q) + 1..2 + Len(q) + Len(m)
        BY <1>1, <3>2
      <4>2. args[n].text \in EndMarks
        BY <1>4, <1>6, <4>1
      <4> QED
        BY <4>1, <4>2
    <3> QED
      BY <3>1, <3>2
  <2>2. ASSUME NEW k \in marks PROVE n <= k /\ k \in Nat
    <3>1. k \in 3..Len(args) + 1
      BY <1>1
    <3>2. k \notin 3..2 + Len(q)
      <4>1. k = Len(args) + 1 \/ args[k].text \in EndMarks
        OBVIOUS
      <4> QED
        BY <1>1, <1>3, <4>1
    <3> HIDE DEF marks
    <3> QED
      BY <1>1, <3>1, <3>2
  <2> QED
    BY <2>1, <2>2
<1>10. ExecEnd(args, 2) = Min(marks)
  BY DEF ExecEnd
<1> HIDE DEF marks
<1>11. Min(marks) = n
  <2>1. Min(marks) \in marks /\ \A k \in marks : Min(marks) <= k
    BY <1>9, MinIs
  <2>2. Min(marks) <= n /\ n <= Min(marks) /\ Min(marks) \in Nat /\ n \in Nat
    BY <1>1, <1>9, <2>1
  <2> QED
    BY <2>2
<1>12. ExecEnd(args, 2) - 1 = 2 + Len(q)
  BY <1>1, <1>10, <1>11
<1>13. SubSeq(args, 3, 2 + Len(q)) = q
  <2> DEFINE s == SubSeq(args, 3, 2 + Len(q))
  <2>1. \A i \in 3..2 + Len(q) : args[i] \in Words
    <3>1. \A i \in 3..2 + Len(q) : i \in 1..Len(args)
      BY <1>1
    <3> QED
      BY <1>1, <3>1, ElementOfSeq
  <2>2. s \in Seq(Words) /\ Len(s) = (IF 3 <= 2 + Len(q) THEN 2 + Len(q) - 3 + 1 ELSE 0)
        /\ \A i \in 1..2 + Len(q) - 3 + 1 : s[i] = args[3 + i - 1]
    BY <1>1, <2>1, SubSeqProperties
  <2>3. Len(s) = Len(q)
    BY <1>1, <2>2
  <2>4. \A i \in 1..Len(q) : s[i] = q[i]
    <3> SUFFICES ASSUME NEW i \in 1..Len(q) PROVE s[i] = q[i]
      OBVIOUS
    <3> HIDE DEF s
    <3>1. i \in 1..2 + Len(q) - 3 + 1 /\ 3 + i - 1 = 2 + i
      BY <1>1
    <3>2. s[i] = args[3 + i - 1]
      BY <2>2, <3>1
    <3> QED
      BY <1>2, <3>1, <3>2
  <2>5. q \in Seq(Words)
    <3>1. Unmarked \subseteq Words
      BY SimpleWordsAreWords DEF Unmarked
    <3> QED
      BY <1>1, <3>1, SeqMonotonic
  <2> HIDE DEF s
  <2>6. s = q
    BY <2>2, <2>3, <2>4, <2>5, SeqEqual
  <2> QED
    BY <2>6 DEF s
<1> QED
  BY <1>7, <1>8, <1>12, <1>13

LEMMA SingleDecides ==
  ASSUME NEW p \in Commandlines
  PROVE  /\ evaluatePolicySingle[p] \in Categories
         /\ evaluatePolicySingle[p] = CommandDecision(Head(peelCommandWrappers[p]).text,
                                                      Tail(peelCommandWrappers[p]), evaluatePolicySingle)
         /\ Tail(peelCommandWrappers[p]) \in Seq(Words)
  BY SingleIs, BelowPeeled DEF Decision

\* find runs what follows -exec, and is denied if that is about a path it must not touch.
LEMMA FindRuns ==
  ASSUME NEW q \in Seq(Unmarked), NEW m \in Seq(Pluses)
  PROVE  /\ FindWords \o (q \o m) \in Commandlines
         /\ Allowed(evaluatePolicySingle[FindWords \o (q \o m)]) <=>
              ~PathHit(q) /\ q # <<>> /\ Allowed(evaluatePolicySingle[q])
<1> DEFINE p == FindWords \o (q \o m)
           args == Tail(p)
<1>1. p \in Commandlines /\ Head(p) = Plain("find") /\ FindArgs(args, q, m)
      /\ args = <<Plain("."), Flag("-exec")>> \o (q \o m)
      /\ q \in Seq(Words) /\ m \in Seq(Words) /\ q \o m \in Seq(Words)
  BY FindArgsAre
<1>2. Head(p).text = "find"
  BY <1>1, FindWordsAre
<1>3. PathHit(args) <=> PathHit(q)
  <2>1. \A i \in DOMAIN m : m[i] \in Quiet
    BY PlusesAre, ElementOfSeq, LenProperties
  <2>2. PathHit(q \o m) <=> PathHit(q)
    BY <1>1, <2>1, QuietBack
  <2> DEFINE u == <<Plain("."), Flag("-exec")>>
             t == q \o m
  <2>3. u \in Seq(Words) /\ \A i \in DOMAIN u : u[i] \in Quiet
    BY FindWordsAre, SimpleWordsAreWords
  <2>4. t \in Seq(Words)
    BY <1>1
  <2> HIDE DEF u, t
  <2>5. PathHit(u \o t) <=> PathHit(t)
    BY <2>3, <2>4, QuietFront
  <2> QED
    BY <1>1, <2>2, <2>5 DEF u, t
<1> HIDE DEF p, args
<1>4. peelCommandWrappers[p] = p
  BY <1>1, <1>2, PeelNothing
<1>5. evaluatePolicySingle[p] = CommandDecision("find", args, evaluatePolicySingle) /\ args \in Seq(Words)
  BY <1>1, <1>2, <1>4, SingleDecides DEF args
<1>6. /\ ~isShellWrapper("find") /\ ~isInlineScriptInvocation("find", args)
      /\ ~\E c \in DOMAIN AlwaysDenied : "find" \in AlwaysDenied[c]
  BY DEF isShellWrapper, ShellExecutables, isInlineScriptInvocation, inlineScriptFlags, AlwaysDenied
<1>7. evaluatePolicySingle[p] =
        IF checkOperandPathPolicy(args) # NoCategory THEN checkOperandPathPolicy(args)
        ELSE evaluatePolicyFind(args, evaluatePolicySingle)
  BY <1>5, <1>6 DEF CommandDecision
<1>8. \A i \in DOMAIN args : ActionDecision(args, i, evaluatePolicySingle) \in Categories
  <2>1. \A y \in Below(args) : evaluatePolicySingle[y] \in Categories
    BY SingleIs DEF Below
  <2> QED
    BY <1>5, <2>1, CommandDecisionType
<1>9. FindActions(args) = {2} /\ SubSeq(args, 3, ExecEnd(args, 2) - 1) = q
  BY <1>1, FindBody
<1>10. Allowed(evaluatePolicyFind(args, evaluatePolicySingle)) <=> Allowed(ActionDecision(args, 2, evaluatePolicySingle))
  BY <1>5, <1>8, <1>9, FindIsAllowed
<1>11. ActionDecision(args, 2, evaluatePolicySingle) = IF q = <<>> THEN "deny_unparseable" ELSE evaluatePolicySingle[q]
  <2>1. args[2].text # "-delete"
    BY <1>1, FindWordsAre DEF FindArgs
  <2>2. 2 + 1 = 3
    OBVIOUS
  <2> QED
    BY <1>9, <2>1, <2>2 DEF ActionDecision
<1>12. ~Allowed("deny_unparseable")
  BY DenialsAreNotAllowed DEF DenyCategories
<1>13. Allowed(evaluatePolicySingle[p]) <=> ~PathHit(q) /\ q # <<>> /\ Allowed(evaluatePolicySingle[q])
  BY <1>3, <1>5, <1>7, <1>10, <1>11, <1>12, PathIsChecked
<1> QED
  BY <1>1, <1>13 DEF p

-----------------------------------------------------------------------------
(* A command line in a shell.                                              *)

ShellWords(flag, script) == <<Plain("bash"), Flag(flag), Body(script)>>
ShellFlags == {"-c", "-lc"}

\* What runs without asking, as a segment of a line.
Fine(segment) == Fields[segment] # <<>> /\ Allowed(evaluatePolicySingle[Fields[segment]])

NoSubstitution(segment) == \A i \in DOMAIN segment : segment[i].kind # "substitution"

LEMMA BodyIs ==
  ASSUME NEW script \in SimpleScripts
  PROVE  /\ Body(script) \in Words /\ Body(script).kind = "body" /\ Body(script).script = script
         /\ Body(script).text = "script" /\ ScriptOf(Body(script)) = script
<1>1. Body(script).kind = "body" /\ Body(script).script = script /\ Body(script).text = "script"
  BY DEF Body
<1>2. Body(script) \in Words
  BY DEF Body, Words, SimpleScripts, Nested
<1> QED
  BY <1>1, <1>2 DEF ScriptOf

LEMMA ShellWordsAre ==
  ASSUME NEW flag \in ShellFlags
  PROVE  /\ Plain("bash") \in SimpleWords /\ Flag(flag) \in SimpleWords
         /\ Plain("bash").text = "bash" /\ Plain("bash").kind = "plain"
         /\ Flag(flag).text = flag /\ Flag(flag).kind = "flag" /\ flag \in ScriptFlags
<1>1. Plain("bash") \in SimpleWords /\ Flag(flag) \in SimpleWords
  BY WordsUsed DEF ShellFlags
<1>2. Plain("bash").text = "bash" /\ Plain("bash").kind = "plain" /\ Flag(flag).text = flag /\ Flag(flag).kind = "flag"
  BY WordIs DEF Plain, Flag
<1> QED
  BY <1>1, <1>2 DEF ShellFlags, ScriptFlags

\* The shell's script is found behind its flag, whatever else is behind it.
LEMMA ShellScriptIsFound ==
  ASSUME NEW flag \in ShellFlags, NEW script \in SimpleScripts, NEW rest \in Seq(Words)
  PROVE  /\ ShellWords(flag, script) \o rest \in Commandlines
         /\ Head(ShellWords(flag, script) \o rest) = Plain("bash")
         /\ extractShellScript(Tail(ShellWords(flag, script) \o rest)) = script
<1> DEFINE e == Plain("bash")
           a == Flag(flag)
           b == Body(script)
           args == <<a, b>> \o rest
<1>1. e \in Words /\ a \in Words /\ b \in Words /\ a.text \in ScriptFlags /\ ScriptOf(b) = script
  BY BodyIs, ShellWordsAre, SimpleWordsAreWords
<1> HIDE DEF e, a, b
<1>2. <<e, a, b>> \o rest \in Seq(Words) /\ <<e, a, b>> \o rest # <<>> /\ Head(<<e, a, b>> \o rest) = e
      /\ Tail(<<e, a, b>> \o rest) = args
  BY <1>1
<1>3. args \in Seq(Words) /\ Len(args) = Len(rest) + 2 /\ args[1] = a /\ args[2] = b
  BY <1>1
<1> HIDE DEF args
<1>4. Len(rest) \in Nat /\ DOMAIN args = 1..Len(args)
  BY <1>3, LenProperties
<1> DEFINE at == {i \in DOMAIN args : args[i].text \in ScriptFlags}
<1>5. at \subseteq Nat /\ 1 \in at /\ \A i \in at : 1 <= i
  BY <1>1, <1>3, <1>4
<1>6. Min(at) = 1
  <2> HIDE DEF at
  <2>1. Min(at) \in at /\ \A i \in at : Min(at) <= i
    BY <1>5, MinIs
  <2>2. Min(at) <= 1 /\ 1 <= Min(at) /\ Min(at) \in Nat
    BY <1>5, <2>1
  <2> QED
    BY <2>2
<1>7. extractShellScript(args) = ScriptOf(args[1 + 1])
  <2>1. at # {} /\ Min(at) # Len(args)
    BY <1>3, <1>4, <1>5, <1>6
  <2> QED
    BY <1>6, <2>1 DEF extractShellScript
<1>8. 1 + 1 = 2
  OBVIOUS
<1>9. extractShellScript(args) = script
  BY <1>1, <1>3, <1>7, <1>8
<1> QED
  BY <1>2, <1>9 DEF ShellWords, e, a, b, Commandlines

LEMMA NoFetch ==
  ASSUME NEW script \in SimpleScripts, \A i \in DOMAIN script : NoSubstitution(script[i])
  PROVE  ~hasFetchSubstitution(script)
<1>1. \A i \in DOMAIN script : \A j \in DOMAIN script[i] : script[i][j] \in SimpleWords /\ script[i][j].kind # "substitution"
  <2> SUFFICES ASSUME NEW i \in DOMAIN script, NEW j \in DOMAIN script[i]
               PROVE  script[i][j] \in SimpleWords /\ script[i][j].kind # "substitution"
    OBVIOUS
  <2>1. script[i] \in Seq(SimpleWords)
    BY ElementOfSeq, LenProperties DEF SimpleScripts, Nested
  <2> DEFINE s == script[i]
  <2>2. s \in Seq(SimpleWords) /\ j \in DOMAIN s
    BY <2>1
  <2> HIDE DEF s
  <2>3. s[j] \in SimpleWords
    BY <2>2, ElementOfSeq, LenProperties
  <2> QED
    BY <2>3 DEF s, NoSubstitution
<1>2. \A w \in WordsOf(script) : w \in SimpleWords /\ w.kind # "substitution"
  BY <1>1 DEF WordsOf
<1>3. \A w \in WordsOf(script) : WordsOf(w.script) = {}
  <2> SUFFICES ASSUME NEW w \in WordsOf(script) PROVE WordsOf(w.script) = {}
    OBVIOUS
  <2>1. w.script = <<>>
    BY <1>2, SimpleWordHasNoScript
  <2>2. WordsOf(<<>>) = {}
    BY DEF WordsOf
  <2> QED
    BY <2>1, <2>2, Zenon
<1>4. \A w \in AllWords(script) : w.kind # "substitution"
  BY <1>2, <1>3 DEF AllWords
<1> QED
  BY <1>4 DEF hasFetchSubstitution

\* A sequence with another first element, put together again.
LEMMA Rebuilt ==
  ASSUME NEW S, NEW inner \in Seq(S), Len(inner) > 1, NEW x \in S
  PROVE  /\ (<<x>> \o SubSeq(inner, 2, Len(inner) - 1)) \o <<Last(inner)>> \in Seq(S)
         /\ Len((<<x>> \o SubSeq(inner, 2, Len(inner) - 1)) \o <<Last(inner)>>) = Len(inner)
         /\ ((<<x>> \o SubSeq(inner, 2, Len(inner) - 1)) \o <<Last(inner)>>)[1] = x
         /\ \A j \in 2..Len(inner) :
              ((<<x>> \o SubSeq(inner, 2, Len(inner) - 1)) \o <<Last(inner)>>)[j] = inner[j]
<1> DEFINE n == Len(inner)
           mid == SubSeq(inner, 2, n - 1)
           last == inner[n]
           r == (<<x>> \o mid) \o <<last>>
<1>1. n \in Nat /\ n > 1 /\ last \in S /\ \A i \in 1..n : inner[i] \in S
  BY LenProperties, ElementOfSeq
<1>2. \A i \in 2..n - 1 : inner[i] \in S
  BY <1>1
<1>3. mid \in Seq(S) /\ Len(mid) = (IF 2 <= n - 1 THEN n - 1 - 2 + 1 ELSE 0)
      /\ \A i \in 1..n - 1 - 2 + 1 : mid[i] = inner[2 + i - 1]
  BY <1>1, <1>2, SubSeqProperties
<1> HIDE DEF mid, last, n
<1>4. Len(mid) = n - 2
  BY ONLY <1>1, <1>3
<1>5. r \in Seq(S) /\ Len(r) = 1 + Len(mid) + 1 /\ r[1] = x /\ r[Len(mid) + 2] = last
      /\ \A i \in 1..Len(mid) : r[i + 1] = mid[i]
  BY <1>1, <1>3
<1> HIDE DEF r
<1>6. ASSUME NEW j \in 2..n PROVE r[j] = inner[j]
  <2>1. CASE j = n
    BY <1>1, <1>4, <1>5, <2>1 DEF last
  <2>2. CASE j # n
    <3>1. j - 1 \in 1..Len(mid) /\ (j - 1) + 1 = j /\ j - 1 \in 1..n - 1 - 2 + 1 /\ 2 + (j - 1) - 1 = j
      BY <1>1, <1>4, <2>2
    <3>2. r[j] = mid[j - 1] /\ mid[j - 1] = inner[2 + (j - 1) - 1]
      BY <1>3, <1>5, <3>1
    <3> QED
      BY <3>1, <3>2
  <2> QED
    BY <2>1, <2>2
<1>7. Last(inner) = last
  BY DEF Last, last, n
<1>8. Len(r) = n
  BY <1>1, <1>4, <1>5
<1> QED
  BY <1>5, <1>6, <1>7, <1>8 DEF r, mid, n

\* A segment that ends in a shell with a script is cut at the operators of the script.
LEMMA SplitQuoting ==
  ASSUME NEW u \in Seq(SimpleWords), NEW flag \in ShellFlags, NEW script \in SimpleScripts, script # <<>>
  PROVE  /\ Len(SplitSegment(u \o ShellWords(flag, script))) = Len(script)
         /\ DOMAIN SplitSegment(u \o ShellWords(flag, script)) = 1..Len(script)
         /\ SplitSegment(u \o ShellWords(flag, script))[1] = u \o ShellWords(flag, <<script[1]>>)
         /\ \A j \in 2..Len(script) : SplitSegment(u \o ShellWords(flag, script))[j] = script[j]
         /\ Len(script) >= 1 /\ Len(script) \in Nat
         /\ \A j \in 1..Len(script) : script[j] \in Seq(SimpleWords)
         /\ SplitSegment(u \o ShellWords(flag, script)) \in Nested(Words)
<1>0. Len(script) \in Nat /\ Len(script) >= 1
  BY LenProperties, EmptySeq DEF SimpleScripts, Nested
<1>1. Len(script) \in Nat /\ Len(script) >= 1 /\ \A j \in 1..Len(script) : script[j] \in Seq(SimpleWords)
  BY LenProperties, ElementOfSeq, EmptySeq DEF SimpleScripts, Nested
<1> DEFINE e == Plain("bash")
           a == Flag(flag)
           b == Body(script)
           s == u \o <<e, a, b>>
           n == Len(u) + 3
<1>2. e \in SimpleWords /\ a \in SimpleWords /\ b \in Words /\ b.script = script
  BY BodyIs, ShellWordsAre
<1>3. e \in Words /\ a \in Words /\ u \in Seq(Words) /\ Len(u) \in Nat /\ e.script = <<>> /\ a.script = <<>>
  BY <1>2, SimpleWordsAreWords, SimpleWordHasNoScript, LenProperties
<1> HIDE DEF e, a, b
<1>4. s \in Seq(Words) /\ Len(s) = n /\ s[n] = b /\ s[n - 1] = a /\ s[n - 2] = e
      /\ \A i \in 1..Len(u) : s[i] = u[i]
  BY <1>2, <1>3
<1>5. SubSeq(s, 1, n - 1) = u \o <<e, a>>
  BY <1>2, <1>3
<1>6. DOMAIN s = 1..n
  BY <1>4, LenProperties
<1> HIDE DEF s
<1>7. \A i \in 1..n : s[i].script = IF i = n THEN script ELSE <<>>
  <2> SUFFICES ASSUME NEW i \in 1..n PROVE s[i].script = IF i = n THEN script ELSE <<>>
    OBVIOUS
  <2>1. CASE i = n
    BY <1>2, <1>4, <2>1
  <2>2. CASE i = n - 1 \/ i = n - 2
    BY <1>3, <1>4, <2>2
  <2>3. CASE i < n - 2
    <3>1. i \in 1..Len(u)
      BY <1>3, <2>3
    <3>2. u[i] \in SimpleWords
      BY <3>1, ElementOfSeq
    <3> QED
      BY <1>3, <1>4, <2>3, <3>1, <3>2, SimpleWordHasNoScript
  <2> QED
    BY <1>3, <2>1, <2>2, <2>3
<1> DEFINE quoted == {i \in DOMAIN s : Len(s[i].script) > 1}
<1>8. CASE Len(script) = 1
  <2>1. \A i \in DOMAIN s : ~(Len(s[i].script) > 1)
    <3>1. Len(<<>>) = 0
      BY EmptySeq
    <3>2. \A i \in 1..n : Len(s[i].script) \in {0, 1}
      BY <1>7, <1>8, <3>1, Zenon
    <3>3. \A x \in {0, 1} : ~(x > 1)
      OBVIOUS
    <3> QED
      BY <1>6, <3>2, <3>3, Zenon
  <2>2. quoted = {}
    BY <2>1
  <2>3. SplitSegment(s) = <<s>>
    BY <2>2 DEF SplitSegment
  <2>4. script = <<script[1]>>
    <3>1. script \in Seq(Seq(SimpleWords)) /\ <<script[1]>> \in Seq(Seq(SimpleWords))
      BY <1>1, <1>8 DEF SimpleScripts, Nested
    <3>2. Len(<<script[1]>>) = 1 /\ <<script[1]>>[1] = script[1]
      OBVIOUS
    <3> QED
      BY <1>8, <3>1, <3>2, SeqEqual
  <2>5. ShellWords(flag, <<script[1]>>) = ShellWords(flag, script)
    BY <2>4, Zenon
  <2>6. Len(<<s>>) = 1 /\ DOMAIN <<s>> = 1..1 /\ <<s>>[1] = s
    OBVIOUS
  <2>7. s = u \o ShellWords(flag, script)
    BY DEF ShellWords, s, e, a, b
  <2>8. 2..1 = {}
    OBVIOUS
  <2>9. <<s>> \in Nested(Words)
    <3> DEFINE T == Seq(Words)
    <3>1. \A x \in T : <<x>> \in Seq(T)
      OBVIOUS
    <3> QED
      BY <1>4, <3>1 DEF Nested
  <2> QED
    BY <1>1, <1>8, <2>3, <2>5, <2>6, <2>7, <2>8, <2>9, Zenon
<1>9. CASE Len(script) # 1
  <2>1. Len(script) > 1
    <3>1. \A k \in Nat : k >= 1 /\ k # 1 => k > 1
      OBVIOUS
    <3> QED
      BY <1>0, <1>9, <3>1, Zenon
  <2>2. quoted = {n}
    <3>1. n \in 1..n
      BY <1>3
    <3>2. \A i \in 1..n : Len(s[i].script) > 1 <=> i = n
      BY <1>7, <2>1, EmptySeq
    <3> QED
      BY <1>6, <3>1, <3>2
  <2>3. SplitSegment(s) = SplitBody(s, n)
    BY <2>2 DEF SplitSegment
  <2> DEFINE x == u \o <<e, a, Body(<<script[1]>>)>>
  <2>4. Head(script) = script[1]
    BY <1>1, TailIs DEF SimpleScripts, Nested
  <2>5. Body(<<script[1]>>) \in Words
    <3>1. <<script[1]>> \in SimpleScripts
      BY <1>1 DEF SimpleScripts, Nested
    <3> QED
      BY <3>1, BodyIs
  <2>6. (u \o <<e, a>>) \o <<Body(<<script[1]>>)>> = x
    <3> DEFINE c == Body(<<script[1]>>)
    <3>1. c \in Words
      BY <2>5
    <3> HIDE DEF c
    <3>2. (u \o <<e, a>>) \o <<c>> = u \o <<e, a, c>>
      BY <1>3, <3>1
    <3> QED
      BY <3>2 DEF c
  <2>7. Last(script) \o Drop(s, n) = Last(script)
    <3>1. Drop(s, n) = <<>>
      BY <1>4, SubSeqEmpty DEF Drop
    <3>2. Last(script) \in Seq(SimpleWords)
      BY <1>1 DEF Last
    <3> QED
      BY <3>1, <3>2, ConcatEmptySeq
  <2>8. SplitBody(s, n) = (<<x>> \o SubSeq(script, 2, Len(script) - 1)) \o <<Last(script)>>
    <3>1. s[n].script = script
      BY <1>2, <1>4
    <3> HIDE DEF x
    <3> QED
      BY <1>5, <2>4, <2>6, <2>7, <3>1 DEF SplitBody
  <2>9. x \in Seq(Words) /\ script \in Seq(Seq(Words))
    <3>1. x \in Seq(Words)
      BY <1>3, <2>5
    <3>2. script \in Seq(Seq(Words))
      BY SimpleWordsAreWords, SeqMonotonic DEF SimpleScripts, Nested
    <3> QED
      BY <3>1, <3>2
  <2> HIDE DEF x
  <2> DEFINE r == (<<x>> \o SubSeq(script, 2, Len(script) - 1)) \o <<Last(script)>>
  <2>10. r \in Seq(Seq(Words)) /\ Len(r) = Len(script) /\ r[1] = x /\ \A j \in 2..Len(script) : r[j] = script[j]
    BY <2>1, <2>9, Rebuilt
  <2> HIDE DEF r
  <2>11. DOMAIN r = 1..Len(script)
    BY <2>10, LenProperties
  <2>12. r \in Nested(Words)
    BY <2>10 DEF Nested
  <2> QED
    BY <1>1, <2>3, <2>8, <2>10, <2>11, <2>12 DEF ShellWords, s, e, a, b, x, r
<1> QED
  BY <1>8, <1>9

-----------------------------------------------------------------------------
(* When a line is denied.                                                  *)

\* Piece j of segment i is the first one of the line.
IsFirst(i, j) == i = 1 /\ j = 1

\* The line has words, and so has every piece of it.
WellSplit(script) ==
  /\ script # <<>> /\ script \in Nested(Words)
  /\ \A i \in DOMAIN script :
       /\ SplitSegment(script[i]) \in Nested(Words) /\ SplitSegment(script[i]) # <<>>
       /\ \A j \in DOMAIN SplitSegment(script[i]) : SplitSegment(script[i])[j] # <<>>

Verdict(script) ==
  \A i \in DOMAIN script : \A j \in DOMAIN SplitSegment(script[i]) : Fine(SplitSegment(script[i])[j])

ReadsScript(script) ==
  \E i \in DOMAIN script : \E j \in DOMAIN SplitSegment(script[i]) :
    ~IsFirst(i, j) /\ IsStdinSegment(SplitSegment(script[i])[j])

Refused(script) == hasFetchSubstitution(script) \/ ReadsScript(script) \/ ~Verdict(script)

LEMMA FieldsAre ==
  ASSUME NEW s \in Seq(Words)
  PROVE  Fields[s] \in Seq(Words) /\ (Fields[s] # <<>> => Fields[s] \in Commandlines)
<1>1. Fields[s] \in Seq(Bare(Words))
  BY FieldsType
<1>2. Bare(Words) \subseteq Words
  BY DEF Bare
<1>3. Fields[s] \in Seq(Words)
  BY <1>1, <1>2, SeqMonotonic
<1> QED
  BY <1>3 DEF Commandlines

\* A piece of a line is decided on its own, but for an interpreter behind another piece.
LEMMA SegmentIsAllowed ==
  ASSUME NEW s \in Seq(Words), s # <<>>, NEW isFirst \in BOOLEAN
  PROVE  /\ SegmentDecision(s, isFirst, evaluatePolicySingle) \in Categories
         /\ \/ SegmentDecision(s, isFirst, evaluatePolicySingle) = NoCategory
            \/ Allowed(SegmentDecision(s, isFirst, evaluatePolicySingle))
            <=> Fine(s) /\ (isFirst \/ ~IsStdinSegment(s))
<1> DEFINE d == SegmentDecision(s, isFirst, evaluatePolicySingle)
           words == Fields[s]
           stdin == isStdinShellSegment(Head(words).text, Tail(words))
<1>1. d = IF words = <<>> THEN "deny_unparseable"
          ELSE IF ~isFirst /\ stdin THEN "deny_network_pipe" ELSE evaluatePolicySingle[words]
  BY DEF SegmentDecision
<1>2. IsStdinSegment(s) <=> words # <<>> /\ stdin
  BY DEF IsStdinSegment
<1>3. Fine(s) <=> words # <<>> /\ Allowed(evaluatePolicySingle[words])
  BY DEF Fine
<1>4. words # <<>> => evaluatePolicySingle[words] \in Categories
  BY FieldsAre, SingleIs
<1>5. "deny_unparseable" \in DenyCategories /\ "deny_network_pipe" \in DenyCategories /\ DenyCategories \subseteq Categories
  BY DEF DenyCategories, Categories
<1>6. ~Allowed("deny_unparseable") /\ ~Allowed("deny_network_pipe")
  BY <1>5, DenialsAreNotAllowed
<1> HIDE DEF d, words, stdin
<1>7. d \in Categories
  BY <1>1, <1>4, <1>5
<1>8. d # NoCategory
  BY <1>7, NoCategoryIsNone
<1>9. Allowed(d) <=> Fine(s) /\ (isFirst \/ ~IsStdinSegment(s))
  <2>1. CASE words = <<>>
    BY <1>1, <1>3, <1>6, <2>1
  <2>2. CASE words # <<>> /\ ~isFirst /\ stdin
    BY <1>1, <1>2, <1>6, <2>2
  <2>3. CASE words # <<>> /\ ~(~isFirst /\ stdin)
    <3>1. d = evaluatePolicySingle[words]
      BY <1>1, <2>3
    <3> QED
      BY <1>2, <1>3, <2>3, <3>1
  <2> QED
    BY <2>1, <2>2, <2>3
<1> QED
  BY <1>7, <1>8, <1>9 DEF d

LEMMA LineIsAllowed ==
  ASSUME NEW script, WellSplit(script)
  PROVE  /\ evaluatePolicyScript(script) \in Categories
         /\ Allowed(evaluatePolicyScript(script)) <=> ~Refused(script)
<1> DEFINE ss == [i \in DOMAIN script |-> SplitSegment(script[i])]
           segments == FlattenSeq(ss)
           S == Seq(Words)
<1>1. script # <<>> /\ script \in Seq(S)
  BY DEF WellSplit, Nested
<1>2. DOMAIN script = 1..Len(script) /\ Len(script) \in Nat /\ Len(script) # 0
  BY <1>1, LenProperties, EmptySeq
<1>3. \A i \in DOMAIN script : SplitSegment(script[i]) \in Seq(S)
  BY DEF WellSplit, Nested
<1>4. ss \in Nested(S) /\ DOMAIN ss = DOMAIN script /\ \A i \in DOMAIN script : ss[i] = SplitSegment(script[i])
  <2>1. ss \in Seq(Seq(S))
    BY <1>2, <1>3
  <2> QED
    BY <2>1 DEF Nested
<1>5. ss # <<>>
  <2>1. Len(ss) = Len(script)
    BY <1>2
  <2>2. Len(ss) # 0 /\ Len(<<>>) = 0
    BY <1>2, <2>1, EmptySeq
  <2> QED
    BY <2>2, Zenon
<1>6. \A i \in DOMAIN ss : ss[i] # <<>> /\ \A j \in DOMAIN ss[i] : ss[i][j] # <<>>
  BY <1>4 DEF WellSplit
<1>7. splitShellSegments(script) = segments
  BY DEF splitShellSegments
<1> HIDE DEF ss, S, segments
<1>8. /\ segments \in Seq(S) /\ segments # <<>>
      /\ \A k \in DOMAIN segments : \E i \in DOMAIN ss : \E j \in DOMAIN ss[i] :
              segments[k] = ss[i][j] /\ (k = 1 <=> i = 1 /\ j = 1)
      /\ \A i \in DOMAIN ss : \A j \in DOMAIN ss[i] : \E k \in DOMAIN segments :
              segments[k] = ss[i][j] /\ (k = 1 <=> i = 1 /\ j = 1)
  BY <1>4, <1>5, <1>6, FlattenPositions DEF segments
<1>9. DOMAIN segments \subseteq Nat /\ \A k \in DOMAIN segments : segments[k] \in Seq(Words) /\ segments[k] # <<>>
  <2>1. \A k \in DOMAIN segments : segments[k] \in S
    BY <1>8, ElementOfSeq, LenProperties
  <2>2. DOMAIN segments \subseteq Nat
    BY <1>8, LenProperties
  <2>3. \A k \in DOMAIN segments : segments[k] # <<>>
    BY <1>6, <1>8
  <2> QED
    BY <2>1, <2>2, <2>3 DEF S
<1> DEFINE d(k) == SegmentDecision(segments[k], k = 1, evaluatePolicySingle)
<1>10. \A k \in DOMAIN segments :
         /\ d(k) \in Categories
         /\ (d(k) = NoCategory \/ Allowed(d(k))) <=> Fine(segments[k]) /\ (k = 1 \/ ~IsStdinSegment(segments[k]))
  BY <1>9, SegmentIsAllowed
<1>11. evaluatePolicyScript(script) = ScriptDecision(script, evaluatePolicySingle)
  BY DEF evaluatePolicyScript
<1>12. ScriptDecision(script, evaluatePolicySingle) \in Categories
  BY <1>7, <1>9, <1>10, ScriptDecisionType
<1>13. Allowed(ScriptDecision(script, evaluatePolicySingle)) <=>
         ~hasFetchSubstitution(script) /\ \A k \in DOMAIN segments : d(k) = NoCategory \/ Allowed(d(k))
  BY <1>7, <1>9, ScriptIsAllowed
<1> HIDE DEF d
<1>14. (\A k \in DOMAIN segments : d(k) = NoCategory \/ Allowed(d(k))) <=>
         \A k \in DOMAIN segments : Fine(segments[k]) /\ (k = 1 \/ ~IsStdinSegment(segments[k]))
  BY <1>10
<1>15. (\A k \in DOMAIN segments : Fine(segments[k]) /\ (k = 1 \/ ~IsStdinSegment(segments[k]))) <=>
         \A i \in DOMAIN ss : \A j \in DOMAIN ss[i] : Fine(ss[i][j]) /\ ((i = 1 /\ j = 1) \/ ~IsStdinSegment(ss[i][j]))
  <2>1. ASSUME \A k \in DOMAIN segments : Fine(segments[k]) /\ (k = 1 \/ ~IsStdinSegment(segments[k])),
               NEW i \in DOMAIN ss, NEW j \in DOMAIN ss[i]
        PROVE  Fine(ss[i][j]) /\ ((i = 1 /\ j = 1) \/ ~IsStdinSegment(ss[i][j]))
    <3>1. PICK k \in DOMAIN segments : segments[k] = ss[i][j] /\ (k = 1 <=> i = 1 /\ j = 1)
      BY <1>8
    <3> QED
      BY <2>1, <3>1
  <2>2. ASSUME \A i \in DOMAIN ss : \A j \in DOMAIN ss[i] : Fine(ss[i][j]) /\ ((i = 1 /\ j = 1) \/ ~IsStdinSegment(ss[i][j])),
               NEW k \in DOMAIN segments
        PROVE  Fine(segments[k]) /\ (k = 1 \/ ~IsStdinSegment(segments[k]))
    <3>1. PICK i \in DOMAIN ss : \E j \in DOMAIN ss[i] : segments[k] = ss[i][j] /\ (k = 1 <=> i = 1 /\ j = 1)
      BY <1>8
    <3>2. PICK j \in DOMAIN ss[i] : segments[k] = ss[i][j] /\ (k = 1 <=> i = 1 /\ j = 1)
      BY <3>1
    <3> QED
      BY <2>2, <3>2
  <2> QED
    BY <2>1, <2>2
<1>16. ~Refused(script) <=>
         /\ ~hasFetchSubstitution(script)
         /\ \A i \in DOMAIN ss : \A j \in DOMAIN ss[i] : Fine(ss[i][j]) /\ ((i = 1 /\ j = 1) \/ ~IsStdinSegment(ss[i][j]))
  BY <1>4 DEF Refused, ReadsScript, Verdict, IsFirst
<1> QED
  BY <1>11, <1>12, <1>13, <1>14, <1>15, <1>16

\* The segments of a simple script are their own pieces.
LEMMA SimpleScriptIs ==
  ASSUME NEW m \in SimpleScripts, m # <<>>, \A i \in DOMAIN m : m[i] # <<>>
  PROVE  /\ WellSplit(m)
         /\ Verdict(m) <=> \A i \in DOMAIN m : Fine(m[i])
         /\ ReadsScript(m) <=> \E i \in DOMAIN m : i # 1 /\ IsStdinSegment(m[i])
<1>1. \A i \in DOMAIN m : m[i] \in Seq(SimpleWords)
  BY ElementOfSeq, LenProperties DEF SimpleScripts, Nested
<1>2. \A i \in DOMAIN m : SplitSegment(m[i]) = <<m[i]>>
  BY <1>1, SplitSimpleSegment
<1>3. \A s : DOMAIN <<s>> = {1} /\ <<s>>[1] = s /\ <<s>> # <<>>
  OBVIOUS
<1>4. m \in Nested(Words)
  <2>1. Seq(SimpleWords) \subseteq Seq(Words)
    BY SimpleWordsAreWords
  <2>2. Seq(Seq(SimpleWords)) \subseteq Seq(Seq(Words))
    BY <2>1, SeqMonotonic
  <2> QED
    BY <2>2 DEF SimpleScripts, Nested
<1>5. \A i \in DOMAIN m : <<m[i]>> \in Nested(Words)
  <2> SUFFICES ASSUME NEW i \in DOMAIN m PROVE <<m[i]>> \in Nested(Words)
    OBVIOUS
  <2>1. m[i] \in Seq(Words)
    BY <1>1, SimpleWordsAreWords
  <2> DEFINE T == Seq(Words)
  <2>2. \A x \in T : <<x>> \in Seq(T)
    OBVIOUS
  <2> QED
    BY <2>1, <2>2 DEF Nested
<1>6. WellSplit(m)
  <2>1. ASSUME NEW i \in DOMAIN m
        PROVE  /\ SplitSegment(m[i]) \in Nested(Words) /\ SplitSegment(m[i]) # <<>>
               /\ \A j \in DOMAIN SplitSegment(m[i]) : SplitSegment(m[i])[j] # <<>>
    <3> DEFINE s == m[i]
    <3>1. SplitSegment(s) = <<s>> /\ <<s>> \in Nested(Words) /\ s # <<>>
      BY <1>2, <1>5
    <3> HIDE DEF s
    <3>2. DOMAIN <<s>> = {1} /\ <<s>>[1] = s /\ <<s>> # <<>>
      OBVIOUS
    <3>3. /\ SplitSegment(s) \in Nested(Words) /\ SplitSegment(s) # <<>>
          /\ \A j \in DOMAIN SplitSegment(s) : SplitSegment(s)[j] # <<>>
      <4> DEFINE p == <<s>>
      <4>1. SplitSegment(s) = p /\ p \in Nested(Words) /\ s # <<>> /\ DOMAIN p = {1} /\ p[1] = s /\ p # <<>>
        BY <3>1, <3>2
      <4> HIDE DEF p
      <4> QED
        BY <4>1, Zenon
    <3> QED
      BY <3>3 DEF s
  <2> QED
    BY <1>4, <2>1 DEF WellSplit
<1>7. Verdict(m) <=> \A i \in DOMAIN m : Fine(m[i])
  <2>1. ASSUME NEW i \in DOMAIN m
        PROVE  (\A j \in DOMAIN SplitSegment(m[i]) : Fine(SplitSegment(m[i])[j])) <=> Fine(m[i])
    BY <1>2, <1>3
  <2> QED
    BY <2>1 DEF Verdict
<1>8. ReadsScript(m) <=> \E i \in DOMAIN m : i # 1 /\ IsStdinSegment(m[i])
  <2>1. ASSUME NEW i \in DOMAIN m
        PROVE  (\E j \in DOMAIN SplitSegment(m[i]) : ~IsFirst(i, j) /\ IsStdinSegment(SplitSegment(m[i])[j]))
                 <=> i # 1 /\ IsStdinSegment(m[i])
    BY <1>2, <1>3 DEF IsFirst
  <2> QED
    BY <2>1 DEF ReadsScript
<1> QED
  BY <1>6, <1>7, <1>8

-----------------------------------------------------------------------------
(* A segment that ends in a shell and its script.                          *)

\* What is before the shell: nothing, or wrappers.
ShellFront(u, flag) ==
  /\ u \in Seq(SimpleWords) /\ Fields[u] = u /\ flag \in ShellFlags
  /\ \A m \in SimpleScripts : peelCommandWrappers[u \o ShellWords(flag, m)] = ShellWords(flag, m)
  /\ u # <<>> => /\ Head(u).kind = "plain" /\ ~isShellWrapper(Head(u).text)
                 /\ Head(u).text \notin stdinInterpreterExecutables

LEMMA ShellWordsType ==
  ASSUME NEW flag \in ShellFlags, NEW m \in SimpleScripts
  PROVE  /\ ShellWords(flag, m) \in Commandlines /\ ShellWords(flag, m) \in Seq(Words)
         /\ Head(ShellWords(flag, m)) = Plain("bash")
         /\ Tail(ShellWords(flag, m)) \in Seq(Words)
         /\ Tail(ShellWords(flag, m))[1] = Flag(flag) /\ 1 \in DOMAIN Tail(ShellWords(flag, m))
         /\ extractShellScript(Tail(ShellWords(flag, m))) = m
         /\ Fields[ShellWords(flag, m)] = ShellWords(flag, m)
         /\ ShellWords(flag, m)[2] = Flag(flag) /\ Len(ShellWords(flag, m)) = 3
         /\ ShellWords(flag, m)[1] = Plain("bash") /\ ShellWords(flag, m)[3] = Body(m)
<1>1. <<>> \in Seq(Words) /\ ShellWords(flag, m) \o <<>> = ShellWords(flag, m)
  BY DEF ShellWords
<1>2. /\ ShellWords(flag, m) \in Commandlines /\ Head(ShellWords(flag, m)) = Plain("bash")
      /\ extractShellScript(Tail(ShellWords(flag, m))) = m
  <2> DEFINE e == <<>>
             v == ShellWords(flag, m)
  <2>1. e \in Seq(Words) /\ v \o e = v
    BY <1>1
  <2> HIDE DEF e
  <2>2. v \o e \in Commandlines /\ Head(v \o e) = Plain("bash") /\ extractShellScript(Tail(v \o e)) = m
    BY <2>1, ShellScriptIsFound
  <2> HIDE DEF v
  <2>3. v \in Commandlines /\ Head(v) = Plain("bash") /\ extractShellScript(Tail(v)) = m
    BY <2>1, <2>2
  <2> QED
    BY <2>3 DEF v
<1>3. ShellWords(flag, m) \in Seq(Words)
  BY <1>2 DEF Commandlines
<1>4. \A e, a, b : /\ Tail(<<e, a, b>>) = <<a, b>> /\ <<a, b>>[1] = a /\ 1 \in DOMAIN <<a, b>>
                   /\ <<e, a, b>>[1] = e /\ <<e, a, b>>[2] = a /\ <<e, a, b>>[3] = b /\ Len(<<e, a, b>>) = 3
  OBVIOUS
<1>5. /\ Tail(ShellWords(flag, m)) = <<Flag(flag), Body(m)>>
      /\ Tail(ShellWords(flag, m))[1] = Flag(flag) /\ 1 \in DOMAIN Tail(ShellWords(flag, m))
      /\ ShellWords(flag, m)[2] = Flag(flag) /\ Len(ShellWords(flag, m)) = 3
      /\ ShellWords(flag, m)[1] = Plain("bash") /\ ShellWords(flag, m)[3] = Body(m)
  <2> DEFINE e == Plain("bash")
             a == Flag(flag)
             b == Body(m)
  <2>1. ShellWords(flag, m) = <<e, a, b>>
    BY DEF ShellWords
  <2> HIDE DEF e, a, b
  <2>2. Tail(<<e, a, b>>) = <<a, b>> /\ <<a, b>>[1] = a /\ 1 \in DOMAIN <<a, b>>
    BY <1>4
  <2>3. <<e, a, b>>[1] = e /\ <<e, a, b>>[2] = a /\ <<e, a, b>>[3] = b /\ Len(<<e, a, b>>) = 3
    BY <1>4
  <2>4. /\ Tail(ShellWords(flag, m)) = <<a, b>> /\ Tail(ShellWords(flag, m))[1] = a
        /\ 1 \in DOMAIN Tail(ShellWords(flag, m))
    BY <2>1, <2>2
  <2>5. ShellWords(flag, m)[2] = a /\ Len(ShellWords(flag, m)) = 3
        /\ ShellWords(flag, m)[1] = e /\ ShellWords(flag, m)[3] = b
    BY <2>1, <2>3
  <2> QED
    BY <2>4, <2>5 DEF e, a, b
<1>6. Plain("bash") \in Bare(Words) /\ Flag(flag) \in Bare(Words) /\ Body(m) \in Bare(Words)
  BY BodyIs, ShellWordsAre, SimpleWordsAreWords DEF Bare
<1>7. \A T : \A e, a, b \in T : <<e, a, b>> \in Seq(T) /\ <<a, b>> \in Seq(T)
  OBVIOUS
<1>8. ShellWords(flag, m) \in Seq(Bare(Words)) /\ Tail(ShellWords(flag, m)) \in Seq(Bare(Words))
  BY <1>5, <1>6, <1>7, Zenon DEF ShellWords
<1>9. Bare(Words) \subseteq Words
  BY DEF Bare
<1> QED
  BY <1>2, <1>3, <1>5, <1>8, <1>9, FieldsKeep, SeqMonotonic

LEMMA FrontIs ==
  ASSUME NEW u, NEW flag, ShellFront(u, flag), NEW m \in SimpleScripts
  PROVE  /\ u \o ShellWords(flag, m) \in Commandlines
         /\ Fields[u \o ShellWords(flag, m)] = u \o ShellWords(flag, m)
         /\ Head(u \o ShellWords(flag, m)) = IF u = <<>> THEN Plain("bash") ELSE Head(u)
         /\ Head(u \o ShellWords(flag, m)).kind = "plain"
         /\ u = <<>> => u \o ShellWords(flag, m) = ShellWords(flag, m)
         /\ \E i \in DOMAIN Tail(u \o ShellWords(flag, m)) : u = <<>> => Tail(u \o ShellWords(flag, m))[i] = Flag(flag)
<1>1. u \in Seq(Words) /\ flag \in ShellFlags /\ Fields[u] = u
  BY SimpleWordsAreWords DEF ShellFront
<1> DEFINE v == ShellWords(flag, m)
<1>2. v \in Seq(Words) /\ v # <<>> /\ Head(v) = Plain("bash") /\ Fields[v] = v /\ Tail(v)[1] = Flag(flag) /\ 1 \in DOMAIN Tail(v)
      /\ Head(v).kind = "plain" /\ Len(v) = 3
  BY <1>1, ShellWordsType, ShellWordsAre DEF Commandlines
<1> HIDE DEF v
<1>3. Fields[u \o v] = u \o v
  BY <1>1, <1>2, FieldsConcat
<1>4. CASE u = <<>>
  <2>1. u \o v = v
    BY <1>2, <1>4
  <2> QED
    BY <1>2, <1>3, <1>4, <2>1 DEF v, Commandlines
<1>5. CASE u # <<>>
  <2>1. u \o v \in Seq(Words) /\ u \o v # <<>> /\ Head(u \o v) = Head(u)
    BY <1>1, <1>2, <1>5, ConcatHead
  <2>2. Tail(u \o v) \in Seq(Words) /\ Len(Tail(u \o v)) = Len(u \o v) - 1 /\ Len(u \o v) = Len(u) + 3 /\ Len(u) \in Nat
    <3>1. Len(u \o v) = Len(u) + 3 /\ Len(u) \in Nat
      <4>1. Len(u \o v) = Len(u) + Len(v)
        BY <1>1, <1>2, ConcatProperties
      <4>2. Len(u) \in Nat
        BY <1>1, LenProperties
      <4> QED
        BY <1>2, <4>1, <4>2
    <3>2. Tail(u \o v) \in Seq(Words) /\ Len(Tail(u \o v)) = Len(u \o v) - 1
      BY <2>1, TailIs
    <3> QED
      BY <3>1, <3>2
  <2>3. 1 \in DOMAIN Tail(u \o v)
    <3>1. DOMAIN Tail(u \o v) = 1..Len(Tail(u \o v))
      BY <2>2, LenProperties
    <3>2. Len(Tail(u \o v)) >= 1 /\ Len(Tail(u \o v)) \in Nat
      BY <2>2, LenProperties
    <3> QED
      BY <3>1, <3>2
  <2>4. Head(u).kind = "plain"
    BY <1>5 DEF ShellFront
  <2> QED
    BY <1>3, <1>5, <2>1, <2>3, <2>4 DEF v, Commandlines
<1> QED
  BY <1>4, <1>5

\* A shell with a script reads none, and neither does a wrapper.
LEMMA FrontReadsNoScript ==
  ASSUME NEW u, NEW flag, ShellFront(u, flag), NEW m \in SimpleScripts
  PROVE  ~IsStdinSegment(u \o ShellWords(flag, m))
<1> DEFINE s == u \o ShellWords(flag, m)
<1>1. Fields[s] = s /\ Head(s) = (IF u = <<>> THEN Plain("bash") ELSE Head(u))
      /\ (u = <<>> => s = ShellWords(flag, m))
  BY FrontIs
<1>2. flag \in ShellFlags
  BY DEF ShellFront
<1> HIDE DEF s
<1>3. CASE u = <<>>
  <2>1. 1 \in DOMAIN Tail(s) /\ Tail(s)[1] = Flag(flag)
    BY <1>1, <1>2, <1>3, ShellWordsType
  <2>2. Has(Tail(s), ScriptFlags \cup {"-e", "--eval"})
    BY <1>2, <2>1, ShellWordsAre DEF Has
  <2> QED
    BY <1>1, <2>2 DEF IsStdinSegment, isStdinShellSegment, s
<1>4. CASE u # <<>>
  <2>1. Head(s).text \notin stdinInterpreterExecutables
    BY <1>1, <1>4 DEF ShellFront
  <2> QED
    BY <1>1, <2>1 DEF IsStdinSegment, isStdinShellSegment, s
<1> QED
  BY <1>3, <1>4

\* A command in a shell is decided like the command.
LEMMA ShellRuns ==
  ASSUME NEW u, NEW flag, ShellFront(u, flag), NEW s \in Seq(SimpleWords), s # <<>>, NoSubstitution(s)
  PROVE  Fine(u \o ShellWords(flag, <<s>>)) <=> Fine(s)
<1> DEFINE m == <<s>>
           t == u \o ShellWords(flag, m)
<1>1. DOMAIN m = {1} /\ m[1] = s /\ m # <<>>
  OBVIOUS
<1>2. m \in SimpleScripts
  <2> DEFINE T == Seq(SimpleWords)
  <2>1. \A x \in T : <<x>> \in Seq(T)
    OBVIOUS
  <2> QED
    BY <2>1 DEF SimpleScripts, Nested
<1> HIDE DEF m
<1>3. WellSplit(m) /\ (Verdict(m) <=> Fine(s)) /\ ~ReadsScript(m)
  BY <1>1, <1>2, SimpleScriptIs
<1>4. ~hasFetchSubstitution(m)
  BY <1>1, <1>2, NoFetch
<1>5. Allowed(evaluatePolicyScript(m)) <=> Fine(s)
  BY <1>3, <1>4, LineIsAllowed DEF Refused
<1>6. t \in Commandlines /\ Fields[t] = t /\ peelCommandWrappers[t] = ShellWords(flag, m) /\ flag \in ShellFlags
  BY <1>2, FrontIs DEF ShellFront
<1>7. Head(ShellWords(flag, m)).text = "bash" /\ extractShellScript(Tail(ShellWords(flag, m))) = m
  BY <1>2, <1>6, ShellWordsType, ShellWordsAre
<1> HIDE DEF t
<1>8. evaluatePolicySingle[t] = CommandDecision("bash", Tail(ShellWords(flag, m)), evaluatePolicySingle)
  BY <1>6, <1>7, SingleDecides
<1>9. evaluatePolicySingle[t] = evaluatePolicyScript(m)
  <2>1. isShellWrapper("bash")
    BY DEF isShellWrapper, ShellExecutables
  <2> QED
    BY <1>1, <1>7, <1>8, <2>1 DEF CommandDecision, evaluatePolicyScript
<1>10. t # <<>>
  BY <1>6 DEF Commandlines
<1>11. Fine(t) <=> Fine(s)
  BY <1>5, <1>6, <1>9, <1>10 DEF Fine
<1> QED
  BY <1>11 DEF t, m

-----------------------------------------------------------------------------
(* The segments a line is composed of.                                     *)

\* The words q of a segment, and the end marks m behind them, which belong to the find they end.
HasMarks(s, q, m) ==
  /\ q \in Seq(Unmarked) /\ m \in Seq(Pluses) /\ Fields[s] = q \o m
  /\ q = <<>> => m = <<>>
  /\ q # <<>> =>
       /\ Head(q).kind = "plain" /\ Head(q).place = "none"
       /\ isShellWrapper(Head(q).text) => extractShellScript(Tail(q)) = <<>> /\ m = <<>>
                                          /\ peelCommandWrappers[q] = q
       /\ PathHit(q) => ~Allowed(evaluatePolicySingle[q])
       /\ Allowed(evaluatePolicySingle[q \o m]) <=> Allowed(evaluatePolicySingle[q])

Good(s) == s \in Seq(SimpleWords) /\ s # <<>> /\ \E q, m : HasMarks(s, q, m)

LEMMA MarksAre ==
  ASSUME NEW q \in Seq(Unmarked), NEW m \in Seq(Pluses)
  PROVE  /\ q \in Seq(SimpleWords) /\ m \in Seq(SimpleWords) /\ q \in Seq(Words) /\ m \in Seq(Words)
         /\ q \o m \in Seq(Words) /\ (q # <<>> => q \o m # <<>> /\ Head(q \o m) = Head(q) /\ q \o m \in Commandlines)
         /\ (q = <<>> => q \o m = m) /\ (m = <<>> => q \o m = q)
<1>1. Unmarked \subseteq SimpleWords
  BY DEF Unmarked
<1>2. q \in Seq(SimpleWords) /\ m \in Seq(SimpleWords)
  BY <1>1, PlusesAre, SeqMonotonic
<1>3. q \in Seq(Words) /\ m \in Seq(Words)
  BY <1>2, SimpleWordsAreWords
<1>4. q \o m \in Seq(Words) /\ (q = <<>> => q \o m = m) /\ (m = <<>> => q \o m = q)
  BY <1>3
<1>5. q # <<>> => q \o m # <<>> /\ Head(q \o m) = Head(q)
  BY <1>3, ConcatHead
<1> QED
  BY <1>2, <1>3, <1>4, <1>5 DEF Commandlines

\* A simple command is such a segment.
LEMMA SimpleCommandIsGood ==
  ASSUME NEW c, IsSimpleCommand(c)
  PROVE  Good(c)
<1> DEFINE q == Fields[c]
<1>1. c \in Seq(SimpleWords) /\ c # <<>> /\ c \in Seq(Words)
  BY SimpleWordsAreWords DEF IsSimpleCommand
<1>2. \A i \in DOMAIN c : c[i] \in Unmarked
  <2>1. \A i \in DOMAIN c : c[i] \in SimpleWords
    BY <1>1, ElementOfSeq, LenProperties
  <2>2. \A i \in DOMAIN c : c[i].text \notin EndMarks
    BY DEF IsSimpleCommand, Has
  <2> QED
    BY <2>1, <2>2 DEF Unmarked
<1>3. c \in Seq(Unmarked)
  <2>1. Len(c) \in Nat /\ DOMAIN c = 1..Len(c) /\ c = [i \in 1..Len(c) |-> c[i]]
    BY <1>1, LenProperties
  <2> QED
    BY <1>2, <2>1
<1>4. Unmarked \subseteq Words /\ Bare(Unmarked) \subseteq Unmarked
  BY SimpleWordsAreWords DEF Unmarked, Bare
<1>5. q \in Seq(Unmarked)
  BY <1>3, <1>4, FieldsType, SeqMonotonic
<1>6. <<>> \in Seq(Pluses) /\ q \in Seq(Words)
  BY <1>4, <1>5, SeqMonotonic
<1>7. q # <<>> => /\ Head(q).kind = "plain" /\ Head(q).place = "none" /\ peelCommandWrappers[q] = q
                  /\ isShellWrapper(Head(q).text) => extractShellScript(Tail(q)) = <<>>
  BY DEF IsSimpleCommand
<1> HIDE DEF q
<1>8. q \o <<>> = q
  BY <1>5
<1>9. ASSUME q # <<>>, PathHit(q) PROVE ~Allowed(evaluatePolicySingle[q])
  <2>1. Head(q) \in Words /\ Tail(q) \in Seq(Words) /\ q = <<Head(q)>> \o Tail(q) /\ q \in Commandlines
    BY <1>6, <1>9, TailIs DEF Commandlines
  <2>2. Head(q) \in Quiet
    BY <1>7, <1>9, <2>1 DEF Quiet
  <2>3. PathHit(Tail(q))
    <3> DEFINE u == <<Head(q)>>
               v == Tail(q)
    <3>1. u \in Seq(Words) /\ \A i \in DOMAIN u : u[i] \in Quiet
      BY <2>1, <2>2
    <3>2. v \in Seq(Words) /\ PathHit(u \o v)
      BY <1>9, <2>1
    <3> HIDE DEF u, v
    <3>3. PathHit(v)
      BY <3>1, <3>2, QuietFront
    <3> QED
      BY <3>3 DEF v
  <2>4. evaluatePolicySingle[q] = CommandDecision(Head(q).text, Tail(q), evaluatePolicySingle)
    BY <1>7, <1>9, <2>1, SingleDecides
  <2>5. ~Allowed("deny_network_pipe") /\ ~Allowed("deny_inline_script")
    BY DenialsAreNotAllowed DEF DenyCategories
  <2>6. checkOperandPathPolicy(Tail(q)) # NoCategory /\ ~Allowed(checkOperandPathPolicy(Tail(q)))
    BY <2>1, <2>3, PathIsChecked
  <2>7. evaluatePolicySingle[q] \in {"deny_network_pipe", "deny_inline_script", checkOperandPathPolicy(Tail(q))}
    BY <1>7, <1>9, <2>4, <2>6 DEF CommandDecision
  <2> QED
    BY <2>5, <2>6, <2>7
<1>10. HasMarks(c, q, <<>>)
  BY <1>5, <1>6, <1>7, <1>8, <1>9 DEF HasMarks, q
<1> QED
  BY <1>1, <1>10 DEF Good

\* What the words of wrappers and of find have in common.
Neutral ==
  {w \in SimpleWords : /\ w.text \notin EndMarks \cup FetchTools /\ w.place = "none"
                       /\ w.kind \in {"plain", "flag", "assign"}}

LEMMA NeutralIs ==
  ASSUME NEW u \in Seq(Neutral)
  PROVE  /\ u \in Seq(SimpleWords) /\ u \in Seq(Words) /\ u \in Seq(Unmarked) /\ Fields[u] = u
         /\ \A i \in DOMAIN u : u[i] \in Quiet /\ u[i].kind \notin {"body", "substitution"}
<1>1. Neutral \subseteq SimpleWords /\ Neutral \subseteq Unmarked
  BY DEF Neutral, Unmarked
<1>2. Neutral \subseteq Words /\ Neutral \subseteq Bare(Words)
  BY <1>1, SimpleWordsAreWords DEF Neutral, Bare
<1>3. u \in Seq(SimpleWords) /\ u \in Seq(Words) /\ u \in Seq(Unmarked) /\ u \in Seq(Bare(Words))
  BY <1>1, <1>2, SeqMonotonic
<1>4. \A i \in DOMAIN u : u[i] \in Neutral
  BY ElementOfSeq, LenProperties
<1>5. \A i \in DOMAIN u : u[i] \in Quiet /\ u[i].kind \notin {"body", "substitution"}
  BY <1>2, <1>4 DEF Neutral, Quiet
<1> QED
  BY <1>3, <1>5, FieldsKeep

LEMMA NeutralWords ==
  /\ {Plain("env"), Plain("nohup"), Plain("time"), Plain("nice"), Plain("5"), Plain("timeout"),
      Plain("1"), Plain("xargs"), Plain("find"), Plain(".")} \subseteq Neutral
  /\ {Flag("-n"), Flag("-k"), Flag("-exec")} \subseteq Neutral
  /\ Word("A=1", "assign", "none") \in Neutral
<1>1. \A text \in {"env", "nohup", "time", "nice", "5", "timeout", "1", "xargs", "find", "."} :
        Plain(text) \in SimpleWords => Plain(text) \in Neutral
  <2> SUFFICES ASSUME NEW text \in {"env", "nohup", "time", "nice", "5", "timeout", "1", "xargs", "find", "."},
                      Plain(text) \in SimpleWords
               PROVE  Plain(text) \in Neutral
    OBVIOUS
  <2> DEFINE w == Plain(text)
  <2>1. w.text = text /\ w.kind = "plain" /\ w.place = "none"
    BY WordIs DEF Plain
  <2>2. w \in SimpleWords
    OBVIOUS
  <2> HIDE DEF w
  <2>3. w \in Neutral
    BY <2>1, <2>2 DEF Neutral, EndMarks, FetchTools
  <2> QED
    BY <2>3 DEF w
<1>2. \A text \in {"-n", "-k", "-exec"} : Flag(text) \in SimpleWords => Flag(text) \in Neutral
  <2> SUFFICES ASSUME NEW text \in {"-n", "-k", "-exec"}, Flag(text) \in SimpleWords
               PROVE  Flag(text) \in Neutral
    OBVIOUS
  <2> DEFINE w == Flag(text)
  <2>1. w.text = text /\ w.kind = "flag" /\ w.place = "none"
    BY WordIs DEF Flag
  <2>2. w \in SimpleWords
    OBVIOUS
  <2> HIDE DEF w
  <2>3. w \in Neutral
    BY <2>1, <2>2 DEF Neutral, EndMarks, FetchTools
  <2> QED
    BY <2>3 DEF w
<1>3. Word("A=1", "assign", "none") \in SimpleWords => Word("A=1", "assign", "none") \in Neutral
  <2> DEFINE w == Word("A=1", "assign", "none")
  <2>1. w.text = "A=1" /\ w.kind = "assign" /\ w.place = "none"
    BY WordIs
  <2> HIDE DEF w
  <2>2. w \in SimpleWords => w \in Neutral
    BY <2>1 DEF Neutral, EndMarks, FetchTools
  <2> QED
    BY <2>2 DEF w
<1>4. {Plain("env"), Plain("nohup"), Plain("time"), Plain("nice"), Plain("5"), Plain("timeout"),
      Plain("1"), Plain("xargs"), Plain("find"), Plain(".")} \subseteq SimpleWords
  BY WordsUsed
<1>5. {Flag("-n"), Flag("-k"), Flag("-exec")} \subseteq SimpleWords /\ Word("A=1", "assign", "none") \in SimpleWords
  BY WordsUsed
<1> QED
  BY <1>1, <1>2, <1>3, <1>4, <1>5

LEMMA WrapperIs ==
  ASSUME NEW wrapper \in Wrappers
  PROVE  /\ wrapper \in Seq(Neutral) /\ wrapper # <<>>
         /\ Head(wrapper).kind = "plain" /\ Head(wrapper).place = "none"
         /\ ~isShellWrapper(Head(wrapper).text) /\ Head(wrapper).text \notin stdinInterpreterExecutables
<1> DEFINE e1 == Plain("env")
           e2 == Plain("nohup")
           e3 == Plain("time")
           e4 == Plain("nice")
           e5 == Plain("timeout")
           e6 == Plain("xargs")
           a == Word("A=1", "assign", "none")
           n == Flag("-n")
           k == Flag("-k")
           five == Plain("5")
           one == Plain("1")
<1>1. {e1, e2, e3, e4, e5, e6, a, n, k, five, one} \subseteq Neutral
  BY NeutralWords
<1>2. \A e \in {e1, e2, e3, e4, e5, e6} :
        /\ e.kind = "plain" /\ e.place = "none"
        /\ ~isShellWrapper(e.text) /\ e.text \notin stdinInterpreterExecutables
  BY WordIs DEF Plain, isShellWrapper, ShellExecutables, stdinInterpreterExecutables
<1>3. wrapper \in {<<e1, a>>, <<e2>>, <<e3>>, <<e4, n, five>>, <<e5, k, one, five>>, <<e6, n, one>>}
  BY DEF Wrappers
<1> HIDE DEF e1, e2, e3, e4, e5, e6, a, n, k, five, one
<1>4. wrapper \in Seq(Neutral) /\ wrapper # <<>> /\ Head(wrapper) \in {e1, e2, e3, e4, e5, e6}
  <2>1. /\ <<e1, a>> \in Seq(Neutral) /\ <<e2>> \in Seq(Neutral) /\ <<e3>> \in Seq(Neutral)
        /\ <<e4, n, five>> \in Seq(Neutral) /\ <<e5, k, one, five>> \in Seq(Neutral)
        /\ <<e6, n, one>> \in Seq(Neutral)
    BY <1>1
  <2>2. \A x, y, z, w : /\ Head(<<x>>) = x /\ Head(<<x, y>>) = x /\ Head(<<x, y, z>>) = x
                        /\ Head(<<x, y, z, w>>) = x
                        /\ <<x>> # <<>> /\ <<x, y>> # <<>> /\ <<x, y, z>> # <<>> /\ <<x, y, z, w>> # <<>>
    OBVIOUS
  <2>3. wrapper \in Seq(Neutral)
    BY <1>3, <2>1
  <2>4. wrapper # <<>> /\ Head(wrapper) \in {e1, e2, e3, e4, e5, e6}
    BY <1>3, <2>2
  <2> QED
    BY <2>3, <2>4
<1> QED
  BY <1>2, <1>4

\* What decides a segment.
LEMMA MarksAreFine ==
  ASSUME NEW s, NEW q, NEW m, HasMarks(s, q, m)
  PROVE  /\ Fields[s] # <<>> <=> q # <<>>
         /\ Fine(s) <=> q # <<>> /\ Allowed(evaluatePolicySingle[q])
         /\ q # <<>> => Head(Fields[s]) = Head(q) /\ Head(q).kind = "plain"
<1>1. /\ q \in Seq(Unmarked) /\ m \in Seq(Pluses) /\ Fields[s] = q \o m
      /\ q = <<>> => m = <<>>
      /\ q # <<>> => Head(q).kind = "plain"
      /\ q # <<>> => (Allowed(evaluatePolicySingle[q \o m]) <=> Allowed(evaluatePolicySingle[q]))
  BY DEF HasMarks
<1>2. (q # <<>> => q \o m # <<>> /\ Head(q \o m) = Head(q)) /\ (m = <<>> => q \o m = q)
  BY <1>1, MarksAre
<1> QED
  BY <1>1, <1>2 DEF Fine

\* Wrapping a segment.
LEMMA WrapGood ==
  ASSUME NEW s, Good(s), Fields[s] # <<>>, NEW wrapper \in Wrappers
  PROVE  /\ Good(wrapper \o s)
         /\ Fine(wrapper \o s) <=> Fine(s)
         /\ ~IsStdinSegment(wrapper \o s)
<1>1. PICK q, m : HasMarks(s, q, m)
  BY DEF Good
<1>2. s \in Seq(SimpleWords) /\ s # <<>> /\ s \in Seq(Words)
  BY SimpleWordsAreWords DEF Good
<1>3. /\ q \in Seq(Unmarked) /\ m \in Seq(Pluses) /\ Fields[s] = q \o m /\ q # <<>>
      /\ Head(q).kind = "plain"
      /\ PathHit(q) => ~Allowed(evaluatePolicySingle[q])
      /\ Allowed(evaluatePolicySingle[q \o m]) <=> Allowed(evaluatePolicySingle[q])
  BY <1>1, MarksAreFine DEF HasMarks
<1>4. /\ wrapper \in Seq(Neutral) /\ wrapper # <<>>
      /\ Head(wrapper).kind = "plain" /\ Head(wrapper).place = "none"
      /\ ~isShellWrapper(Head(wrapper).text) /\ Head(wrapper).text \notin stdinInterpreterExecutables
  BY WrapperIs
<1>5. /\ wrapper \in Seq(SimpleWords) /\ wrapper \in Seq(Words) /\ wrapper \in Seq(Unmarked) /\ Fields[wrapper] = wrapper
      /\ \A i \in DOMAIN wrapper : wrapper[i] \in Quiet
  BY <1>4, NeutralIs
<1>6. /\ q \in Seq(Words) /\ m \in Seq(Words) /\ q \o m \in Commandlines /\ q \in Commandlines
      /\ Head(q \o m).kind = "plain"
  BY <1>3, MarksAre DEF Commandlines
<1> DEFINE r == wrapper \o q
<1>7. r \in Seq(Unmarked) /\ r # <<>> /\ Head(r) = Head(wrapper)
  BY <1>3, <1>4, <1>5, ConcatHead
<1>8. Fields[wrapper \o s] = r \o m
  <2>1. Fields[wrapper \o s] = wrapper \o (q \o m)
    BY <1>2, <1>3, <1>5, FieldsConcat
  <2> QED
    BY <1>5, <1>6, <2>1, ConcatWords
<1>9. /\ evaluatePolicySingle[r] = evaluatePolicySingle[q]
      /\ evaluatePolicySingle[r \o m] = evaluatePolicySingle[q \o m]
  <2>1. evaluatePolicySingle[r] = evaluatePolicySingle[q]
    BY <1>3, <1>6, WrappedIsDecidedAlike
  <2>2. evaluatePolicySingle[wrapper \o (q \o m)] = evaluatePolicySingle[q \o m]
    BY <1>6, WrappedIsDecidedAlike
  <2>3. wrapper \o (q \o m) = r \o m
    BY <1>5, <1>6, ConcatWords
  <2> QED
    BY <2>1, <2>2, <2>3
<1>10. PathHit(r) <=> PathHit(q)
  BY <1>5, <1>6, QuietFront
<1> HIDE DEF r
<1>11. HasMarks(wrapper \o s, r, m)
  BY <1>3, <1>4, <1>7, <1>8, <1>9, <1>10 DEF HasMarks
<1>12. wrapper \o s \in Seq(SimpleWords) /\ wrapper \o s # <<>>
  BY <1>2, <1>4, <1>5, ConcatHead
<1>13. Fine(wrapper \o s) <=> Fine(s)
  BY <1>1, <1>3, <1>7, <1>9, <1>11, MarksAreFine
<1>14. ~IsStdinSegment(wrapper \o s)
  BY <1>4, <1>7, <1>11, MarksAreFine DEF IsStdinSegment, isStdinShellSegment
<1> QED
  BY <1>11, <1>12, <1>13, <1>14 DEF Good

\* The ends of a command under find that the policy sees: the \; is cut off.
FindEnds == {<<Plain("+")>>, <<>>}

\* Putting a segment under find.
LEMMA FindGood ==
  ASSUME NEW s, Good(s), NEW plus \in FindEnds
  PROVE  /\ Good(FindWords \o s \o plus)
         /\ Fine(FindWords \o s \o plus) <=> Fine(s)
         /\ ~IsStdinSegment(FindWords \o s \o plus)
<1> DEFINE t == FindWords \o s \o plus
<1>1. PICK q, m : HasMarks(s, q, m)
  BY DEF Good
<1>2. s \in Seq(SimpleWords) /\ s # <<>> /\ s \in Seq(Words)
  BY SimpleWordsAreWords DEF Good
<1>3. /\ q \in Seq(Unmarked) /\ m \in Seq(Pluses) /\ Fields[s] = q \o m /\ (q = <<>> => m = <<>>)
      /\ q # <<>> => (PathHit(q) => ~Allowed(evaluatePolicySingle[q]))
  BY <1>1 DEF HasMarks
<1>4. FindWords \in Seq(Neutral) /\ FindWords # <<>> /\ Head(FindWords) = Plain("find")
  <2> DEFINE e == Plain("find")
             a == Plain(".")
             b == Flag("-exec")
  <2>1. e \in Neutral /\ a \in Neutral /\ b \in Neutral /\ FindWords = <<e, a, b>>
    BY NeutralWords DEF FindWords
  <2> HIDE DEF e, a, b
  <2>2. <<e, a, b>> \in Seq(Neutral) /\ <<e, a, b>> # <<>> /\ Head(<<e, a, b>>) = e
    BY <2>1
  <2> QED
    BY <2>1, <2>2 DEF e
<1>5. /\ FindWords \in Seq(SimpleWords) /\ FindWords \in Seq(Words) /\ FindWords \in Seq(Unmarked) /\ Fields[FindWords] = FindWords
      /\ \A i \in DOMAIN FindWords : FindWords[i] \in Quiet
  BY <1>4, NeutralIs
<1>6. /\ plus \in Seq(Pluses) /\ plus \in Seq(SimpleWords) /\ plus \in Seq(Words) /\ Fields[plus] = plus
  <2> DEFINE p == Plain("+")
             z == <<>>
  <2>1. p \in Pluses /\ p \in SimpleWords /\ p \in Words /\ p \in Bare(Words)
    BY PlusesAre, SimpleWordsAreWords DEF Pluses, Bare
  <2> HIDE DEF p
  <2>2. <<p>> \in Seq(Pluses) /\ <<p>> \in Seq(SimpleWords) /\ <<p>> \in Seq(Words) /\ <<p>> \in Seq(Bare(Words))
    BY <2>1
  <2>3. z \in Seq(Pluses) /\ z \in Seq(SimpleWords) /\ z \in Seq(Words) /\ z \in Seq(Bare(Words))
    OBVIOUS
  <2>4. plus = <<p>> \/ plus = z
    BY Zenon DEF FindEnds, p
  <2> HIDE DEF p, z
  <2> QED
    BY <2>2, <2>3, <2>4, FieldsKeep
<1>7. q \in Seq(Words) /\ m \in Seq(Words)
  BY <1>3, MarksAre
<1> DEFINE r == FindWords \o q
           n == m \o plus
<1>8. r \in Seq(Unmarked) /\ r # <<>> /\ Head(r) = Plain("find") /\ n \in Seq(Pluses) /\ r \in Seq(Words)
  BY <1>3, <1>4, <1>5, <1>6, <1>7, ConcatHead
<1>9. Fields[t] = r \o n /\ r \o n = FindWords \o (q \o n)
  <2>1. Fields[FindWords \o s] = FindWords \o (q \o m)
    BY <1>2, <1>3, <1>5, FieldsConcat
  <2>2. FindWords \o s \in Seq(Words)
    BY <1>2, <1>5, ConcatWords
  <2>3. Fields[t] = (FindWords \o (q \o m)) \o plus
    BY <1>6, <2>1, <2>2, FieldsConcat
  <2>4. (FindWords \o (q \o m)) = r \o m
    BY <1>5, <1>7, ConcatWords
  <2>5. (r \o m) \o plus = r \o n
    <3> HIDE DEF r
    <3> QED
      BY <1>6, <1>7, <1>8, ConcatWords
  <2>6. n \in Seq(Words)
    BY <1>6, <1>7, ConcatWords
  <2>7. r \o n = FindWords \o (q \o n)
    BY <1>5, <1>7, <2>6, ConcatWords
  <2> QED
    BY <2>3, <2>4, <2>5, <2>7
<1>10. Allowed(evaluatePolicySingle[r \o n]) <=> ~PathHit(q) /\ q # <<>> /\ Allowed(evaluatePolicySingle[q])
  <2>1. q \in Seq(Unmarked) /\ n \in Seq(Pluses) /\ r \o n = FindWords \o (q \o n)
    BY <1>3, <1>8, <1>9
  <2> HIDE DEF r, n
  <2> QED
    BY <2>1, FindRuns
<1>11. Allowed(evaluatePolicySingle[r]) <=> ~PathHit(q) /\ q # <<>> /\ Allowed(evaluatePolicySingle[q])
  <2> DEFINE z == <<>>
  <2>1. z \in Seq(Pluses) /\ q \o z = q
    BY <1>7
  <2> HIDE DEF z
  <2>2. Allowed(evaluatePolicySingle[FindWords \o (q \o z)]) <=> ~PathHit(q) /\ q # <<>> /\ Allowed(evaluatePolicySingle[q])
    BY <1>3, <2>1, FindRuns
  <2> QED
    BY <2>1, <2>2
<1>12. PathHit(r) <=> PathHit(q)
  BY <1>5, <1>7, QuietFront
<1>13. ~isShellWrapper("find") /\ "find" \notin stdinInterpreterExecutables
  BY DEF isShellWrapper, ShellExecutables, stdinInterpreterExecutables
<1>14. Head(r).text = "find" /\ Head(r).kind = "plain" /\ Head(r).place = "none"
  BY <1>8, FindWordsAre DEF Quiet
<1> HIDE DEF r, n, t
<1>15. HasMarks(t, r, n)
  BY <1>8, <1>9, <1>10, <1>11, <1>12, <1>13, <1>14 DEF HasMarks
<1>16. t \in Seq(SimpleWords) /\ t # <<>>
  <2>1. FindWords \o s \in Seq(SimpleWords) /\ FindWords \o s # <<>>
    BY <1>2, <1>4, <1>5, ConcatHead
  <2> QED
    BY <1>6, <2>1, ConcatHead DEF t
<1>17. Fine(t) <=> Fine(s)
  BY <1>1, <1>3, <1>8, <1>11, <1>15, MarksAreFine
<1>18. ~IsStdinSegment(t)
  BY <1>8, <1>13, <1>14, <1>15, MarksAreFine DEF IsStdinSegment, isStdinShellSegment
<1> QED
  BY <1>15, <1>16, <1>17, <1>18 DEF Good, t

\* A segment that ends in a shell and the quoted script M.
QuotingParts(s, u, flag, M) ==
  /\ ShellFront(u, flag) /\ M \in SimpleScripts /\ M # <<>>
  /\ \A i \in DOMAIN M : M[i] # <<>> /\ NoSubstitution(M[i])
  /\ s = u \o ShellWords(flag, M)

Quoting(s) == \E u, flag, M : QuotingParts(s, u, flag, M)
Composable(s) == Good(s) \/ Quoting(s)

\* What the pieces of a segment contribute to the line's decision.
SegmentWell(s) ==
  /\ s \in Seq(Words) /\ s # <<>>
  /\ SplitSegment(s) \in Nested(Words) /\ SplitSegment(s) # <<>>
  /\ \A j \in DOMAIN SplitSegment(s) : SplitSegment(s)[j] # <<>>
SegmentFine(s) == \A j \in DOMAIN SplitSegment(s) : Fine(SplitSegment(s)[j])
SegmentReads(s) == \E j \in DOMAIN SplitSegment(s) : IsStdinSegment(SplitSegment(s)[j])
SegmentReadsLater(s) == \E j \in DOMAIN SplitSegment(s) : j # 1 /\ IsStdinSegment(SplitSegment(s)[j])

LEMMA GoodPieces ==
  ASSUME NEW s, Good(s)
  PROVE  /\ SegmentWell(s) /\ (SegmentFine(s) <=> Fine(s))
         /\ (SegmentReads(s) <=> IsStdinSegment(s)) /\ ~SegmentReadsLater(s)
<1>1. s \in Seq(SimpleWords) /\ s # <<>> /\ s \in Seq(Words)
  BY SimpleWordsAreWords DEF Good
<1>2. SplitSegment(s) = <<s>>
  BY <1>1, SplitSimpleSegment
<1> DEFINE p == <<s>>
<1>3. DOMAIN p = {1} /\ p[1] = s /\ p # <<>>
  OBVIOUS
<1>4. p \in Nested(Words)
  <2> DEFINE T == Seq(Words)
  <2>1. \A x \in T : <<x>> \in Seq(T)
    OBVIOUS
  <2> QED
    BY <1>1, <2>1 DEF Nested
<1>5. SplitSegment(s) = p
  BY <1>2
<1> HIDE DEF p
<1> QED
  BY <1>1, <1>3, <1>4, <1>5 DEF SegmentWell, SegmentFine, SegmentReads, SegmentReadsLater

LEMMA QuotingPieces ==
  ASSUME NEW s, NEW u, NEW flag, NEW M, QuotingParts(s, u, flag, M)
  PROVE  /\ SegmentWell(s) /\ Fields[s] = s /\ s \in Commandlines
         /\ SegmentFine(s) <=> \A j \in DOMAIN M : Fine(M[j])
         /\ SegmentReads(s) <=> \E j \in DOMAIN M : j # 1 /\ IsStdinSegment(M[j])
         /\ SegmentReadsLater(s) <=> \E j \in DOMAIN M : j # 1 /\ IsStdinSegment(M[j])
<1> DEFINE p == SplitSegment(s)
           n == Len(M)
           first == u \o ShellWords(flag, <<M[1]>>)
<1>1. /\ ShellFront(u, flag) /\ M \in SimpleScripts /\ M # <<>> /\ s = u \o ShellWords(flag, M)
      /\ \A i \in DOMAIN M : M[i] # <<>> /\ NoSubstitution(M[i])
  BY DEF QuotingParts
<1>2. u \in Seq(SimpleWords) /\ flag \in ShellFlags
  BY <1>1 DEF ShellFront
<1>3. s \in Commandlines /\ Fields[s] = s
  BY <1>1, FrontIs
<1>4. /\ Len(p) = n /\ DOMAIN p = 1..n /\ p[1] = first
      /\ \A j \in 2..n : p[j] = M[j]
      /\ n >= 1 /\ n \in Nat
      /\ \A j \in 1..n : M[j] \in Seq(SimpleWords)
      /\ p \in Nested(Words)
  BY <1>1, <1>2, SplitQuoting
<1>5. DOMAIN M = 1..n
  BY <1>1, LenProperties DEF SimpleScripts, Nested
<1>6. 1 \in 1..n /\ \A j \in 1..n : j = 1 \/ j \in 2..n
  BY <1>4
<1>7. <<M[1]>> \in SimpleScripts
  <2> DEFINE T == Seq(SimpleWords)
  <2>1. \A x \in T : <<x>> \in Seq(T)
    OBVIOUS
  <2> QED
    BY <1>4, <1>6, <2>1 DEF SimpleScripts, Nested
<1>8. Fine(first) <=> Fine(M[1])
  BY <1>1, <1>4, <1>5, <1>6, ShellRuns
<1>9. ~IsStdinSegment(first)
  BY <1>1, <1>7, FrontReadsNoScript
<1>10. first # <<>>
  BY <1>1, <1>7, FrontIs DEF Commandlines
<1> HIDE DEF p, n, first
<1>11. p # <<>>
  <2>1. DOMAIN <<>> = {}
    OBVIOUS
  <2> QED
    BY <1>4, <1>6, <2>1
<1>12. \A j \in 1..n : p[j] # <<>>
  BY <1>1, <1>4, <1>5, <1>6, <1>10
<1>13. SegmentWell(s)
  BY <1>3, <1>4, <1>11, <1>12 DEF SegmentWell, Commandlines, p
<1>14. SegmentFine(s) <=> \A j \in DOMAIN M : Fine(M[j])
  <2>1. \A j \in 1..n : Fine(p[j]) <=> Fine(M[j])
    BY <1>4, <1>6, <1>8
  <2> QED
    BY <1>4, <1>5, <2>1 DEF SegmentFine, p
<1>15. \A j \in 1..n : IsStdinSegment(p[j]) <=> j # 1 /\ IsStdinSegment(M[j])
  <2>1. \A j \in 2..n : j # 1
    BY <1>4
  <2> QED
    BY <1>4, <1>6, <1>9, <2>1
<1> QED
  BY <1>3, <1>4, <1>5, <1>13, <1>14, <1>15 DEF SegmentReads, SegmentReadsLater, p

LEMMA ComposableIs ==
  ASSUME NEW s, Composable(s)
  PROVE  SegmentWell(s) /\ (SegmentReadsLater(s) => SegmentReads(s))
<1>1. CASE Good(s)
  BY <1>1, GoodPieces
<1>2. CASE Quoting(s)
  BY <1>2, QuotingPieces DEF Quoting
<1> QED
  BY <1>1, <1>2 DEF Composable

-----------------------------------------------------------------------------
(* What a segment keeps when something is put before or around it.         *)

\* The words of c are words of s.
Within(c, s) == \A k \in DOMAIN c : \E j \in DOMAIN s : s[j] = c[k]

Carries(s, t) ==
  /\ Composable(t)
  /\ SegmentFine(t) <=> SegmentFine(s)
  /\ SegmentReads(t) => SegmentReads(s)
  /\ SegmentReadsLater(s) => SegmentReadsLater(t)
  /\ NoSubstitution(t) <=> NoSubstitution(s)
  /\ Has(t, FetchTools) <=> Has(s, FetchTools)
  /\ Within(s, t)

\* What the words around a segment must be.
Inert == {w \in SimpleWords : w.text \notin FetchTools /\ w.kind \notin {"body", "substitution"}}

LEMMA InertAround ==
  ASSUME NEW u \in Seq(Inert), NEW s \in Seq(Words), NEW v \in Seq(Inert)
  PROVE  /\ NoSubstitution(u \o s \o v) <=> NoSubstitution(s)
         /\ Has(u \o s \o v, FetchTools) <=> Has(s, FetchTools)
         /\ Within(s, u \o s \o v)
<1> DEFINE t == u \o s \o v
           m == Len(u)
           n == Len(s)
           k == Len(v)
<1>1. m \in Nat /\ n \in Nat /\ k \in Nat /\ DOMAIN s = 1..n
  BY LenProperties
<1>2. u \in Seq(Words) /\ v \in Seq(Words)
  <2>1. Inert \subseteq Words
    BY SimpleWordsAreWords DEF Inert
  <2> QED
    BY <2>1, SeqMonotonic
<1>3. /\ DOMAIN t = 1..m + n + k
      /\ \A i \in 1..m : t[i] = u[i]
      /\ \A i \in 1..n : t[m + i] = s[i]
      /\ \A i \in 1..k : t[m + n + i] = v[i]
  <2>1. u \o s \in Seq(Words) /\ Len(u \o s) = m + n
        /\ \A i \in 1..m + n : (u \o s)[i] = IF i <= m THEN u[i] ELSE s[i - m]
    BY <1>2, ConcatProperties
  <2> DEFINE r == u \o s
  <2>2. t \in Seq(Words) /\ Len(t) = Len(r) + k
        /\ \A i \in 1..Len(r) + k : t[i] = IF i <= Len(r) THEN r[i] ELSE v[i - Len(r)]
    BY <1>2, <2>1, ConcatProperties
  <2>3. DOMAIN t = 1..Len(t)
    BY <2>2, LenProperties
  <2> HIDE DEF t, m, n, k
  <2>4. \A i \in 1..m : i \in 1..m + n /\ i <= m /\ i <= m + n /\ i \in 1..m + n + k
    BY <1>1
  <2>5. \A i \in 1..n : m + i \in 1..m + n /\ ~(m + i <= m) /\ m + i <= m + n /\ (m + i) - m = i /\ m + i \in 1..m + n + k
    BY <1>1
  <2>6. \A i \in 1..k : m + n + i \in 1..m + n + k /\ ~(m + n + i <= m + n) /\ (m + n + i) - (m + n) = i
    BY <1>1
  <2>7. Len(r) = m + n /\ \A i \in 1..m + n : r[i] = IF i <= m THEN u[i] ELSE s[i - m]
    BY <2>1
  <2> HIDE DEF r
  <2>8. \A i \in 1..m + n + k : t[i] = IF i <= m + n THEN r[i] ELSE v[i - (m + n)]
    BY <2>2, <2>7
  <2>9. DOMAIN t = 1..m + n + k
    BY <2>2, <2>3, <2>7
  <2>10. \A i \in 1..m : t[i] = u[i]
    BY <2>4, <2>7, <2>8
  <2>11. \A i \in 1..n : t[m + i] = s[i]
    <3> SUFFICES ASSUME NEW i \in 1..n PROVE t[m + i] = s[i]
      OBVIOUS
    <3>1. t[m + i] = r[m + i]
      BY <2>5, <2>8
    <3>2. r[m + i] = s[(m + i) - m]
      BY <2>5, <2>7
    <3> QED
      BY <2>5, <3>1, <3>2
  <2>12. \A i \in 1..k : t[m + n + i] = v[i]
    <3> SUFFICES ASSUME NEW i \in 1..k PROVE t[m + n + i] = v[i]
      OBVIOUS
    <3>1. t[m + n + i] = v[(m + n + i) - (m + n)]
      BY <2>6, <2>8
    <3> QED
      BY <2>6, <3>1
  <2> QED
    BY <2>9, <2>10, <2>11, <2>12
<1>4. \A i \in 1..m : u[i] \in Inert
  BY ElementOfSeq
<1>5. \A i \in 1..k : v[i] \in Inert
  BY ElementOfSeq
<1> HIDE DEF t, m, n, k
<1>6. \A i \in 1..m + n + k : i \in 1..m \/ (\E j \in 1..n : i = m + j) \/ (\E j \in 1..k : i = m + n + j)
  <2> SUFFICES ASSUME NEW i \in 1..m + n + k, ~(i \in 1..m), ~(\E j \in 1..n : i = m + j)
               PROVE  \E j \in 1..k : i = m + n + j
    OBVIOUS
  <2>1. i > m
    BY <1>1
  <2>2. i > m + n
    <3>1. CASE i <= m + n
      <4>1. i - m \in 1..n /\ i = m + (i - m)
        BY <1>1, <2>1, <3>1
      <4> QED
        BY <4>1
    <3> QED
      BY <1>1, <3>1
  <2>3. i - (m + n) \in 1..k /\ i = m + n + (i - (m + n))
    BY <1>1, <2>2
  <2> QED
    BY <2>3
<1>7. \A i \in 1..n : m + i \in 1..m + n + k
  BY <1>1
<1>8. \A i \in DOMAIN t : t[i] \in Inert \/ \E j \in DOMAIN s : t[i] = s[j]
  <2> SUFFICES ASSUME NEW i \in 1..m + n + k
               PROVE  t[i] \in Inert \/ \E j \in 1..n : t[i] = s[j]
    BY <1>1, <1>3
  <2>1. CASE i \in 1..m
    BY <1>3, <1>4, <2>1
  <2>2. CASE \E j \in 1..n : i = m + j
    BY <1>3, <2>2
  <2>3. CASE \E j \in 1..k : i = m + n + j
    BY <1>3, <1>5, <2>3
  <2> QED
    BY <1>6, <2>1, <2>2, <2>3
<1>9. \A j \in DOMAIN s : \E i \in DOMAIN t : t[i] = s[j]
  BY <1>1, <1>3, <1>7
<1>10. NoSubstitution(t) <=> NoSubstitution(s)
  BY <1>8, <1>9 DEF NoSubstitution, Inert
<1>11. Has(t, FetchTools) <=> Has(s, FetchTools)
  BY <1>8, <1>9 DEF Has, Inert
<1>12. Within(s, t)
  BY <1>9 DEF Within
<1> QED
  BY <1>10, <1>11, <1>12 DEF t

LEMMA NeutralAround ==
  ASSUME NEW u \in Seq(Neutral), NEW s \in Seq(Words)
  PROVE  /\ NoSubstitution(u \o s) <=> NoSubstitution(s)
         /\ Has(u \o s, FetchTools) <=> Has(s, FetchTools)
         /\ Within(s, u \o s)
<1> DEFINE v == <<>>
<1>1. u \in Seq(Inert) /\ u \in Seq(Words)
  <2>1. Neutral \subseteq Inert
    BY DEF Neutral, Inert
  <2> QED
    BY <2>1, SeqMonotonic, NeutralIs
<1>2. v \in Seq(Inert) /\ u \o s \o v = u \o s
  BY <1>1
<1> HIDE DEF v
<1>3. /\ NoSubstitution(u \o s \o v) <=> NoSubstitution(s)
      /\ Has(u \o s \o v, FetchTools) <=> Has(s, FetchTools)
      /\ Within(s, u \o s \o v)
  BY <1>1, <1>2, InertAround
<1> QED
  BY <1>2, <1>3

\* Wrappers go before what is before a shell.
LEMMA WrappedFront ==
  ASSUME NEW u, NEW flag, ShellFront(u, flag), NEW wrapper \in Wrappers
  PROVE  ShellFront(wrapper \o u, flag)
<1> DEFINE w == wrapper \o u
<1>1. /\ u \in Seq(SimpleWords) /\ Fields[u] = u /\ flag \in ShellFlags /\ u \in Seq(Words)
  BY SimpleWordsAreWords DEF ShellFront
<1>2. /\ wrapper \in Seq(Neutral) /\ wrapper # <<>>
      /\ Head(wrapper).kind = "plain"
      /\ ~isShellWrapper(Head(wrapper).text) /\ Head(wrapper).text \notin stdinInterpreterExecutables
  BY WrapperIs
<1>3. wrapper \in Seq(SimpleWords) /\ wrapper \in Seq(Words) /\ Fields[wrapper] = wrapper
  BY <1>2, NeutralIs
<1>4. w \in Seq(SimpleWords) /\ w # <<>> /\ Head(w) = Head(wrapper)
  BY <1>1, <1>2, <1>3, ConcatHead
<1>5. Fields[w] = w
  BY <1>1, <1>3, FieldsConcat
<1> HIDE DEF w
<1>6. ASSUME NEW m \in SimpleScripts
      PROVE  peelCommandWrappers[w \o ShellWords(flag, m)] = ShellWords(flag, m)
  <2> DEFINE p == u \o ShellWords(flag, m)
  <2>1. p \in Commandlines /\ Head(p).kind = "plain" /\ peelCommandWrappers[p] = ShellWords(flag, m)
    <3>1. p \in Commandlines /\ Head(p).kind = "plain"
      BY FrontIs
    <3>2. peelCommandWrappers[p] = ShellWords(flag, m)
      BY DEF ShellFront
    <3> QED
      BY <3>1, <3>2
  <2>2. ShellWords(flag, m) \in Seq(Words)
    BY <1>1, ShellWordsType
  <2>3. w \o ShellWords(flag, m) = wrapper \o p
    BY <1>1, <1>3, <2>2, ConcatWords DEF w
  <2> HIDE DEF p
  <2>4. peelCommandWrappers[wrapper \o p] = peelCommandWrappers[p]
    BY <2>1, WrappedIsDecidedAlike
  <2> QED
    BY <2>1, <2>3, <2>4
<1>7. ShellFront(w, flag)
  BY <1>1, <1>2, <1>4, <1>5, <1>6 DEF ShellFront
<1> QED
  BY <1>7 DEF w

LEMMA WrapCarries ==
  ASSUME NEW s, Composable(s), Fields[s] # <<>>, NEW wrapper \in Wrappers
  PROVE  Carries(s, wrapper \o s)
<1> DEFINE t == wrapper \o s
<1>1. wrapper \in Seq(Neutral)
  BY WrapperIs
<1>2. s \in Seq(Words)
  BY ComposableIs DEF SegmentWell
<1>3. /\ NoSubstitution(t) <=> NoSubstitution(s)
      /\ Has(t, FetchTools) <=> Has(s, FetchTools)
      /\ Within(s, t)
  BY <1>1, <1>2, NeutralAround
<1>4. CASE Good(s)
  <2>1. Good(t) /\ (Fine(t) <=> Fine(s)) /\ ~IsStdinSegment(t)
    BY <1>4, WrapGood
  <2> HIDE DEF t
  <2>2. /\ SegmentFine(s) <=> Fine(s)
        /\ SegmentFine(t) <=> Fine(t)
        /\ ~SegmentReads(t) /\ ~SegmentReadsLater(s)
    BY <1>4, <2>1, GoodPieces
  <2>3. Carries(s, t)
    BY <1>3, <2>1, <2>2 DEF Carries, Composable
  <2> QED
    BY <2>3 DEF t
<1>5. CASE Quoting(s)
  <2>1. PICK u, flag, M : QuotingParts(s, u, flag, M)
    BY <1>5 DEF Quoting
  <2> DEFINE w == wrapper \o u
  <2>2. ShellFront(u, flag) /\ M \in SimpleScripts /\ s = u \o ShellWords(flag, M)
    BY <2>1 DEF QuotingParts
  <2>3. ShellFront(w, flag)
    BY <2>2, WrappedFront
  <2>4. t = w \o ShellWords(flag, M)
    <3>1. u \in Seq(Words) /\ flag \in ShellFlags
      BY <2>2, SimpleWordsAreWords DEF ShellFront
    <3>2. ShellWords(flag, M) \in Seq(Words)
      BY <2>2, <3>1, ShellWordsType
    <3>3. wrapper \in Seq(Words)
      BY <1>1, NeutralIs
    <3> QED
      BY <2>2, <3>1, <3>2, <3>3, ConcatWords
  <2> HIDE DEF w, t
  <2>5. QuotingParts(t, w, flag, M)
    BY <2>1, <2>3, <2>4 DEF QuotingParts
  <2>6. /\ SegmentFine(s) <=> SegmentFine(t)
        /\ SegmentReads(s) <=> SegmentReads(t)
        /\ SegmentReadsLater(s) <=> SegmentReadsLater(t)
    BY <2>1, <2>5, QuotingPieces
  <2>7. Composable(t)
    BY <2>5 DEF Composable, Quoting
  <2>8. Carries(s, t)
    BY <1>3, <2>6, <2>7 DEF Carries
  <2> QED
    BY <2>8 DEF t
<1> QED
  BY <1>4, <1>5 DEF Composable

LEMMA FindCarries ==
  ASSUME NEW s, Good(s), NEW v \in FindEnds
  PROVE  Carries(s, FindWords \o s \o v)
<1> DEFINE t == FindWords \o s \o v
<1>1. s \in Seq(Words)
  BY SimpleWordsAreWords DEF Good
<1>2. FindWords \in Seq(Inert)
  <2>1. Plain("find") \in Neutral /\ Plain(".") \in Neutral /\ Flag("-exec") \in Neutral
    BY NeutralWords
  <2>2. Neutral \subseteq Inert
    BY DEF Neutral, Inert
  <2> DEFINE e == Plain("find")
             a == Plain(".")
             b == Flag("-exec")
  <2>3. e \in Inert /\ a \in Inert /\ b \in Inert /\ FindWords = <<e, a, b>>
    BY <2>1, <2>2 DEF FindWords
  <2> HIDE DEF e, a, b
  <2>4. <<e, a, b>> \in Seq(Inert)
    BY <2>3
  <2> QED
    BY <2>3, <2>4
<1>3. v \in Seq(Inert)
  <2> DEFINE p == Plain("+")
  <2>1. p \in Pluses
    BY DEF Pluses
  <2>2. p \in SimpleWords /\ p.text = "+" /\ p.kind = "plain"
    BY <2>1, PlusesAre
  <2> HIDE DEF p
  <2>3. p \in Inert
    BY <2>2 DEF Inert, FetchTools
  <2>4. <<p>> \in Seq(Inert) /\ <<>> \in Seq(Inert)
    BY <2>3
  <2>5. v = <<p>> \/ v = <<>>
    BY Zenon DEF FindEnds, p
  <2> QED
    BY <2>4, <2>5
<1>4. /\ NoSubstitution(t) <=> NoSubstitution(s)
      /\ Has(t, FetchTools) <=> Has(s, FetchTools)
      /\ Within(s, t)
  BY <1>1, <1>2, <1>3, InertAround
<1>5. Good(t) /\ (Fine(t) <=> Fine(s)) /\ ~IsStdinSegment(t)
  BY FindGood
<1> HIDE DEF t
<1>6. /\ SegmentFine(s) <=> Fine(s)
      /\ SegmentFine(t) <=> Fine(t)
      /\ ~SegmentReads(t) /\ ~SegmentReadsLater(s)
  BY <1>5, GoodPieces
<1>7. Carries(s, t)
  BY <1>4, <1>5, <1>6 DEF Carries, Composable
<1> QED
  BY <1>7 DEF t

-----------------------------------------------------------------------------
(* Lines.                                                                  *)

IsLine(L) == L \in Nested(Words) /\ L # <<>> /\ \A i \in DOMAIN L : Composable(L[i])

LEMMA LineDomain ==
  ASSUME NEW L \in Nested(Words), L # <<>>
  PROVE  /\ DOMAIN L = 1..Len(L) /\ Len(L) \in Nat /\ Len(L) >= 1 /\ 1 \in DOMAIN L
         /\ Head(L) = L[1] /\ \A i \in DOMAIN L : L[i] \in Seq(Words)
<1> DEFINE T == Seq(Words)
<1>1. L \in Seq(T)
  BY DEF Nested
<1> HIDE DEF T
<1>2. DOMAIN L = 1..Len(L) /\ Len(L) \in Nat /\ Len(L) # 0
  BY <1>1, LenProperties, EmptySeq
<1>3. Head(L) = L[1]
  BY <1>1
<1>4. \A i \in DOMAIN L : L[i] \in T
  BY <1>1, <1>2, ElementOfSeq
<1> QED
  BY <1>2, <1>3, <1>4 DEF T

LEMMA LineSplit ==
  ASSUME NEW L, IsLine(L)
  PROVE  /\ WellSplit(L)
         /\ Verdict(L) <=> \A i \in DOMAIN L : SegmentFine(L[i])
         /\ ReadsScript(L) <=> \/ SegmentReadsLater(L[1])
                               \/ \E i \in DOMAIN L : i # 1 /\ SegmentReads(L[i])
<1>1. L \in Nested(Words) /\ L # <<>> /\ \A i \in DOMAIN L : SegmentWell(L[i])
  BY ComposableIs DEF IsLine
<1>2. 1 \in DOMAIN L
  BY <1>1, LineDomain
<1>3. WellSplit(L)
  BY <1>1 DEF WellSplit, SegmentWell
<1>4. Verdict(L) <=> \A i \in DOMAIN L : SegmentFine(L[i])
  BY DEF Verdict, SegmentFine
<1>5. \A i \in DOMAIN L :
        (\E j \in DOMAIN SplitSegment(L[i]) : ~IsFirst(i, j) /\ IsStdinSegment(SplitSegment(L[i])[j]))
          <=> IF i = 1 THEN SegmentReadsLater(L[1]) ELSE SegmentReads(L[i])
  BY DEF IsFirst, SegmentReadsLater, SegmentReads
<1>6. ReadsScript(L) <=> \E i \in DOMAIN L : IF i = 1 THEN SegmentReadsLater(L[1]) ELSE SegmentReads(L[i])
  BY <1>5 DEF ReadsScript
<1> QED
  BY <1>2, <1>3, <1>4, <1>6

\* The words of a shell and its script, the quoted ones included.
LEMMA QuotingWords ==
  ASSUME NEW s, NEW u, NEW flag, NEW M, QuotingParts(s, u, flag, M)
  PROVE  /\ \A i \in DOMAIN s : s[i] \in SimpleWords \/ s[i] = Body(M)
         /\ \E i \in DOMAIN s : s[i] = Body(M)
         /\ Body(M).kind = "body" /\ Body(M).script = M /\ Body(M).text = "script"
<1>1. /\ ShellFront(u, flag) /\ M \in SimpleScripts /\ s = u \o ShellWords(flag, M)
      /\ u \in Seq(SimpleWords) /\ flag \in ShellFlags
  BY DEF QuotingParts, ShellFront
<1> DEFINE v == ShellWords(flag, M)
           m == Len(u)
<1>2. v \in Seq(Words) /\ Len(v) = 3 /\ v[1] = Plain("bash") /\ v[2] = Flag(flag) /\ v[3] = Body(M)
  BY <1>1, ShellWordsType
<1>3. Plain("bash") \in SimpleWords /\ Flag(flag) \in SimpleWords
  BY <1>1, ShellWordsAre
<1>4. u \in Seq(Words) /\ m \in Nat /\ \A i \in 1..m : u[i] \in SimpleWords
  BY <1>1, SimpleWordsAreWords, LenProperties, ElementOfSeq
<1> HIDE DEF v, m
<1>5. /\ Len(u \o v) = m + 3 /\ u \o v \in Seq(Words)
      /\ \A i \in 1..m + 3 : (u \o v)[i] = IF i <= m THEN u[i] ELSE v[i - m]
  <2>1. /\ u \o v \in Seq(Words) /\ Len(u \o v) = Len(u) + Len(v)
        /\ \A i \in 1..Len(u) + Len(v) : (u \o v)[i] = IF i <= Len(u) THEN u[i] ELSE v[i - Len(u)]
    BY <1>2, <1>4, ConcatProperties
  <2> QED
    BY <1>2, <2>1 DEF m
<1>6. s = u \o v
  BY <1>1 DEF v
<1>7. DOMAIN s = 1..m + 3 /\ \A i \in 1..m + 3 : s[i] = IF i <= m THEN u[i] ELSE v[i - m]
  BY <1>5, <1>6, LenProperties
<1>8. \A i \in 1..m + 3 : s[i] \in SimpleWords \/ s[i] = Body(M)
  <2> SUFFICES ASSUME NEW i \in 1..m + 3 PROVE s[i] \in SimpleWords \/ s[i] = Body(M)
    OBVIOUS
  <2>1. CASE i <= m
    <3>1. i \in 1..m
      BY <1>4, <2>1
    <3> QED
      BY <1>4, <1>7, <2>1, <3>1
  <2>2. CASE ~(i <= m)
    <3>1. i - m = 1 \/ i - m = 2 \/ i - m = 3
      BY <1>4, <2>2
    <3>2. s[i] = v[i - m]
      BY <1>7, <2>2
    <3> QED
      BY <1>2, <1>3, <3>1, <3>2
  <2> QED
    BY <2>1, <2>2
<1>9. m + 3 \in DOMAIN s /\ s[m + 3] = Body(M)
  <2>1. m + 3 \in 1..m + 3 /\ ~(m + 3 <= m) /\ (m + 3) - m = 3
    BY <1>4
  <2>2. s[m + 3] = v[(m + 3) - m]
    BY <1>7, <2>1
  <2> QED
    BY <1>2, <1>7, <2>1, <2>2
<1> QED
  BY <1>1, <1>7, <1>8, <1>9, BodyIs

\* A line without a quoted script is a simple script.
LEMMA QuotableIsSimple ==
  ASSUME NEW L, IsLine(L), Quotable(L)
  PROVE  /\ L \in SimpleScripts
         /\ \A i \in DOMAIN L : Good(L[i]) /\ L[i] # <<>> /\ NoSubstitution(L[i])
<1>1. \A i \in DOMAIN L : \A j \in DOMAIN L[i] : L[i][j].kind \notin {"body", "substitution"}
  BY DEF Quotable, WordsOf
<1>2. ASSUME NEW i \in DOMAIN L PROVE Good(L[i])
  <2>1. ASSUME Quoting(L[i]) PROVE FALSE
    <3>1. PICK u, flag, M : QuotingParts(L[i], u, flag, M)
      BY <2>1 DEF Quoting
    <3>2. PICK j \in DOMAIN L[i] : L[i][j].kind = "body"
      BY <3>1, QuotingWords
    <3> QED
      BY <1>1, <3>2
  <2> QED
    BY <2>1 DEF IsLine, Composable
<1>3. \A i \in DOMAIN L : L[i] \in Seq(SimpleWords) /\ L[i] # <<>>
  BY <1>2 DEF Good
<1>4. L \in SimpleScripts
  <2> DEFINE T == Seq(SimpleWords)
             S == Seq(Words)
  <2>1. L \in Seq(S) /\ \A i \in DOMAIN L : L[i] \in T
    BY <1>3 DEF IsLine, Nested
  <2> HIDE DEF T, S
  <2>2. Len(L) \in Nat /\ DOMAIN L = 1..Len(L) /\ L = [i \in 1..Len(L) |-> L[i]]
    BY <2>1, LenProperties
  <2>3. L \in Seq(T)
    BY <2>1, <2>2
  <2> QED
    BY <2>3 DEF T, SimpleScripts, Nested
<1> QED
  BY <1>1, <1>2, <1>3, <1>4 DEF NoSubstitution

\* A substitution is never quoted.
LEMMA FetchIs ==
  ASSUME NEW L, IsLine(L)
  PROVE  hasFetchSubstitution(L) <=> /\ \E i \in DOMAIN L : ~NoSubstitution(L[i])
                                     /\ \E i \in DOMAIN L : Has(L[i], FetchTools)
<1>1. \A i \in DOMAIN L : Composable(L[i])
  BY DEF IsLine
<1>2. ASSUME NEW i \in DOMAIN L, NEW j \in DOMAIN L[i], NEW w \in WordsOf(L[i][j].script)
      PROVE  w.kind # "substitution"
  <2>1. CASE L[i][j] \in SimpleWords
    <3>1. L[i][j].script = <<>>
      BY <2>1, SimpleWordHasNoScript
    <3>2. WordsOf(<<>>) = {}
      BY DEF WordsOf
    <3>3. w \in WordsOf(<<>>)
      BY <1>2, <3>1, Zenon
    <3> QED
      BY <3>2, <3>3
  <2>2. CASE L[i][j] \notin SimpleWords
    <3>1. ~Good(L[i])
      <4>1. ASSUME Good(L[i]) PROVE FALSE
        <5> DEFINE s == L[i]
        <5>1. s \in Seq(SimpleWords) /\ j \in DOMAIN s
          BY <4>1 DEF Good
        <5> HIDE DEF s
        <5>2. s[j] \in SimpleWords
          BY <5>1, ElementOfSeq, LenProperties
        <5> QED
          BY <2>2, <5>2 DEF s
      <4> QED
        BY <4>1
    <3>2. PICK u, flag, M : QuotingParts(L[i], u, flag, M)
      BY <1>1, <3>1 DEF Composable, Quoting
    <3>3. L[i][j].script = M
      BY <2>2, <3>2, QuotingWords
    <3>4. \A k \in DOMAIN M : NoSubstitution(M[k])
      BY <3>2 DEF QuotingParts
    <3>5. w \in WordsOf(M)
      BY <1>2, <3>3, Zenon
    <3> QED
      BY <3>4, <3>5 DEF WordsOf, NoSubstitution
  <2> QED
    BY <2>1, <2>2
<1>3. (\E w \in AllWords(L) : w.kind = "substitution") <=> \E i \in DOMAIN L : ~NoSubstitution(L[i])
  <2>1. \A w \in AllWords(L) : w \in WordsOf(L) \/ w.kind # "substitution"
    BY <1>2 DEF AllWords, WordsOf
  <2>2. (\E w \in AllWords(L) : w.kind = "substitution") <=> \E w \in WordsOf(L) : w.kind = "substitution"
    BY <2>1 DEF AllWords
  <2> QED
    BY <2>2 DEF WordsOf, NoSubstitution
<1> QED
  BY <1>3 DEF hasFetchSubstitution

-----------------------------------------------------------------------------
(* The decision of a line that may begin with a shell.                     *)

LEMMA ScriptType ==
  ASSUME NEW m \in SimpleScripts
  PROVE  evaluatePolicyScript(m) \in Categories
<1>1. splitShellSegments(m) = m
  BY SplitSimple
<1>2. DOMAIN m \subseteq Nat /\ \A i \in DOMAIN m : m[i] \in Seq(SimpleWords)
  BY LenProperties, ElementOfSeq DEF SimpleScripts, Nested
<1>3. \A i \in DOMAIN m : SegmentDecision(m[i], i = 1, evaluatePolicySingle) \in Categories \cup {NoCategory}
  <2> SUFFICES ASSUME NEW i \in DOMAIN m
               PROVE  SegmentDecision(m[i], i = 1, evaluatePolicySingle) \in Categories \cup {NoCategory}
    OBVIOUS
  <2>1. CASE m[i] = <<>>
    BY <2>1 DEF SegmentDecision
  <2>2. CASE m[i] # <<>>
    <3>1. m[i] \in Seq(Words) /\ (i = 1) \in BOOLEAN
      BY <1>2, SimpleWordsAreWords
    <3> QED
      BY <2>2, <3>1, SegmentIsAllowed
  <2> QED
    BY <2>1, <2>2
<1> QED
  BY <1>1, <1>2, <1>3, ScriptDecisionType DEF evaluatePolicyScript

LEMMA OperatorIs ==
  /\ Operator \in Words /\ Operator.text = "script" /\ Operator.kind = "body"
  /\ ~isShellWrapper(Operator.text)
<1>1. <<<<>>, <<>>>> \in SimpleScripts
  <2> DEFINE T == Seq(SimpleWords)
  <2>1. \A x, y \in T : <<x, y>> \in Seq(T)
    OBVIOUS
  <2>2. <<>> \in T
    OBVIOUS
  <2> QED
    BY <2>1, <2>2 DEF SimpleScripts, Nested
<1>2. Operator \in Words /\ Operator.text = "script" /\ Operator.kind = "body"
  BY <1>1, BodyIs DEF Operator
<1> QED
  BY <1>2 DEF isShellWrapper, ShellExecutables

\* The words of a line begin with those of its first segment; an operator follows.
LEMMA LineWords ==
  ASSUME NEW L \in Nested(Words), L # <<>>
  PROVE  /\ splitShellWords(L) \in Seq(Words)
         /\ Len(L) = 1 => splitShellWords(L) = Fields[L[1]]
         /\ Len(L) # 1 => \E R \in Seq(Words) : splitShellWords(L) = Fields[L[1]] \o (<<Operator>> \o R)
<1> DEFINE ss == [i \in DOMAIN L |-> <<Operator>> \o L[i]]
           flat == FlattenSeq(ss)
<1>1. /\ DOMAIN L = 1..Len(L) /\ Len(L) \in Nat /\ Len(L) >= 1 /\ 1 \in DOMAIN L
      /\ \A i \in DOMAIN L : L[i] \in Seq(Words)
  BY LineDomain
<1>2. Operator \in Words /\ Operator.kind = "body"
  BY OperatorIs
<1>3. \A p \in Seq(Words) : <<Operator>> \o p \in Seq(Words) /\ Tail(<<Operator>> \o p) = p
  BY <1>2, ConsWord
<1>4. ss \in Nested(Words) /\ Len(ss) = Len(L) /\ \A i \in DOMAIN L : ss[i] = <<Operator>> \o L[i]
  <2> DEFINE T == Seq(Words)
  <2>1. \A i \in 1..Len(L) : <<Operator>> \o L[i] \in T
    BY <1>1, <1>3
  <2> HIDE DEF T
  <2>2. ss \in Seq(T) /\ Len(ss) = Len(L)
    BY <1>1, <2>1
  <2> QED
    BY <2>2 DEF T, Nested
<1>5. ss # <<>>
  <2>1. Len(<<>>) = 0
    BY EmptySeq
  <2> HIDE DEF ss
  <2>2. ASSUME ss = <<>> PROVE FALSE
    <3>1. Len(L) = 0
      BY <1>4, <2>1, <2>2, Zenon
    <3> QED
      BY <1>1, <3>1
  <2> QED
    BY <2>2
<1>6. splitShellWords(L) = Fields[Tail(flat)]
  BY DEF splitShellWords
<1> HIDE DEF ss, flat
<1>7. /\ flat \in Seq(Words)
      /\ BeginsWith(flat, ss[1], Words)
      /\ Len(ss) > 1 => BeginsWith(flat, ss[1] \o ss[2], Words)
      /\ Len(ss) = 1 => flat = ss[1]
  BY <1>4, <1>5, FlattenFront DEF flat
<1>8. ss[1] = <<Operator>> \o L[1] /\ L[1] \in Seq(Words) /\ Fields[L[1]] \in Seq(Words)
  BY <1>1, <1>4, FieldsAre
<1>9. ASSUME Len(L) = 1 PROVE splitShellWords(L) = Fields[L[1]]
  <2>1. flat = <<Operator>> \o L[1]
    BY <1>4, <1>7, <1>8, <1>9
  <2>2. Tail(flat) = L[1]
    BY <1>3, <1>8, <2>1
  <2> QED
    BY <1>6, <2>2, Zenon
<1>10. ASSUME Len(L) # 1
       PROVE  \E R \in Seq(Words) : splitShellWords(L) = Fields[L[1]] \o (<<Operator>> \o R)
  <2>0. Len(L) > 1
    <3>1. \A k \in Nat : k >= 1 /\ k # 1 => k > 1
      OBVIOUS
    <3> QED
      BY <1>1, <1>10, <3>1, Zenon
  <2>1. ss[2] = <<Operator>> \o L[2] /\ L[2] \in Seq(Words) /\ Len(ss) > 1
    <3>1. 2 \in DOMAIN L
      <4>1. \A k \in Nat : k > 1 => 2 \in 1..k
        OBVIOUS
      <4> QED
        BY <1>1, <2>0, <4>1, Zenon
    <3> QED
      BY <1>1, <1>4, <2>0, <3>1
  <2>2. PICK rest \in Seq(Words) : flat = (ss[1] \o ss[2]) \o rest
    BY <1>7, <2>1 DEF BeginsWith
  <2> DEFINE a == L[1]
             b == L[2]
             o == <<Operator>>
             R == Fields[b \o rest]
  <2>3. a \in Seq(Words) /\ b \in Seq(Words) /\ o \in Seq(Words)
    BY <1>2, <1>8, <2>1
  <2>4. flat = ((o \o a) \o (o \o b)) \o rest
    BY <1>8, <2>1, <2>2
  <2>5. R \in Seq(Words) /\ Fields[a] \in Seq(Words) /\ Fields[o \o (b \o rest)] = o \o R
    <3>1. b \o rest \in Seq(Words)
      BY <2>3, ConcatWords
    <3>2. R \in Seq(Words) /\ Fields[a] \in Seq(Words)
      BY <2>3, <3>1, FieldsAre
    <3>3. Fields[o \o (b \o rest)] = Kept(Operator) \o R
      BY <1>2, <3>1, FieldsCons
    <3>4. Kept(Operator) = o
      BY <1>2 DEF Kept
    <3> QED
      BY <3>2, <3>3, <3>4
  <2> HIDE DEF a, b, R
  <2>6. flat = o \o (a \o (o \o (b \o rest)))
    <3> HIDE DEF o
    <3>1. o \o a \in Seq(Words) /\ o \o b \in Seq(Words) /\ b \o rest \in Seq(Words)
      BY <2>3, ConcatWords
    <3>2. flat = (o \o a) \o ((o \o b) \o rest)
      <4> DEFINE x == o \o a
                 y == o \o b
      <4>1. flat = (x \o y) \o rest /\ x \in Seq(Words) /\ y \in Seq(Words)
        BY <2>4, <3>1
      <4> HIDE DEF x, y
      <4>2. flat = x \o (y \o rest)
        BY <4>1, ConcatWords
      <4> QED
        BY <4>2 DEF x, y
    <3>3. (o \o b) \o rest = o \o (b \o rest)
      BY <2>3, ConcatWords
    <3>4. o \o (b \o rest) \in Seq(Words)
      BY <2>3, <3>1, ConcatWords
    <3>5. (o \o a) \o (o \o (b \o rest)) = o \o (a \o (o \o (b \o rest)))
      <4> DEFINE x == o \o (b \o rest)
      <4>1. x \in Seq(Words)
        BY <3>4
      <4> HIDE DEF x
      <4>2. (o \o a) \o x = o \o (a \o x)
        BY <2>3, <4>1, ConcatWords, SMTT(40)
      <4> QED
        BY <4>2 DEF x
    <3> QED
      BY <3>2, <3>3, <3>5
  <2>7. o \o (b \o rest) \in Seq(Words) /\ a \o (o \o (b \o rest)) \in Seq(Words)
    <3> HIDE DEF o
    <3>1. b \o rest \in Seq(Words)
      BY <2>3, ConcatWords
    <3>2. o \o (b \o rest) \in Seq(Words)
      BY <2>3, <3>1, ConcatWords
    <3> QED
      BY <2>3, <3>2, ConcatWords
  <2>8. Tail(flat) = a \o (o \o (b \o rest))
    BY <1>3, <2>6, <2>7
  <2>9. Fields[Tail(flat)] = Fields[a] \o (o \o R)
    <3>1. Fields[a \o (o \o (b \o rest))] = Fields[a] \o Fields[o \o (b \o rest)]
      BY <2>3, <2>7, FieldsConcat
    <3> QED
      BY <2>5, <2>8, <3>1
  <2> QED
    BY <1>6, <2>5, <2>9 DEF a
<1>11. splitShellWords(L) \in Seq(Words)
  <2>1. flat # <<>>
    <3>1. PICK rest \in Seq(Words) : flat = ss[1] \o rest
      BY <1>7 DEF BeginsWith
    <3>2. <<Operator>> \o L[1] \in Seq(Words) /\ <<Operator>> \o L[1] # <<>>
      BY <1>2, <1>8, ConsWord
    <3> QED
      BY <1>8, <3>1, <3>2, ConcatHead
  <2>2. Tail(flat) \in Seq(Words)
    BY <1>7, <2>1, TailIs
  <2> QED
    BY <1>6, <2>2, FieldsAre
<1> QED
  BY <1>9, <1>10, <1>11

LEMMA ShellWordsInert ==
  ASSUME NEW flag \in ShellFlags, NEW m \in SimpleScripts
  PROVE  NoSubstitution(ShellWords(flag, m)) /\ ~Has(ShellWords(flag, m), FetchTools)
<1> DEFINE v == ShellWords(flag, m)
<1>1. v \in Seq(Words) /\ Len(v) = 3 /\ v[1] = Plain("bash") /\ v[2] = Flag(flag) /\ v[3] = Body(m)
  BY ShellWordsType
<1> HIDE DEF v
<1>2. DOMAIN v = 1..3
  BY <1>1, LenProperties
<1>3. \A i \in 1..3 : i = 1 \/ i = 2 \/ i = 3
  OBVIOUS
<1>4. Plain("bash").text = "bash" /\ Plain("bash").kind = "plain" /\ Flag(flag).text = flag
      /\ Flag(flag).kind = "flag" /\ Body(m).text = "script" /\ Body(m).kind = "body"
  BY ShellWordsAre, BodyIs
<1>5. \A i \in DOMAIN v : v[i].text \in {"bash", flag, "script"} /\ v[i].kind # "substitution"
  BY <1>1, <1>2, <1>3, <1>4
<1>6. \A x \in {"bash", flag, "script"} : x \notin FetchTools
  BY DEF ShellFlags, FetchTools
<1> QED
  BY <1>5, <1>6 DEF NoSubstitution, Has, v

\* The script of the shell a line begins with.
Unwrapped(L) ==
  /\ splitShellWords(L) # <<>> /\ isShellWrapper(Head(splitShellWords(L)).text)
  /\ extractShellScript(Tail(splitShellWords(L))) # <<>>

LEMMA UnwrappedIs ==
  ASSUME NEW L
  PROVE  normalizeCommandText(L) = IF Unwrapped(L)
                                   THEN evaluatePolicyScript(extractShellScript(Tail(splitShellWords(L))))
                                   ELSE evaluatePolicyScript(L)
  BY DEF normalizeCommandText, unwrapShellWrapperCommandText, Unwrapped

\* What is unwrapped begins with a shell.
LEMMA UnwrappedHead ==
  ASSUME NEW L \in Nested(Words), L # <<>>, Unwrapped(L)
  PROVE  /\ Fields[L[1]] # <<>> /\ isShellWrapper(Head(Fields[L[1]]).text)
         /\ extractShellScript(Tail(splitShellWords(L))) \in SimpleScripts
<1> DEFINE words == splitShellWords(L)
           first == Fields[L[1]]
<1>1. words \in Seq(Words) /\ (Len(L) = 1 => words = first)
      /\ (Len(L) # 1 => \E R \in Seq(Words) : words = first \o (<<Operator>> \o R))
  BY LineWords
<1>2. words # <<>> /\ isShellWrapper(Head(words).text) /\ extractShellScript(Tail(words)) # <<>>
  BY DEF Unwrapped
<1>3. first \in Seq(Words)
  BY LineDomain, FieldsAre
<1> HIDE DEF words, first
<1>4. first # <<>> /\ Head(words) = Head(first)
  <2>1. CASE Len(L) = 1
    BY <1>1, <1>2, <2>1
  <2>2. CASE Len(L) # 1
    <3>1. PICK R \in Seq(Words) : words = first \o (<<Operator>> \o R)
      BY <1>1, <2>2
    <3> DEFINE t == <<Operator>> \o R
    <3>2. t \in Seq(Words) /\ Head(t) = Operator
      BY OperatorIs, ConsWord
    <3>3. words = first \o t
      BY <3>1
    <3> HIDE DEF t
    <3>4. first # <<>>
      <4>1. ASSUME first = <<>> PROVE FALSE
        <5>1. words = t
          BY <3>2, <3>3, <4>1
        <5> QED
          BY <1>2, <3>2, <5>1, OperatorIs
      <4> QED
        BY <4>1
    <3>5. Head(first \o t) = Head(first)
      BY <1>3, <3>2, <3>4, ConcatHead
    <3> QED
      BY <3>3, <3>4, <3>5
  <2> QED
    BY <2>1, <2>2
<1>5. extractShellScript(Tail(words)) \in SimpleScripts
  <2>1. Tail(words) \in Seq(Words)
    BY <1>1, <1>2, TailIs
  <2>2. PICK w \in Words : extractShellScript(Tail(words)) = ScriptOf(w)
    BY <1>2, <2>1, ShellScriptIs
  <2> QED
    BY <2>2, ScriptOfIsSimple
<1> QED
  BY <1>2, <1>4, <1>5 DEF words, first

\* A shell with nothing to run is denied.
LEMMA BareShell ==
  ASSUME NEW s, Good(s), Fields[s] # <<>>, isShellWrapper(Head(Fields[s]).text)
  PROVE  ~Fine(s) /\ extractShellScript(Tail(Fields[s])) = <<>>
<1>1. PICK q, m : HasMarks(s, q, m)
  BY DEF Good
<1>2. q # <<>> /\ Head(Fields[s]) = Head(q)
  BY <1>1, MarksAreFine
<1>3. /\ q \in Seq(Unmarked) /\ m \in Seq(Pluses) /\ Fields[s] = q \o m
      /\ extractShellScript(Tail(q)) = <<>> /\ m = <<>> /\ peelCommandWrappers[q] = q
  BY <1>1, <1>2 DEF HasMarks
<1>4. Fields[s] = q /\ q \in Commandlines
  BY <1>2, <1>3, MarksAre DEF Commandlines
<1>5. evaluatePolicySingle[q] = CommandDecision(Head(q).text, Tail(q), evaluatePolicySingle)
  BY <1>3, <1>4, SingleDecides
<1>6. evaluatePolicySingle[q] = "deny_network_pipe"
  BY <1>2, <1>3, <1>5 DEF CommandDecision
<1>7. ~Allowed("deny_network_pipe")
  BY DenialsAreNotAllowed DEF DenyCategories
<1> QED
  BY <1>3, <1>4, <1>6, <1>7 DEF Fine

\* What is unwrapped from a line that begins with a shell and its script.
LEMMA QuotingIsUnwrapped ==
  ASSUME NEW L, IsLine(L), Unwrapped(L), NEW u, NEW flag, NEW M, QuotingParts(L[1], u, flag, M)
  PROVE  /\ extractShellScript(Tail(splitShellWords(L))) = M
         /\ L[1] = ShellWords(flag, M) /\ flag \in ShellFlags
<1>1. L \in Nested(Words) /\ L # <<>>
  BY DEF IsLine
<1>2. /\ ShellFront(u, flag) /\ M \in SimpleScripts /\ L[1] = u \o ShellWords(flag, M) /\ flag \in ShellFlags
  BY DEF QuotingParts, ShellFront
<1>3. Fields[L[1]] = L[1]
  BY QuotingPieces
<1>4. isShellWrapper(Head(L[1]).text)
  BY <1>1, <1>3, UnwrappedHead
<1>5. u = <<>>
  <2>1. ASSUME u # <<>> PROVE FALSE
    <3>1. Head(L[1]) = Head(u)
      BY <1>2, <2>1, FrontIs
    <3>2. ~isShellWrapper(Head(u).text)
      BY <1>2, <2>1 DEF ShellFront
    <3> QED
      BY <1>4, <3>1, <3>2
  <2> QED
    BY <2>1
<1>6. L[1] = ShellWords(flag, M)
  BY <1>2, <1>5, FrontIs
<1>7. extractShellScript(Tail(splitShellWords(L))) = M
  <2>1. CASE Len(L) = 1
    <3>1. splitShellWords(L) = ShellWords(flag, M)
      BY <1>1, <1>3, <1>6, <2>1, LineWords
    <3>2. extractShellScript(Tail(ShellWords(flag, M))) = M
      BY <1>2, ShellWordsType
    <3> QED
      BY <3>1, <3>2, Zenon
  <2>2. CASE Len(L) # 1
    <3>1. PICK R \in Seq(Words) : splitShellWords(L) = Fields[L[1]] \o (<<Operator>> \o R)
      BY <1>1, <2>2, LineWords
    <3> DEFINE t == <<Operator>> \o R
    <3>2. t \in Seq(Words)
      BY OperatorIs, ConsWord
    <3>3. splitShellWords(L) = ShellWords(flag, M) \o t
      BY <1>3, <1>6, <3>1
    <3> HIDE DEF t
    <3>4. extractShellScript(Tail(ShellWords(flag, M) \o t)) = M
      BY <1>2, <3>2, ShellScriptIsFound
    <3> QED
      BY <3>3, <3>4, Zenon
  <2> QED
    BY <2>1, <2>2
<1> QED
  BY <1>2, <1>6, <1>7

\* The decision of a line.
LEMMA LineDecision ==
  ASSUME NEW L, IsLine(L)
  PROVE  /\ normalizeCommandText(L) \in Categories
         /\ ~Allowed(normalizeCommandText(L)) => Refused(L)
         /\ Refused(L) /\ ~ShellLeads(L) => ~Allowed(normalizeCommandText(L))
<1> DEFINE x == extractShellScript(Tail(splitShellWords(L)))
           d == normalizeCommandText(L)
<1>1. L \in Nested(Words) /\ L # <<>> /\ 1 \in DOMAIN L /\ Composable(L[1]) /\ Head(L) = L[1]
      /\ DOMAIN L = 1..Len(L) /\ Len(L) \in Nat /\ Len(L) >= 1
  BY LineDomain DEF IsLine
<1>2. /\ WellSplit(L)
      /\ Verdict(L) <=> \A i \in DOMAIN L : SegmentFine(L[i])
      /\ ReadsScript(L) <=> \/ SegmentReadsLater(L[1])
                            \/ \E i \in DOMAIN L : i # 1 /\ SegmentReads(L[i])
  BY LineSplit
<1>3. d = IF Unwrapped(L) THEN evaluatePolicyScript(x) ELSE evaluatePolicyScript(L)
  BY UnwrappedIs
<1>4. CASE ~Unwrapped(L)
  BY <1>2, <1>3, <1>4, LineIsAllowed
<1>5. CASE Unwrapped(L)
  <2>1. Fields[L[1]] # <<>> /\ isShellWrapper(Head(Fields[L[1]]).text) /\ x \in SimpleScripts
    BY <1>1, <1>5, UnwrappedHead
  <2>2. d = evaluatePolicyScript(x) /\ d \in Categories
    BY <1>3, <1>5, <2>1, ScriptType
  <2>3. ~ShellLeads(L) => Len(L) = 1
    <3>1. Len(L) = 1 \/ Len(L) > 1
      BY <1>1
    <3> QED
      BY <1>1, <2>1, <3>1 DEF ShellLeads
  <2>4. CASE Good(L[1])
    <3>1. ~Fine(L[1]) /\ extractShellScript(Tail(Fields[L[1]])) = <<>>
      BY <2>1, <2>4, BareShell
    <3>2. ~SegmentFine(L[1])
      BY <2>4, <3>1, GoodPieces
    <3>3. Refused(L)
      BY <1>1, <1>2, <3>2 DEF Refused
    <3>4. Len(L) # 1
      <4>1. ASSUME Len(L) = 1 PROVE FALSE
        <5>1. splitShellWords(L) = Fields[L[1]]
          BY <1>1, <4>1, LineWords
        <5>2. x # <<>>
          BY <1>5 DEF Unwrapped
        <5> QED
          BY <3>1, <5>1, <5>2, Zenon
      <4> QED
        BY <4>1
    <3> QED
      BY <2>2, <2>3, <3>3, <3>4
  <2>5. CASE Quoting(L[1])
    <3>1. PICK u, flag, M : QuotingParts(L[1], u, flag, M)
      BY <2>5 DEF Quoting
    <3>2. x = M /\ L[1] = ShellWords(flag, M) /\ flag \in ShellFlags
      BY <1>5, <3>1, QuotingIsUnwrapped
    <3>3. M \in SimpleScripts /\ M # <<>> /\ \A i \in DOMAIN M : M[i] # <<>> /\ NoSubstitution(M[i])
      BY <3>1 DEF QuotingParts
    <3>4. /\ WellSplit(M)
          /\ Verdict(M) <=> \A i \in DOMAIN M : Fine(M[i])
          /\ ReadsScript(M) <=> \E i \in DOMAIN M : i # 1 /\ IsStdinSegment(M[i])
      BY <3>3, SimpleScriptIs
    <3>5. ~hasFetchSubstitution(M)
      BY <3>3, NoFetch
    <3>6. /\ SegmentFine(L[1]) <=> \A j \in DOMAIN M : Fine(M[j])
          /\ SegmentReadsLater(L[1]) <=> \E j \in DOMAIN M : j # 1 /\ IsStdinSegment(M[j])
      BY <3>1, QuotingPieces
    <3>7. Allowed(d) <=> SegmentFine(L[1]) /\ ~SegmentReadsLater(L[1])
      <4>1. Allowed(evaluatePolicyScript(M)) <=> ~Refused(M)
        BY <3>4, LineIsAllowed
      <4>2. d = evaluatePolicyScript(M)
        BY <2>2, <3>2
      <4> QED
        BY <3>4, <3>5, <3>6, <4>1, <4>2 DEF Refused
    <3>8. ~Allowed(d) => Refused(L)
      BY <1>1, <1>2, <3>7 DEF Refused
    <3>9. ASSUME Refused(L), ~ShellLeads(L) PROVE ~Allowed(d)
      <4>1. Len(L) = 1
        BY <2>3, <3>9
      <4>2. \A i \in DOMAIN L : i = 1
        BY <1>1, <4>1
      <4>3. ~hasFetchSubstitution(L)
        <5>1. NoSubstitution(L[1])
          BY <3>2, <3>3, ShellWordsInert
        <5> QED
          BY <4>2, <5>1, FetchIs
      <4>4. ReadsScript(L) => SegmentReadsLater(L[1])
        BY <1>2, <4>2
      <4>5. ~Verdict(L) => ~SegmentFine(L[1])
        BY <1>2, <4>2
      <4> QED
        BY <3>7, <3>9, <4>3, <4>4, <4>5 DEF Refused
    <3> QED
      BY <2>2, <3>8, <3>9
  <2> QED
    BY <1>1, <2>4, <2>5 DEF Composable
<1> QED
  BY <1>4, <1>5

-----------------------------------------------------------------------------
(* The line and its parts.                                                 *)

Composed(L, P) ==
  /\ IsLine(L) /\ P \subseteq SimpleCommands
  /\ Verdict(L) <=> \A c \in P : Fine(c)
  /\ \A i \in DOMAIN L : SegmentReads(L[i]) => \E c \in P : IsStdinSegment(c)
  /\ \A i \in DOMAIN L : ~NoSubstitution(L[i]) => \E c \in P : ~NoSubstitution(c)
  /\ \A i \in DOMAIN L : Has(L[i], FetchTools) => \E c \in P : Has(c, FetchTools)
  /\ \A c \in P : ~NoSubstitution(c) => \E i \in DOMAIN L : Within(c, L[i])

\* The line after a step, which is as good a line and denied if the line before is.
Follows(L, M, P) == Composed(M, P) /\ (Refused(L) => Refused(M))

LEMMA SingleLine ==
  ASSUME NEW t, Composable(t)
  PROVE  IsLine(<<t>>) /\ DOMAIN <<t>> = {1} /\ <<t>>[1] = t
<1>1. t \in Seq(Words)
  BY ComposableIs DEF SegmentWell
<1>2. <<t>> \in Nested(Words)
  <2> DEFINE T == Seq(Words)
  <2>1. \A x \in T : <<x>> \in Seq(T)
    OBVIOUS
  <2> QED
    BY <1>1, <2>1 DEF Nested
<1> DEFINE L == <<t>>
<1>3. DOMAIN L = {1} /\ L[1] = t /\ L # <<>>
  OBVIOUS
<1> HIDE DEF L
<1>4. IsLine(L)
  <2>1. L \in Nested(Words)
    BY <1>2 DEF L
  <2> QED
    BY <1>3, <2>1 DEF IsLine
<1> QED
  BY <1>3, <1>4 DEF L

LEMMA SimpleCommandsAre ==
  ASSUME NEW c \in SimpleCommands
  PROVE  Good(c) /\ Composable(c) /\ c \in Seq(Words)
<1>1. Good(c)
  BY CommandsAssumption, SimpleCommandIsGood
<1> QED
  BY <1>1, SimpleWordsAreWords DEF Good, Composable

LEMMA WithinItself ==
  ASSUME NEW c
  PROVE  Within(c, c)
  BY DEF Within

LEMMA WithinWithin ==
  ASSUME NEW c, NEW s, NEW t, Within(c, s), Within(s, t)
  PROVE  Within(c, t)
  BY DEF Within

LEMMA WithinSubstitutes ==
  ASSUME NEW c, NEW s, Within(c, s), ~NoSubstitution(c)
  PROVE  ~NoSubstitution(s)
  BY DEF Within, NoSubstitution

LEMMA StartIsComposed ==
  ASSUME NEW c \in SimpleCommands
  PROVE  Composed(<<c>>, {c})
<1> DEFINE L == <<c>>
<1>1. Good(c) /\ Composable(c)
  BY SimpleCommandsAre
<1>2. IsLine(L) /\ DOMAIN L = {1} /\ L[1] = c
  BY <1>1, SingleLine
<1> HIDE DEF L
<1>3. Verdict(L) <=> Fine(c)
  BY <1>1, <1>2, LineSplit, GoodPieces
<1>4. SegmentReads(c) <=> IsStdinSegment(c)
  BY <1>1, GoodPieces
<1>5. Within(c, c)
  BY WithinItself
<1>6. Composed(L, {c})
  BY <1>2, <1>3, <1>4, <1>5 DEF Composed
<1> QED
  BY <1>6 DEF L

\* Something is put around the only segment.
LEMMA CarriedIsComposed ==
  ASSUME NEW L, NEW P, Composed(L, P), Len(L) = 1, NEW t, Carries(L[1], t)
  PROVE  Follows(L, <<t>>, P)
<1> DEFINE M == <<t>>
           s == L[1]
<1>1. IsLine(L) /\ DOMAIN L = {1}
  <2>1. L \in Nested(Words) /\ L # <<>> /\ IsLine(L)
    BY DEF Composed, IsLine
  <2>2. DOMAIN L = 1..1 /\ 1..1 = {1}
    BY <2>1, LineDomain
  <2> QED
    BY <2>1, <2>2
<1>2. /\ Composable(t)
      /\ SegmentFine(t) <=> SegmentFine(s)
      /\ SegmentReads(t) => SegmentReads(s)
      /\ SegmentReadsLater(s) => SegmentReadsLater(t)
      /\ NoSubstitution(t) <=> NoSubstitution(s)
      /\ Has(t, FetchTools) <=> Has(s, FetchTools)
      /\ Within(s, t)
  BY DEF Carries
<1>3. IsLine(M) /\ DOMAIN M = {1} /\ M[1] = t
  BY <1>2, SingleLine
<1> HIDE DEF M, s
<1>4. L[1] = s
  BY DEF s
<1>5. /\ Verdict(L) <=> SegmentFine(s)
      /\ Verdict(M) <=> SegmentFine(t)
      /\ ReadsScript(L) <=> SegmentReadsLater(s)
      /\ ReadsScript(M) <=> SegmentReadsLater(t)
  BY <1>1, <1>3, <1>4, LineSplit
<1>6. hasFetchSubstitution(L) <=> hasFetchSubstitution(M)
  <2>1. hasFetchSubstitution(L) <=> ~NoSubstitution(s) /\ Has(s, FetchTools)
    BY <1>1, <1>4, FetchIs
  <2>2. hasFetchSubstitution(M) <=> ~NoSubstitution(t) /\ Has(t, FetchTools)
    BY <1>3, FetchIs
  <2> QED
    BY <1>2, <2>1, <2>2
<1>7. Refused(L) => Refused(M)
  BY <1>2, <1>5, <1>6 DEF Refused
<1>8. /\ P \subseteq SimpleCommands
      /\ Verdict(L) <=> \A c \in P : Fine(c)
      /\ SegmentReads(s) => \E c \in P : IsStdinSegment(c)
      /\ ~NoSubstitution(s) => \E c \in P : ~NoSubstitution(c)
      /\ Has(s, FetchTools) => \E c \in P : Has(c, FetchTools)
      /\ \A c \in P : ~NoSubstitution(c) => Within(c, s)
  BY <1>1, <1>4 DEF Composed
<1>9. \A c \in P : ~NoSubstitution(c) => Within(c, t)
  BY <1>2, <1>8, WithinWithin
<1>10. Composed(M, P)
  BY <1>2, <1>3, <1>5, <1>8, <1>9 DEF Composed
<1> QED
  BY <1>7, <1>10 DEF M, Follows

\* The line is put into a shell.
LEMMA QuotedIsComposed ==
  ASSUME NEW L, NEW P, Composed(L, P), Quotable(L), NEW flag \in ShellFlags
  PROVE  Follows(L, <<ShellWords(flag, L)>>, P)
<1> DEFINE t == ShellWords(flag, L)
           M == <<t>>
           e == <<>>
<1>1. IsLine(L) /\ L # <<>>
  BY DEF Composed, IsLine
<1>2. L \in SimpleScripts /\ \A i \in DOMAIN L : Good(L[i]) /\ L[i] # <<>> /\ NoSubstitution(L[i])
  BY <1>1, QuotableIsSimple
<1>3. /\ t \in Seq(Words) /\ t \in Commandlines /\ Head(t) = Plain("bash") /\ Fields[t] = t
      /\ NoSubstitution(t) /\ ~Has(t, FetchTools)
  BY <1>2, ShellWordsType, ShellWordsInert
<1>4. QuotingParts(t, e, flag, L)
  <2>1. e \in Seq(SimpleWords) /\ Fields[e] = e /\ \A p \in Seq(Words) : e \o p = p
    BY FieldsOfNothing
  <2>2. e = <<>>
    OBVIOUS
  <2> HIDE DEF e
  <2>3. ASSUME NEW m \in SimpleScripts
        PROVE  peelCommandWrappers[e \o ShellWords(flag, m)] = ShellWords(flag, m)
    <3> DEFINE v == ShellWords(flag, m)
    <3>1. v \in Seq(Words) /\ v \in Commandlines /\ Head(v).text = "bash"
      BY ShellWordsType, ShellWordsAre
    <3> HIDE DEF v
    <3>2. peelCommandWrappers[v] = v
      BY <3>1, PeelNothing
    <3>3. e \o v = v
      BY <2>1, <3>1
    <3> QED
      BY <3>2, <3>3 DEF v
  <2>4. ShellFront(e, flag)
    BY <2>1, <2>2, <2>3 DEF ShellFront
  <2>5. t = e \o ShellWords(flag, L)
    BY <1>3, <2>1
  <2> HIDE DEF t
  <2> QED
    BY <1>1, <1>2, <2>4, <2>5 DEF QuotingParts
<1>5. Composable(t)
  BY <1>4 DEF Composable, Quoting
<1>6. IsLine(M) /\ DOMAIN M = {1} /\ M[1] = t
  BY <1>5, SingleLine
<1> HIDE DEF t, M, e
<1>7. /\ SegmentFine(t) <=> \A j \in DOMAIN L : Fine(L[j])
      /\ SegmentReads(t) <=> \E j \in DOMAIN L : j # 1 /\ IsStdinSegment(L[j])
      /\ SegmentReadsLater(t) <=> \E j \in DOMAIN L : j # 1 /\ IsStdinSegment(L[j])
  BY <1>4, QuotingPieces
<1>8. \A i \in DOMAIN L : /\ SegmentFine(L[i]) <=> Fine(L[i])
                          /\ SegmentReads(L[i]) <=> IsStdinSegment(L[i])
                          /\ ~SegmentReadsLater(L[i])
  BY <1>2, GoodPieces
<1>9. 1 \in DOMAIN L
  BY <1>1, LineDomain DEF IsLine
<1>10. /\ Verdict(L) <=> \A i \in DOMAIN L : Fine(L[i])
       /\ ReadsScript(L) <=> \E i \in DOMAIN L : i # 1 /\ IsStdinSegment(L[i])
  BY <1>1, <1>8, <1>9, LineSplit
<1>11. (Verdict(M) <=> SegmentFine(t)) /\ (ReadsScript(M) <=> SegmentReadsLater(t))
  BY <1>6, LineSplit
<1>12. ~hasFetchSubstitution(L)
  BY <1>1, <1>2, FetchIs
<1>13. Refused(L) => Refused(M)
  BY <1>7, <1>10, <1>11, <1>12 DEF Refused
<1>14. /\ P \subseteq SimpleCommands
       /\ Verdict(L) <=> \A c \in P : Fine(c)
       /\ \A i \in DOMAIN L : SegmentReads(L[i]) => \E c \in P : IsStdinSegment(c)
       /\ \A c \in P : ~NoSubstitution(c) => \E i \in DOMAIN L : Within(c, L[i])
  BY DEF Composed
<1>15. \A c \in P : NoSubstitution(c)
  BY <1>2, <1>14, WithinSubstitutes
<1>16. Verdict(M) <=> \A c \in P : Fine(c)
  BY <1>7, <1>10, <1>11, <1>14
<1>17. SegmentReads(t) => \E c \in P : IsStdinSegment(c)
  BY <1>7, <1>8, <1>14
<1>18. Composed(M, P)
  BY <1>3, <1>6, <1>14, <1>15, <1>16, <1>17 DEF Composed, t
<1> QED
  BY <1>13, <1>18 DEF M, t, Follows

\* Another segment joins the line: no segment becomes the first one that was not.
Joins(L, M, c) ==
  /\ M \in Nested(Words) /\ M # <<>>
  /\ \A i \in DOMAIN L : \E k \in DOMAIN M : M[k] = L[i] /\ (k = 1 => i = 1)
  /\ \A k \in DOMAIN M : M[k] = c \/ \E i \in DOMAIN L : M[k] = L[i]
  /\ \E k \in DOMAIN M : M[k] = c

LEMMA JoinedIsComposed ==
  ASSUME NEW L, NEW P, Composed(L, P), NEW c \in SimpleCommands, NEW M, Joins(L, M, c)
  PROVE  Follows(L, M, P \cup {c})
<1> DEFINE Q == P \cup {c}
<1>1. /\ M \in Nested(Words) /\ M # <<>>
      /\ \A i \in DOMAIN L : \E k \in DOMAIN M : M[k] = L[i] /\ (k = 1 => i = 1)
      /\ \A k \in DOMAIN M : M[k] = c \/ \E i \in DOMAIN L : M[k] = L[i]
      /\ \E k \in DOMAIN M : M[k] = c
  BY DEF Joins
<1>2. /\ IsLine(L) /\ P \subseteq SimpleCommands
      /\ Verdict(L) <=> \A d \in P : Fine(d)
      /\ \A i \in DOMAIN L : SegmentReads(L[i]) => \E d \in P : IsStdinSegment(d)
      /\ \A i \in DOMAIN L : ~NoSubstitution(L[i]) => \E d \in P : ~NoSubstitution(d)
      /\ \A i \in DOMAIN L : Has(L[i], FetchTools) => \E d \in P : Has(d, FetchTools)
      /\ \A d \in P : ~NoSubstitution(d) => \E i \in DOMAIN L : Within(d, L[i])
  BY DEF Composed
<1>3. Good(c) /\ Composable(c)
  BY SimpleCommandsAre
<1>4. (SegmentFine(c) <=> Fine(c)) /\ (SegmentReads(c) <=> IsStdinSegment(c))
  BY <1>3, GoodPieces
<1>5. \A i \in DOMAIN L : Composable(L[i])
  BY <1>2 DEF IsLine
<1>6. IsLine(M)
  BY <1>1, <1>3, <1>5 DEF IsLine
<1>7. 1 \in DOMAIN L /\ 1 \in DOMAIN M
  BY <1>1, <1>2, LineDomain DEF IsLine
<1>8. /\ Verdict(L) <=> \A i \in DOMAIN L : SegmentFine(L[i])
      /\ ReadsScript(L) <=> \/ SegmentReadsLater(L[1])
                            \/ \E i \in DOMAIN L : i # 1 /\ SegmentReads(L[i])
  BY <1>2, LineSplit
<1>9. /\ Verdict(M) <=> \A i \in DOMAIN M : SegmentFine(M[i])
      /\ ReadsScript(M) <=> \/ SegmentReadsLater(M[1])
                            \/ \E i \in DOMAIN M : i # 1 /\ SegmentReads(M[i])
  BY <1>6, LineSplit
<1>10. Verdict(M) <=> Verdict(L) /\ Fine(c)
  <2>1. Verdict(M) => Verdict(L) /\ Fine(c)
    BY <1>1, <1>4, <1>8, <1>9
  <2>2. Verdict(L) /\ Fine(c) => Verdict(M)
    BY <1>1, <1>4, <1>8, <1>9
  <2> QED
    BY <2>1, <2>2
<1>11. ReadsScript(L) => ReadsScript(M)
  <2>1. ASSUME SegmentReadsLater(L[1]) PROVE ReadsScript(M)
    <3>1. PICK k \in DOMAIN M : M[k] = L[1]
      BY <1>1, <1>7
    <3>2. SegmentReads(L[1])
      BY <1>5, <1>7, <2>1, ComposableIs
    <3>3. CASE k = 1
      BY <1>9, <2>1, <3>1, <3>3
    <3>4. CASE k # 1
      BY <1>9, <3>1, <3>2, <3>4
    <3> QED
      BY <3>3, <3>4
  <2>2. ASSUME NEW i \in DOMAIN L, i # 1, SegmentReads(L[i]) PROVE ReadsScript(M)
    <3>1. PICK k \in DOMAIN M : M[k] = L[i] /\ (k = 1 => i = 1)
      BY <1>1
    <3> QED
      BY <1>9, <2>2, <3>1
  <2> QED
    BY <1>8, <2>1, <2>2
<1>12. hasFetchSubstitution(L) => hasFetchSubstitution(M)
  <2>1. ASSUME NEW i \in DOMAIN L PROVE \E k \in DOMAIN M : M[k] = L[i]
    BY <1>1
  <2>2. hasFetchSubstitution(L) <=> /\ \E i \in DOMAIN L : ~NoSubstitution(L[i])
                                    /\ \E i \in DOMAIN L : Has(L[i], FetchTools)
    BY <1>2, FetchIs
  <2>3. hasFetchSubstitution(M) <=> /\ \E i \in DOMAIN M : ~NoSubstitution(M[i])
                                    /\ \E i \in DOMAIN M : Has(M[i], FetchTools)
    BY <1>6, FetchIs
  <2>4. (\E i \in DOMAIN L : ~NoSubstitution(L[i])) => \E i \in DOMAIN M : ~NoSubstitution(M[i])
    BY <2>1
  <2>5. (\E i \in DOMAIN L : Has(L[i], FetchTools)) => \E i \in DOMAIN M : Has(M[i], FetchTools)
    BY <2>1
  <2> QED
    BY <2>2, <2>3, <2>4, <2>5
<1>13. Refused(L) => Refused(M)
  BY <1>10, <1>11, <1>12 DEF Refused
<1>14. ASSUME NEW k \in DOMAIN M
       PROVE  /\ SegmentReads(M[k]) => \E d \in Q : IsStdinSegment(d)
              /\ ~NoSubstitution(M[k]) => \E d \in Q : ~NoSubstitution(d)
              /\ Has(M[k], FetchTools) => \E d \in Q : Has(d, FetchTools)
  <2>1. CASE M[k] = c
    BY <1>4, <2>1
  <2>2. CASE \E i \in DOMAIN L : M[k] = L[i]
    <3>1. PICK i \in DOMAIN L : M[k] = L[i]
      BY <2>2
    <3>2. SegmentReads(M[k]) => \E d \in P : IsStdinSegment(d)
      BY <1>2, <3>1
    <3>3. ~NoSubstitution(M[k]) => \E d \in P : ~NoSubstitution(d)
      BY <1>2, <3>1
    <3>4. Has(M[k], FetchTools) => \E d \in P : Has(d, FetchTools)
      BY <1>2, <3>1
    <3> QED
      BY <3>2, <3>3, <3>4
  <2> QED
    BY <1>1, <2>1, <2>2
<1>15. ASSUME NEW d \in Q, ~NoSubstitution(d) PROVE \E k \in DOMAIN M : Within(d, M[k])
  <2>1. CASE d = c
    BY <1>1, <2>1, WithinItself
  <2>2. CASE d \in P
    <3>1. PICK i \in DOMAIN L : Within(d, L[i])
      BY <1>2, <1>15, <2>2
    <3>2. PICK k \in DOMAIN M : M[k] = L[i]
      BY <1>1
    <3> QED
      BY <3>1, <3>2
  <2> QED
    BY <2>1, <2>2
<1>16. (Verdict(M) <=> \A d \in Q : Fine(d)) /\ Q \subseteq SimpleCommands
  BY <1>2, <1>10
<1> HIDE DEF Q
<1>17. Composed(M, Q)
  BY <1>6, <1>14, <1>15, <1>16 DEF Composed
<1> QED
  BY <1>13, <1>17 DEF Q, Follows

\* A command at either end of the line joins it.
LEMMA FirstJoins ==
  ASSUME NEW L \in Nested(Words), NEW c \in Seq(Words)
  PROVE  Joins(L, <<c>> \o L, c) /\ Joins(L, L \o <<c>>, c)
<1> DEFINE T == Seq(Words)
           n == Len(L)
           A == <<c>> \o L
           B == L \o <<c>>
<1>1. L \in Seq(T) /\ c \in T
  BY DEF Nested
<1> HIDE DEF T
<1>2. n \in Nat /\ DOMAIN L = 1..n
  BY <1>1, LenProperties
<1>3. /\ A \in Seq(T) /\ Len(A) = n + 1 /\ A[1] = c
      /\ \A i \in 1..n : A[i + 1] = L[i]
  BY <1>1, <1>2
<1>4. /\ B \in Seq(T) /\ Len(B) = n + 1 /\ B[n + 1] = c
      /\ \A i \in 1..n : B[i] = L[i]
  BY <1>1, <1>2
<1> HIDE DEF n, A, B
<1>5. DOMAIN A = 1..n + 1 /\ DOMAIN B = 1..n + 1
  BY <1>3, <1>4, LenProperties
<1>6. A # <<>> /\ B # <<>>
  <2>1. DOMAIN <<>> = {} /\ 1 \in 1..n + 1
    BY <1>2
  <2> QED
    BY <1>5, <2>1
<1>7. \A k \in 1..n + 1 : (k = 1 \/ (k - 1 \in 1..n /\ k = (k - 1) + 1)) /\ (k = n + 1 \/ k \in 1..n)
  BY <1>2
<1>8. \A i \in 1..n : i + 1 \in 1..n + 1 /\ i + 1 # 1 /\ i \in 1..n + 1
  BY <1>2
<1>9. 1 \in 1..n + 1 /\ n + 1 \in 1..n + 1
  BY <1>2
<1>10. Joins(L, A, c)
  <2>1. ASSUME NEW i \in DOMAIN L PROVE \E k \in DOMAIN A : A[k] = L[i] /\ (k = 1 => i = 1)
    <3>1. i + 1 \in DOMAIN A /\ i + 1 # 1 /\ A[i + 1] = L[i]
      BY <1>2, <1>3, <1>5, <1>8
    <3> QED
      BY <3>1
  <2>2. ASSUME NEW k \in DOMAIN A PROVE A[k] = c \/ \E i \in DOMAIN L : A[k] = L[i]
    <3>1. CASE k = 1
      BY <1>3, <3>1
    <3>2. CASE k # 1
      <4>1. k - 1 \in 1..n /\ k = (k - 1) + 1
        BY <1>5, <1>7, <3>2
      <4>2. A[(k - 1) + 1] = L[k - 1]
        BY <1>3, <4>1
      <4>3. A[k] = L[k - 1]
        BY <4>1, <4>2
      <4> QED
        BY <1>2, <4>1, <4>3
    <3> QED
      BY <3>1, <3>2
  <2>3. \E k \in DOMAIN A : A[k] = c
    BY <1>3, <1>5, <1>9
  <2>4. A \in Nested(Words)
    BY <1>3 DEF T, Nested
  <2> QED
    BY <1>6, <2>1, <2>2, <2>3, <2>4 DEF Joins
<1>11. Joins(L, B, c)
  <2>1. ASSUME NEW i \in DOMAIN L PROVE \E k \in DOMAIN B : B[k] = L[i] /\ (k = 1 => i = 1)
    BY <1>2, <1>4, <1>5, <1>8
  <2>2. ASSUME NEW k \in DOMAIN B PROVE B[k] = c \/ \E i \in DOMAIN L : B[k] = L[i]
    BY <1>2, <1>4, <1>5, <1>7
  <2>3. \E k \in DOMAIN B : B[k] = c
    BY <1>4, <1>5, <1>9
  <2>4. B \in Nested(Words)
    BY <1>4 DEF T, Nested
  <2> QED
    BY <1>6, <2>1, <2>2, <2>3, <2>4 DEF Joins
<1> QED
  BY <1>10, <1>11 DEF A, B

\* A part on its own.
LEMMA PartDecision ==
  ASSUME NEW c \in SimpleCommands
  PROVE  Allowed(normalizeCommandText(<<c>>)) <=>
           Fine(c) /\ ~(~NoSubstitution(c) /\ Has(c, FetchTools))
<1> DEFINE L == <<c>>
<1>1. Good(c) /\ Composable(c)
  BY SimpleCommandsAre
<1>2. IsLine(L) /\ DOMAIN L = {1} /\ L[1] = c /\ Len(L) = 1
  BY <1>1, SingleLine
<1> HIDE DEF L
<1>3. (SegmentFine(c) <=> Fine(c)) /\ ~SegmentReadsLater(c)
  BY <1>1, GoodPieces
<1>4. (Verdict(L) <=> Fine(c)) /\ ~ReadsScript(L)
  BY <1>2, <1>3, LineSplit
<1>5. hasFetchSubstitution(L) <=> ~NoSubstitution(c) /\ Has(c, FetchTools)
  BY <1>2, FetchIs
<1>6. ~ShellLeads(L)
  BY <1>2 DEF ShellLeads
<1>7. Allowed(normalizeCommandText(L)) <=> ~Refused(L)
  BY <1>2, <1>6, LineDecision
<1>8. Allowed(normalizeCommandText(L)) <=> Fine(c) /\ ~(~NoSubstitution(c) /\ Has(c, FetchTools))
  BY <1>4, <1>5, <1>7 DEF Refused
<1> QED
  BY <1>8 DEF L

-----------------------------------------------------------------------------
(* The inductive invariant.                                                *)

PolicyInv ==
  /\ form # "hidden" => Composed(line, parts) /\ decision = normalizeCommandText(line)
  /\ form \in Forms /\ parts \subseteq SimpleCommands /\ steps \in 0..MaxSteps

LEMMA PolicyStarts == PolicyInit => PolicyInv
<1> SUFFICES ASSUME PolicyInit PROVE PolicyInv
  OBVIOUS
<1>1. PICK c \in SimpleCommands : line = <<c>> /\ parts = {c}
  BY DEF PolicyInit
<1>2. Composed(<<c>>, {c})
  BY StartIsComposed
<1>3. Composed(line, parts)
  BY <1>1, <1>2
<1>4. /\ decision = normalizeCommandText(line) /\ steps \in 0..MaxSteps
      /\ form \in Forms /\ parts \subseteq SimpleCommands
  BY CommandsAssumption DEF PolicyInit, Forms
<1> QED
  BY <1>3, <1>4 DEF PolicyInv

\* Each step leaves a line that follows from the one before it, or one that hides a command.
LEMMA StepFollows ==
  ASSUME PolicyInv, PolicyNext
  PROVE  /\ form # "hidden" /\ form' \in Forms /\ parts' \subseteq SimpleCommands /\ steps' \in 0..MaxSteps
         /\ form' # "hidden" => Follows(line, line', parts') /\ decision' = normalizeCommandText(line')
<1> DEFINE step == decision' = normalizeCommandText(line')
<1>0. /\ form # "hidden" /\ form' \in Forms /\ parts' \subseteq SimpleCommands /\ steps' \in 0..MaxSteps
  <2>1. ASSUME NEW new, NEW more \in SUBSET SimpleCommands, NEW f \in Forms, Compose(new, more, f)
        PROVE  form # "hidden" /\ form' \in Forms /\ parts' \subseteq SimpleCommands /\ steps' \in 0..MaxSteps
    BY <2>1, CommandsAssumption DEF Compose, PolicyInv
  <2>2. /\ form \in Forms /\ "escaped" \in Forms /\ "quoted" \in Forms /\ "hidden" \in Forms
        /\ {} \in SUBSET SimpleCommands /\ \A c \in SimpleCommands : {c} \in SUBSET SimpleCommands
    BY DEF PolicyInv, Forms
  <2>3. (IF form = "escaped" THEN "quoted" ELSE form) \in Forms
    BY <2>2
  <2>4. CASE Wrap \/ InShell \/ UnderFind
    BY <2>1, <2>2, <2>3, <2>4 DEF Wrap, InShell, UnderFind
  <2>5. CASE ComesAfter \/ GoesOn
    BY <2>1, <2>2, <2>5 DEF ComesAfter, GoesOn
  <2>6. CASE FindGoesOn \/ Background \/ Substitute
    BY <2>1, <2>2, <2>6 DEF FindGoesOn, Background, Substitute
  <2> QED
    BY <2>4, <2>5, <2>6 DEF PolicyNext
<1>1. Composed(line, parts)
  BY <1>0 DEF PolicyInv
<1>2. ASSUME NEW new, NEW more, NEW f, Compose(new, more, f)
      PROVE  line' = new /\ parts' = parts \cup more /\ step
  BY <1>2 DEF Compose
<1>3. IsLine(line) /\ line \in Nested(Words) /\ line # <<>>
  BY <1>1 DEF Composed, IsLine
<1>4. 1 \in DOMAIN line /\ Head(line) = line[1] /\ Composable(line[1])
  BY <1>3, LineDomain DEF IsLine
<1>5. CASE Wrap
  <2>1. PICK wrapper \in Wrappers : Compose(<<wrapper \o Head(line)>>, {}, form)
    BY <1>5 DEF Wrap
  <2>2. Len(line) = 1 /\ Fields[Head(line)] # <<>>
    BY <1>5 DEF Wrap
  <2>3. Carries(line[1], wrapper \o line[1])
    BY <1>4, <2>2, WrapCarries
  <2>4. Follows(line, <<wrapper \o line[1]>>, parts)
    BY <1>1, <2>2, <2>3, CarriedIsComposed
  <2>5. line' = <<wrapper \o line[1]>> /\ parts' = parts /\ step
    <3> DEFINE new == <<wrapper \o Head(line)>>
    <3>1. line' = new /\ parts' = parts \cup {} /\ step
      BY <1>2, <2>1
    <3>2. new = <<wrapper \o line[1]>>
      BY <1>4, Zenon
    <3> HIDE DEF new
    <3> QED
      BY <3>1, <3>2
  <2> QED
    BY <1>0, <2>4, <2>5
<1>6. CASE InShell
  <2>1. PICK flag \in {"-c", "-lc"} :
          Compose(<<<<Plain("bash"), Flag(flag), Body(line)>>>>, {}, IF form = "escaped" THEN "quoted" ELSE form)
    BY <1>6 DEF InShell
  <2>2. Quotable(line) /\ flag \in ShellFlags
    BY <1>6 DEF InShell, ShellFlags
  <2>3. Follows(line, <<ShellWords(flag, line)>>, parts)
    BY <1>1, <2>2, QuotedIsComposed
  <2>4. line' = <<ShellWords(flag, line)>> /\ parts' = parts /\ step
    BY <1>2, <2>1 DEF ShellWords
  <2> QED
    BY <1>0, <2>3, <2>4
<1>7. CASE UnderFind
  <2>1. PICK v \in FindEnds, f \in {form, "escaped"} : /\ Len(line) = 1 /\ Quotable(line)
                                                       /\ Compose(<<FindWords \o Head(line) \o v>>, {}, f)
    <3> DEFINE plus == <<Plain("+")>>
    <3>1. /\ Len(line) = 1 /\ Quotable(line)
          /\ \/ Compose(<<FindWords \o Head(line) \o plus>>, {}, form)
             \/ Compose(<<FindWords \o Head(line)>>, {}, "escaped")
      BY <1>7 DEF UnderFind
    <3>2. plus \in FindEnds /\ <<>> \in FindEnds
      BY DEF FindEnds
    <3>3. FindWords \o Head(line) = FindWords \o Head(line) \o <<>>
      <4>1. FindWords \in Seq(Words) /\ Head(line) \in Seq(Words)
        <5> DEFINE d == Plain("find")
                   e == Plain(".")
                   g == Flag("-exec")
        <5>1. d \in Words /\ e \in Words /\ g \in Words /\ FindWords = <<d, e, g>>
          BY FindWordsAre, SimpleWordsAreWords DEF FindWords
        <5> HIDE DEF d, e, g
        <5>2. <<d, e, g>> \in Seq(Words)
          BY <5>1
        <5> QED
          BY <1>3, <1>4, <5>1, <5>2, LineDomain
      <4>2. FindWords \o Head(line) \in Seq(Words)
        BY <4>1, ConcatWords
      <4>3. ASSUME NEW x \in Seq(Words) PROVE x = x \o <<>>
        OBVIOUS
      <4> QED
        BY <4>2, <4>3
    <3> HIDE DEF plus
    <3>4. CASE Compose(<<FindWords \o Head(line) \o plus>>, {}, form)
      BY <3>1, <3>2, <3>4
    <3>5. CASE Compose(<<FindWords \o Head(line)>>, {}, "escaped")
      <4>1. Compose(<<FindWords \o Head(line) \o <<>>>>, {}, "escaped")
        BY <3>3, <3>5, Zenon
      <4> QED
        BY <3>1, <3>2, <4>1
    <3> QED
      BY <3>1, <3>4, <3>5
  <2>2. Good(line[1])
    BY <1>3, <1>4, <2>1, QuotableIsSimple
  <2>3. Carries(line[1], FindWords \o line[1] \o v)
    BY <2>2, FindCarries
  <2>4. Follows(line, <<FindWords \o line[1] \o v>>, parts)
    BY <1>1, <2>1, <2>3, CarriedIsComposed
  <2>5. line' = <<FindWords \o line[1] \o v>> /\ parts' = parts /\ step
    <3> DEFINE new == <<FindWords \o Head(line) \o v>>
    <3>1. line' = new /\ parts' = parts \cup {} /\ step
      BY <1>2, <2>1
    <3>2. new = <<FindWords \o line[1] \o v>>
      BY <1>4, Zenon
    <3> HIDE DEF new
    <3> QED
      BY <3>1, <3>2
  <2> QED
    BY <1>0, <2>4, <2>5
<1>8. CASE ComesAfter
  <2>1. PICK c \in SimpleCommands : Compose(<<c>> \o line, {c}, form)
    BY <1>8 DEF ComesAfter
  <2>2. Joins(line, <<c>> \o line, c)
    BY <1>3, SimpleCommandsAre, FirstJoins
  <2>3. Follows(line, <<c>> \o line, parts \cup {c})
    BY <1>1, <2>2, JoinedIsComposed
  <2>4. line' = <<c>> \o line /\ parts' = parts \cup {c} /\ step
    BY <1>2, <2>1
  <2> QED
    BY <1>0, <2>3, <2>4
<1>9. CASE GoesOn
  <2>1. PICK c \in SimpleCommands : Compose(line \o <<c>>, {c}, form)
    BY <1>9 DEF GoesOn
  <2>2. Joins(line, line \o <<c>>, c)
    BY <1>3, SimpleCommandsAre, FirstJoins
  <2>3. Follows(line, line \o <<c>>, parts \cup {c})
    BY <1>1, <2>2, JoinedIsComposed
  <2>4. line' = line \o <<c>> /\ parts' = parts \cup {c} /\ step
    BY <1>2, <2>1
  <2> QED
    BY <1>0, <2>3, <2>4
<1>10. CASE FindGoesOn \/ Background \/ Substitute
  <2>1. form' = "hidden"
    BY <1>10 DEF FindGoesOn, Background, Substitute, Compose
  <2> QED
    BY <1>0, <2>1
<1> QED
  BY <1>0, <1>5, <1>6, <1>7, <1>8, <1>9, <1>10 DEF PolicyNext

LEMMA PolicyStep == PolicyInv /\ [PolicyNext]_policyVars => PolicyInv'
<1> SUFFICES ASSUME PolicyInv, [PolicyNext]_policyVars PROVE PolicyInv'
  OBVIOUS
<1>1. CASE PolicyNext
  BY <1>1, StepFollows DEF PolicyInv, Follows
<1>2. CASE UNCHANGED policyVars
  <2>1. line' = line /\ parts' = parts /\ form' = form /\ decision' = decision /\ steps' = steps
    BY <1>2 DEF policyVars
  <2> QED
    BY <2>1 DEF PolicyInv
<1> QED
  BY <1>1, <1>2

\* The line of every state that hides no command is composed of its parts, and the decision is
\* the line's.
THEOREM CompositionIsKept == PolicySpec => []PolicyInv
  BY PolicyStarts, PolicyStep, PTL DEF PolicySpec

\* The policy gives a category to every line that hides no command: the evaluators that call each
\* other end on it, and none of them leaves its categories.
THEOREM PolicyTypeCorrect == PolicySpec => []PolicyTypeOK
<1>1. PolicyInv => PolicyTypeOK
  <2> SUFFICES ASSUME PolicyInv PROVE PolicyTypeOK
    OBVIOUS
  <2>1. form # "hidden" => decision \in Categories
    BY LineDecision DEF PolicyInv, Composed
  <2> QED
    BY <2>1 DEF PolicyInv, PolicyTypeOK, Composed
<1> QED
  BY <1>1, CompositionIsKept, PTL

\* A line whose commands all stand where the policy reads them runs without asking exactly if
\* they would, but for what is denied together: evaluatePolicySingle, evaluatePolicyScript and what
\* they peel, split and unwrap on the way, find's command up to + or to the first \; included.
THEOREM PartsDecide == PolicySpec => []DecidedByParts
<1>1. PolicyInv => DecidedByParts
  <2> SUFFICES ASSUME PolicyInv, ~ShellLeads(line), form # "hidden"
               PROVE  /\ Allowed(decision) => \A c \in parts : Allowed(normalizeCommandText(<<c>>))
                      /\ ~Allowed(decision) =>
                           DeniedTogether \/ \E c \in parts : ~Allowed(normalizeCommandText(<<c>>))
    BY DEF DecidedByParts, shouldAutoApprove
  <2>1. /\ IsLine(line) /\ parts \subseteq SimpleCommands
        /\ Verdict(line) <=> \A c \in parts : Fine(c)
        /\ \A i \in DOMAIN line : SegmentReads(line[i]) => \E c \in parts : IsStdinSegment(c)
        /\ \A i \in DOMAIN line : ~NoSubstitution(line[i]) => \E c \in parts : ~NoSubstitution(c)
        /\ \A i \in DOMAIN line : Has(line[i], FetchTools) => \E c \in parts : Has(c, FetchTools)
        /\ \A c \in parts : ~NoSubstitution(c) => \E i \in DOMAIN line : Within(c, line[i])
    BY DEF PolicyInv, Composed
  <2>2. Allowed(decision) <=> ~Refused(line)
    BY <2>1, LineDecision DEF PolicyInv
  <2>3. hasFetchSubstitution(line) <=> /\ \E i \in DOMAIN line : ~NoSubstitution(line[i])
                                       /\ \E i \in DOMAIN line : Has(line[i], FetchTools)
    BY <2>1, FetchIs
  <2>4. ASSUME Allowed(decision), NEW c \in parts PROVE Allowed(normalizeCommandText(<<c>>))
    <3>1. Fine(c) /\ ~hasFetchSubstitution(line)
      BY <2>1, <2>2, <2>4 DEF Refused
    <3>2. ASSUME ~NoSubstitution(c), Has(c, FetchTools) PROVE FALSE
      <4>1. PICK i \in DOMAIN line : Within(c, line[i])
        BY <2>1, <3>2
      <4>2. ~NoSubstitution(line[i])
        BY <3>2, <4>1, WithinSubstitutes
      <4>3. Has(line[i], FetchTools)
        BY <3>2, <4>1 DEF Within, Has
      <4> QED
        BY <2>3, <3>1, <4>2, <4>3
    <3> QED
      BY <2>1, <3>1, <3>2, PartDecision
  <2>5. ASSUME ~Allowed(decision)
        PROVE  DeniedTogether \/ \E c \in parts : ~Allowed(normalizeCommandText(<<c>>))
    <3>1. Refused(line)
      BY <2>2, <2>5
    <3>2. CASE hasFetchSubstitution(line)
      <4>1. (\E c \in parts : ~NoSubstitution(c)) /\ \E c \in parts : Has(c, FetchTools)
        BY <2>1, <2>3, <3>2
      <4> QED
        BY <4>1 DEF DeniedTogether, NoSubstitution
    <3>3. CASE ReadsScript(line)
      <4>1. \E i \in DOMAIN line : SegmentReads(line[i])
        <5>1. 1 \in DOMAIN line
          BY <2>1, LineDomain DEF IsLine
        <5>2. SegmentReadsLater(line[1]) => SegmentReads(line[1])
          BY <2>1, <5>1, ComposableIs DEF IsLine
        <5> QED
          BY <2>1, <3>3, <5>1, <5>2, LineSplit
      <4> QED
        BY <2>1, <4>1 DEF DeniedTogether
    <3>4. CASE ~Verdict(line)
      <4>1. PICK c \in parts : ~Fine(c)
        BY <2>1, <3>4
      <4>2. ~Allowed(normalizeCommandText(<<c>>))
        BY <2>1, <4>1, PartDecision
      <4> QED
        BY <4>2
    <3> QED
      BY <3>1, <3>2, <3>3, <3>4 DEF Refused
  <2> QED
    BY <2>4, <2>5
<1> QED
  BY <1>1, CompositionIsKept, PTL

\* Nothing that is put around a denied line, or next to it where the policy reads it, makes it run
\* without asking.
THEOREM DenialsStick == PolicySpec => DenyIsSticky
<1>1. PolicyInv /\ [PolicyNext]_policyVars =>
        [~ShellLeads(line') /\ form' # "hidden" /\ ~shouldAutoApprove(decision) =>
           ~shouldAutoApprove(decision')]_policyVars
  <2> SUFFICES ASSUME PolicyInv, PolicyNext, ~ShellLeads(line'), form' # "hidden", ~Allowed(decision)
               PROVE  ~Allowed(decision')
    BY DEF shouldAutoApprove
  <2>1. Follows(line, line', parts') /\ decision' = normalizeCommandText(line')
    BY StepFollows
  <2>2. IsLine(line) /\ decision = normalizeCommandText(line)
    BY StepFollows DEF PolicyInv, Composed
  <2>3. IsLine(line')
    BY <2>1 DEF Follows, Composed
  <2>4. Refused(line)
    BY <2>2, LineDecision
  <2>5. Refused(line')
    BY <2>1, <2>4 DEF Follows
  <2> QED
    BY <2>1, <2>3, <2>5, LineDecision
<1> QED
  BY <1>1, CompositionIsKept, PTL DEF PolicySpec, DenyIsSticky

-----------------------------------------------------------------------------
(* CommandRuns.                                                            *)

USE CommandAssumption

LEMMA CommandInit == Init => IInv
<1> SUFFICES ASSUME Init PROVE IInv
  OBVIOUS
<1>1. TypeOK
  BY DEF Init, TypeOK, PCs, Verdicts
<1>2. SlotInv
  <2> SUFFICES ASSUME NEW s \in Sessions PROVE Cardinality(InBackground(s)) <= MaxBackground
    BY DEF SlotInv
  <2>1. InBackground(s) = {}
    BY DEF Init, InBackground
  <2> QED
    BY <2>1, FS_EmptySet
<1>3. \A c \in Calls : CallInv(c)
  BY DEF Init, CallInv
<1> QED
  BY <1>1, <1>2, <1>3 DEF IInv

\* The limit is kept when no entry is added.
LEMMA FewerSlots == ASSUME IInv, background' \subseteq background PROVE SlotInv'
<1> SUFFICES ASSUME NEW s \in Sessions PROVE Cardinality(InBackground(s)') <= MaxBackground
  BY DEF SlotInv
<1>1. InBackground(s)' \subseteq InBackground(s) /\ InBackground(s) \subseteq Calls
  BY DEF InBackground, IInv, TypeOK
<1>2. IsFiniteSet(InBackground(s))
  BY <1>1, FS_Subset
<1>3. /\ IsFiniteSet(InBackground(s)')
      /\ Cardinality(InBackground(s)') <= Cardinality(InBackground(s))
  BY <1>1, <1>2, FS_Subset
<1>4. Cardinality(InBackground(s)) \in Nat /\ Cardinality(InBackground(s)') \in Nat
  BY <1>2, <1>3, FS_CardinalityType
<1>5. Cardinality(InBackground(s)) <= MaxBackground
  BY DEF IInv, SlotInv
<1> QED
  BY <1>3, <1>4, <1>5

\* A call of the tool asks for approval.
LEMMA ApproveKeepsIInv == ASSUME IInv, NEW c \in Calls, Approve(c) \/ UserAnswers(c) PROVE IInv'
<1> USE DEF call, process, tables, IInv, TypeOK, Go, Decide
<1>1. UNCHANGED <<process, watcher, running, background, fs, finished>>
  BY DEF Approve, RejectCall, DeclineCall, AllowCall, AskUser, PollApproved, PollDenied,
         PollTimeout, PollFails, UserAnswers
<1>2. TypeOK'
  BY DEF PCs, Verdicts, Approve, RejectCall, DeclineCall, AllowCall, AskUser, PollApproved,
         PollDenied, PollTimeout, PollFails, UserAnswers, Key
<1>3. SlotInv'
  BY <1>1, FewerSlots
<1>4. ASSUME NEW d \in Calls PROVE CallInv(d)'
  <2>1. CallInv(d)
    OBVIOUS
  <2> QED
    BY <1>1, <2>1 DEF CallInv, Approve, RejectCall, DeclineCall, AllowCall, AskUser,
         PollApproved, PollDenied, PollTimeout, PollFails, UserAnswers
<1> QED
  BY <1>2, <1>3, <1>4

\* A command is detached: a session that has room gets one entry.
LEMMA DetachKeepsIInv == ASSUME IInv, NEW c \in Calls, Detach(c) PROVE IInv'
<1> USE DEF call, process, IInv, TypeOK, Detach, Go
<1>1. TypeOK'
  BY DEF PCs
<1>2. SlotInv'
  <2> SUFFICES ASSUME NEW s \in Sessions PROVE Cardinality(InBackground(s)') <= MaxBackground
    BY DEF SlotInv
  <2>1. Cardinality(InBackground(s)) <= MaxBackground /\ IsFiniteSet(InBackground(s))
    <3>1. InBackground(s) \subseteq Calls
      BY DEF InBackground
    <3> QED
      BY <3>1, FS_Subset DEF SlotInv
  <2>2. CASE s = SessionOf[TaskOf[c]]
    <3>1. InBackground(s)' = InBackground(s) \cup {c}
      BY <2>2 DEF InBackground
    <3>2. Cardinality(InBackground(s)) < MaxBackground
      BY <2>2 DEF InSession
    <3>3. Cardinality(InBackground(s)') \in {Cardinality(InBackground(s)), Cardinality(InBackground(s)) + 1}
      BY <2>1, <3>1, FS_AddElement
    <3>4. Cardinality(InBackground(s)) \in Nat
      BY <2>1, FS_CardinalityType
    <3> QED
      BY <3>2, <3>3, <3>4
  <2>3. CASE s # SessionOf[TaskOf[c]]
    <3>1. InBackground(s)' = InBackground(s)
      BY <2>3 DEF InBackground
    <3> QED
      BY <2>1, <3>1
  <2> QED
    BY <2>2, <2>3
<1>3. ASSUME NEW d \in Calls PROVE CallInv(d)'
  <2>1. CallInv(d)
    OBVIOUS
  <2> QED
    BY <2>1 DEF CallInv
<1> QED
  BY <1>1, <1>2, <1>3

\* The call starts its process, waits for it, kills it and reports it.
LEMMA StartKeepsIInv ==
  ASSUME IInv, NEW c \in Calls, StartFails(c) \/ StartProcess(c) \/ Register(c) \/ Announce(c)
  PROVE  IInv'
<1> USE DEF call, process, tables, IInv, TypeOK, Go, Decide, StartFails, StartProcess, Register, Announce
<1>1. TypeOK'
  BY DEF PCs, Verdicts
<1>2. SlotInv'
  BY FewerSlots
<1>3. ASSUME NEW d \in Calls PROVE CallInv(d)'
  <2>1. CallInv(d)
    OBVIOUS
  <2> QED
    BY <2>1 DEF CallInv
<1> QED
  BY <1>1, <1>2, <1>3

LEMMA WaitKeepsIInv ==
  ASSUME IInv, NEW c \in Calls, TakeResult(c) \/ WaitTimesOut(c) \/ ContextDone(c) \/ NoRoom(c)
  PROVE  IInv'
<1> USE DEF call, process, tables, IInv, TypeOK, Go, Decide, TakeResult, WaitTimesOut, ContextDone, NoRoom, Result
<1>1. TypeOK'
  BY DEF PCs, Verdicts
<1>2. SlotInv'
  BY FewerSlots
<1>3. ASSUME NEW d \in Calls PROVE CallInv(d)'
  <2>1. CallInv(d)
    OBVIOUS
  <2> QED
    BY <2>1 DEF CallInv
<1> QED
  BY <1>1, <1>2, <1>3

LEMMA EndKeepsIInv ==
  ASSUME IInv, NEW c \in Calls, Kill(c) \/ Collect(c) \/ Release(c) \/ Report(c)
  PROVE  IInv'
<1> USE DEF call, process, tables, IInv, TypeOK, Go, Kill, Signal, Collect, Release, Report, Result
<1>1. TypeOK'
  BY DEF PCs
<1>2. SlotInv'
  BY FewerSlots
<1>3. ASSUME NEW d \in Calls PROVE CallInv(d)'
  <2>1. CallInv(d)
    OBVIOUS
  <2> QED
    BY <2>1 DEF CallInv
<1> QED
  BY <1>1, <1>2, <1>3

\* The process ends, and the watcher of a detached command winds it up.
LEMMA WatchKeepsIInv == ASSUME IInv, NEW c \in Calls, Process(c) \/ Watch(c) PROVE IInv'
<1> USE DEF call, process, tables, IInv, TypeOK, Process, ProcessExits, Grace, Result,
            Watch, WatcherTakes, WatcherReports, WatcherReleases, WatcherFrees
<1>1. TypeOK'
  OBVIOUS
<1>2. SlotInv'
  BY FewerSlots
<1>3. ASSUME NEW d \in Calls PROVE CallInv(d)'
  <2>1. CallInv(d)
    OBVIOUS
  <2> QED
    BY <2>1 DEF CallInv
<1> QED
  BY <1>1, <1>2, <1>3

\* Stops by the user, ends of contexts and ends of turns leave CallInv's variables alone.
LEMMA OutsideKeepsIInv ==
  ASSUME IInv,
         \/ \E c \in Calls : ContextEnds(c) \/ FSTerminate(c)
         \/ FSSignal \/ FSDone
         \/ \E t \in Tasks : EndTask(t)
  PROVE  IInv'
<1> USE DEF call, process, tables, IInv, TypeOK, ContextEnds, FSTerminate, FSSignal, Signal, FSDone, EndTask
<1>1. TypeOK'
  OBVIOUS
<1>2. SlotInv'
  BY FewerSlots
<1>3. ASSUME NEW d \in Calls PROVE CallInv(d)'
  <2>1. CallInv(d)
    OBVIOUS
  <2> QED
    BY <2>1 DEF CallInv
<1> QED
  BY <1>1, <1>2, <1>3

LEMMA CommandNext == ASSUME IInv, [Next]_vars PROVE IInv'
<1>1. CASE Next
  <2>1. ASSUME NEW c \in Calls, Execute(c) PROVE IInv'
    BY <2>1, DetachKeepsIInv, StartKeepsIInv, WaitKeepsIInv, EndKeepsIInv DEF Execute
  <2> QED
    BY <1>1, <2>1, ApproveKeepsIInv, WatchKeepsIInv, OutsideKeepsIInv DEF Next
<1>2. CASE UNCHANGED vars
  BY <1>2 DEF vars, call, process, tables, IInv, TypeOK, SlotInv, InBackground, CallInv
<1> QED
  BY <1>1, <1>2

\* The inductive invariant holds in every execution of the tool.
THEOREM CommandInvariant == Spec => []IInv
BY CommandInit, CommandNext, PTL DEF Spec

\* Every variable keeps its type.
THEOREM TypeCorrect == Spec => []TypeOK
BY CommandInvariant, PTL DEF IInv

\* A session never has more unattended processes than reserveBackgroundCommand allows.
THEOREM BackgroundIsLimited == Spec => []DetachedLimit
<1>1. ASSUME IInv PROVE DetachedLimit
  <2> SUFFICES ASSUME NEW s \in Sessions
      PROVE Cardinality({c \in Calls : /\ SessionOf[TaskOf[c]] = s
                                      /\ pc[c] \in {"announcing", "over"} /\ proc[c] = "running"})
              <= MaxBackground
    BY DEF DetachedLimit
  <2> DEFINE alone == {c \in Calls : /\ SessionOf[TaskOf[c]] = s
                                    /\ pc[c] \in {"announcing", "over"} /\ proc[c] = "running"}
  <2>1. alone \subseteq InBackground(s)
    <3> SUFFICES ASSUME NEW c \in alone PROVE c \in background
      BY DEF InBackground
    <3>1. CallInv(c) /\ watcher[c] \in {"none", "waiting", "posting", "releasing", "freeing", "over"}
      BY <1>1 DEF IInv, TypeOK
    <3> QED
      BY <3>1 DEF CallInv
  <2>2. IsFiniteSet(InBackground(s))
    <3>1. InBackground(s) \subseteq Calls
      BY <1>1 DEF IInv, TypeOK, InBackground
    <3> QED
      BY <3>1, FS_Subset
  <2>3. IsFiniteSet(alone) /\ Cardinality(alone) <= Cardinality(InBackground(s))
    BY <2>1, <2>2, FS_Subset
  <2>4. Cardinality(InBackground(s)) <= MaxBackground
    BY <1>1 DEF IInv, SlotInv
  <2>5. Cardinality(alone) \in Nat /\ Cardinality(InBackground(s)) \in Nat
    BY <2>2, <2>3, FS_CardinalityType
  <2> HIDE DEF alone
  <2>6. Cardinality(alone) <= MaxBackground
    BY <2>3, <2>4, <2>5
  <2> QED
    BY <2>6 DEF alone
<1> QED
  BY <1>1, CommandInvariant, PTL

\* terminate_command finds every registered command whose process is alive.
THEOREM LiveCommandsAreReachable == Spec => []LiveCommandIsReachable
<1>1. ASSUME IInv PROVE LiveCommandIsReachable
  <2> SUFFICES ASSUME NEW c \in Calls, proc[c] = "running" PROVE pc[c] = "started" \/ c \in running
    BY DEF LiveCommandIsReachable
  <2>1. CallInv(c) /\ pc[c] \in PCs /\ watcher[c] \in {"none", "waiting", "posting", "releasing", "freeing", "over"}
    BY <1>1 DEF IInv, TypeOK
  <2> QED
    BY <2>1 DEF CallInv, PCs
<1> QED
  BY <1>1, CommandInvariant, PTL

\* Call and watcher together report command.finished once, after the process was reaped.
THEOREM CommandsFinishOnce == Spec => []OneFinishPerCommand
<1>1. ASSUME IInv PROVE OneFinishPerCommand
  <2> SUFFICES ASSUME NEW c \in Calls
      PROVE /\ finished[c] <= 1
            /\ finished[c] = 1 => proc[c] \in {"none", "reaped"}
            /\ pc[c] = "over" /\ watcher[c] \in {"none", "over"} => finished[c] = 1
    BY DEF OneFinishPerCommand
  <2>1. CallInv(c) /\ proc[c] \in {"none", "running", "reaped"}
    BY <1>1 DEF IInv, TypeOK
  <2> QED
    BY <2>1 DEF CallInv
<1> QED
  BY <1>1, CommandInvariant, PTL

\* No risky command runs without an answer to its own question.
THEOREM RiskyCommandsAreAnswered == Spec => []RiskyRunsAreAnswered
<1>1. ASSUME IInv PROVE RiskyRunsAreAnswered
  BY <1>1 DEF IInv, CallInv, RiskyRunsAreAnswered
<1> QED
  BY <1>1, CommandInvariant, PTL
=============================================================================
