------------------------- MODULE AgentSessionProofs -------------------------
(***************************************************************************)
(* Theorems about AgentSession for every value of its constants: the       *)
(* types; where the calls are; retries and overflows; what a request sees; *)
(* bash results; where every message of a client is, and that the mirrors  *)
(* show it; and that the transcript is the context of the session.         *)
(*                                                                         *)
(* A lemma is named after the step and the invariant it keeps: FlushTyped, *)
(* ReturnMoves (ShapeOf, by Moves), StartRunControlled, TakeKinds,         *)
(* StepRecovery, StepAttempt, StepBash, StepKept, StepAccount,             *)
(* StepMirrors, StepKeeps (the cuts), StepAgrees.  A Step lemma combines   *)
(* the lemmas about the calls, the run and compact().                      *)
(***************************************************************************)
EXTENDS AgentSession, SequenceTheorems, FiniteSetTheorems, WellFoundedInduction, TLAPS

-----------------------------------------------------------------------------
\* Selections from a sequence.

\* Induction over the natural numbers, for a set.
LEMMA NatSetInduction ==
    ASSUME NEW S, 0 \in S, \A n \in Nat : n \in S => n + 1 \in S
    PROVE  Nat \subseteq S
  <1> SUFFICES ASSUME NEW m \in Nat, m \notin S
               PROVE  FALSE
    OBVIOUS
  <1> DEFINE R == OpToRel(<, Nat)
             out == Nat \ S
  <1>1. IsWellFoundedOn(R, Nat)
    BY NatLessThanWellFounded
  <1>2. PICK n \in out : \A k \in out : ~(<<k, n>> \in R)
    <2>1. out # {} /\ out \subseteq Nat
      OBVIOUS
    <2> HIDE DEF R, out
    <2> QED
      BY <1>1, <2>1, WFMin
  <1>3. n # 0 /\ n \in Nat
    OBVIOUS
  <1>4. n - 1 \in Nat /\ n - 1 < n /\ n - 1 + 1 = n
    BY <1>3
  <1>5. n - 1 \in out
    BY <1>4
  <1>6. <<n - 1, n>> \in R
    BY <1>3, <1>4 DEF OpToRel
  <1> QED
    BY <1>2, <1>5, <1>6

\* What is selected of the n-th element alone, and f[n] of the first n.
Piece(s, kept, n) == IF n \in kept THEN <<s[n]>> ELSE <<>>
Selection(s, kept, f) ==
    f = [n \in 0..Len(s) |-> IF n = 0 THEN <<>> ELSE f[n - 1] \o Piece(s, kept, n)]

\* The recursion, one element further.
LEMMA SelectionStep ==
    ASSUME NEW s, NEW kept, NEW f, Selection(s, kept, f), NEW n \in Nat, n + 1 \in 0..Len(s)
    PROVE  f[n + 1] = f[n] \o Piece(s, kept, n + 1)
  <1>1. ASSUME NEW k \in 0..Len(s)
        PROVE  f[k] = IF k = 0 THEN <<>> ELSE f[k - 1] \o Piece(s, kept, k)
    BY Zenon DEF Selection
  <1>2. n + 1 # 0 /\ n + 1 - 1 = n
    OBVIOUS
  <1>3. f[n + 1] = IF n + 1 = 0 THEN <<>> ELSE f[n + 1 - 1] \o Piece(s, kept, n + 1)
    BY <1>1
  <1> QED
    BY <1>2, <1>3

\* The recursion of Selected has a solution.
LEMMA SelectionOf ==
    ASSUME NEW s, NEW kept, Len(s) \in Nat
    PROVE  \E f : Selection(s, kept, f) /\ Selected(s, kept) = f[Len(s)]
  <1> DEFINE P(n) == Piece(s, kept, n)
             Upto(m, f) == f = [n \in 0..m |-> IF n = 0 THEN <<>> ELSE f[n - 1] \o P(n)]
             S == {m \in Nat : \E f : Upto(m, f)}
  <1>1. 0 \in S
    <2>1. Upto(0, [n \in 0..0 |-> <<>>])
      OBVIOUS
    <2> QED
      BY <2>1
  <1>2. ASSUME NEW m \in Nat, m \in S
        PROVE  m + 1 \in S
    <2>1. PICK f : Upto(m, f)
      BY <1>2
    <2> DEFINE g == [n \in 0..(m + 1) |-> IF n = m + 1 THEN f[m] \o P(m + 1) ELSE f[n]]
    <2> HIDE DEF P
    <2>2. ASSUME NEW n \in 0..(m + 1)
          PROVE  g[n] = IF n = 0 THEN <<>> ELSE g[n - 1] \o P(n)
      <3>1. CASE n = m + 1
        <4>1. n - 1 = m /\ m \in 0..(m + 1) /\ m # m + 1 /\ n # 0
          BY <3>1
        <4> QED
          BY <3>1, <4>1
      <3>2. CASE n = 0
        <4>1. f[0] = <<>> /\ 0 # m + 1
          BY <2>1
        <4> QED
          BY <3>2, <4>1
      <3>3. CASE n # m + 1 /\ n # 0
        <4>1. n \in 0..m /\ n - 1 \in 0..(m + 1) /\ n - 1 # m + 1
          BY <3>3
        <4>2. f[n] = f[n - 1] \o P(n)
          BY <2>1, <3>3, <4>1
        <4> QED
          BY <3>3, <4>1, <4>2
      <3> QED
        BY <3>1, <3>2, <3>3
    <2>3. Upto(m + 1, g)
      <3> DEFINE h == [n \in 0..(m + 1) |-> IF n = 0 THEN <<>> ELSE g[n - 1] \o P(n)]
      <3>1. \A n \in 0..(m + 1) : g[n] = h[n]
        <4> SUFFICES ASSUME NEW n \in 0..(m + 1) PROVE g[n] = h[n]
          OBVIOUS
        <4>1. g[n] = IF n = 0 THEN <<>> ELSE g[n - 1] \o P(n)
          BY <2>2
        <4> HIDE DEF g
        <4> QED
          BY <4>1
      <3>2. g = [n \in 0..(m + 1) |-> g[n]] /\ h = [n \in 0..(m + 1) |-> h[n]]
        OBVIOUS
      <3>3. g = h
        <4> HIDE DEF g, h
        <4> QED
          BY <3>1, <3>2
      <3> QED
        BY <3>3
    <2>4. \E f0 : Upto(m + 1, f0)
      <3> HIDE DEF Upto, g
      <3> QED
        BY <2>3
    <2> HIDE DEF Upto
    <2> QED
      BY <2>4
  <1>3. Len(s) \in S
    <2> HIDE DEF S
    <2>1. Nat \subseteq S
      BY <1>1, <1>2, NatSetInduction
    <2> QED
      BY <2>1
  <1>4. PICK f : Selection(s, kept, f)
    BY <1>3 DEF Selection
  <1> DEFINE g == CHOOSE f0 : Selection(s, kept, f0)
  <1>5. Selection(s, kept, g)
    BY <1>4
  <1>6. Selected(s, kept) = g[Len(s)]
    BY DEF Selected, Selection, Piece
  <1> QED
    BY <1>5, <1>6

\* What is selected of the first n elements depends only on them.
LEMMA SelectionsAgree ==
    ASSUME NEW s, NEW t, NEW kept, NEW kept2, NEW f, NEW g, NEW m \in Nat,
           Len(s) \in Nat, Len(t) \in Nat, m <= Len(s), m <= Len(t),
           Selection(s, kept, f), Selection(t, kept2, g),
           \A i \in 1..m : s[i] = t[i] /\ (i \in kept <=> i \in kept2)
    PROVE  f[m] = g[m]
  <1> DEFINE S == {n \in Nat : n <= m => f[n] = g[n]}
  <1>1. 0 \in S
    BY DEF Selection
  <1>2. ASSUME NEW n \in Nat, n \in S
        PROVE  n + 1 \in S
    <2> SUFFICES ASSUME n + 1 <= m
                 PROVE  f[n + 1] = g[n + 1]
      OBVIOUS
    <2>1. n + 1 \in 1..m /\ n + 1 \in 0..Len(s) /\ n + 1 \in 0..Len(t) /\ n + 1 - 1 = n /\ n + 1 # 0
      OBVIOUS
    <2>2. f[n + 1] = f[n] \o Piece(s, kept, n + 1)
      BY <2>1, SelectionStep
    <2>3. g[n + 1] = g[n] \o Piece(t, kept2, n + 1)
      BY <2>1, SelectionStep
    <2>4. f[n] = g[n]
      BY <1>2
    <2>5. s[n + 1] = t[n + 1] /\ (n + 1 \in kept <=> n + 1 \in kept2)
      BY <2>1
    <2> QED
      BY <2>2, <2>3, <2>4, <2>5 DEF Piece
  <1>3. m \in S
    <2> HIDE DEF S
    <2>1. Nat \subseteq S
      BY <1>1, <1>2, NatSetInduction
    <2> QED
      BY <2>1
  <1> QED
    BY <1>3

\* Nothing is selected of the empty sequence.
LEMMA SelectedEmpty ==
    ASSUME NEW kept
    PROVE  Selected(<<>>, kept) = <<>>
  <1>1. Len(<<>>) = 0
    OBVIOUS
  <1>2. PICK f : Selection(<<>>, kept, f) /\ Selected(<<>>, kept) = f[0]
    BY <1>1, SelectionOf
  <1> QED
    BY <1>1, <1>2 DEF Selection

\* One more element is selected, or not, after the others.
LEMMA SelectedAppend ==
    ASSUME NEW R, NEW s \in Seq(R), NEW e \in R, NEW kept, NEW kept2,
           \A i \in 1..Len(s) : i \in kept <=> i \in kept2
    PROVE  Selected(Append(s, e), kept)
               = Selected(s, kept2) \o (IF Len(s) + 1 \in kept THEN <<e>> ELSE <<>>)
  <1> DEFINE t == Append(s, e)
             n == Len(s)
  <1>1. n \in Nat /\ Len(t) = n + 1 /\ t[n + 1] = e /\ \A i \in 1..n : t[i] = s[i]
    BY AppendProperties, LenProperties
  <1> HIDE DEF t, n
  <1>2. PICK f : Selection(t, kept, f) /\ Selected(t, kept) = f[n + 1]
    BY <1>1, SelectionOf
  <1>3. PICK g : Selection(s, kept2, g) /\ Selected(s, kept2) = g[n]
    BY <1>1, SelectionOf DEF n
  <1>4. f[n] = g[n]
    <2>1. Len(s) \in Nat /\ Len(t) \in Nat /\ n <= Len(s) /\ n <= Len(t)
      BY <1>1 DEF n
    <2>2. \A i \in 1..n : s[i] = t[i] /\ (i \in kept2 <=> i \in kept)
      BY <1>1 DEF n
    <2> QED
      BY <1>1, <1>2, <1>3, <2>1, <2>2, SelectionsAgree
  <1>5. f[n + 1] = f[n] \o Piece(t, kept, n + 1)
    <2>1. n + 1 \in 0..Len(t) /\ n + 1 # 0 /\ n + 1 - 1 = n
      BY <1>1
    <2> QED
      BY <1>1, <1>2, <2>1, SelectionStep
  <1> QED
    BY <1>1, <1>2, <1>3, <1>4, <1>5 DEF t, n, Piece

\* What is selected is a sequence of the elements that are kept.
LEMMA SelectedType ==
    ASSUME NEW R, NEW s \in Seq(R), NEW kept, NEW K, \A i \in DOMAIN s : i \in kept => s[i] \in K
    PROVE  Selected(s, kept) \in Seq(K)
  <1>0. Len(s) \in Nat /\ DOMAIN s = 1..Len(s)
    BY LenProperties
  <1>1. PICK f : Selection(s, kept, f) /\ Selected(s, kept) = f[Len(s)]
    BY <1>0, SelectionOf
  <1> DEFINE S == {n \in Nat : n <= Len(s) => f[n] \in Seq(K)}
  <1>2. 0 \in S
    BY <1>1 DEF Selection
  <1>3. ASSUME NEW n \in Nat, n \in S
        PROVE  n + 1 \in S
    <2> SUFFICES ASSUME n + 1 <= Len(s)
                 PROVE  f[n + 1] \in Seq(K)
      OBVIOUS
    <2>1. n + 1 \in DOMAIN s /\ n + 1 \in 0..Len(s) /\ n + 1 - 1 = n /\ n + 1 # 0
      BY <1>0
    <2>2. f[n + 1] = f[n] \o Piece(s, kept, n + 1)
      BY <1>1, <2>1, SelectionStep
    <2>3. f[n] \in Seq(K)
      BY <1>0, <1>3
    <2>4. CASE n + 1 \in kept
      <3>1. <<s[n + 1]>> \in Seq(K)
        BY <2>1, <2>4
      <3> QED
        BY <2>2, <2>3, <2>4, <3>1, ConcatProperties DEF Piece
    <2>5. CASE n + 1 \notin kept
      BY <2>2, <2>3, <2>5, ConcatEmptySeq DEF Piece
    <2> QED
      BY <2>4, <2>5
  <1>4. Len(s) \in S
    <2> HIDE DEF S
    <2>1. Nat \subseteq S
      BY <1>2, <1>3, NatSetInduction
    <2> QED
      BY <1>0, <2>1
  <1> QED
    BY <1>0, <1>1, <1>4

\* When all elements but the first k are kept, they are what is selected.
LEMMA SelectedFrom ==
    ASSUME NEW R, NEW s \in Seq(R), NEW kept, NEW k \in 0..Len(s),
           \A i \in DOMAIN s : i \in kept <=> i > k
    PROVE  Selected(s, kept) = SubSeq(s, k + 1, Len(s))
  <1>0. Len(s) \in Nat /\ DOMAIN s = 1..Len(s)
    BY LenProperties
  <1>1. PICK f : Selection(s, kept, f) /\ Selected(s, kept) = f[Len(s)]
    BY <1>0, SelectionOf
  <1> DEFINE S == {n \in Nat : n <= Len(s) => f[n] = SubSeq(s, k + 1, n)}
  <1>2. 0 \in S
    <2>1. f[0] = <<>>
      BY <1>0, <1>1 DEF Selection
    <2>2. SubSeq(s, k + 1, 0) = <<>>
      BY <1>0, SubSeqEmpty
    <2> QED
      BY <2>1, <2>2
  <1>3. ASSUME NEW n \in Nat, n \in S
        PROVE  n + 1 \in S
    <2> SUFFICES ASSUME n + 1 <= Len(s)
                 PROVE  f[n + 1] = SubSeq(s, k + 1, n + 1)
      OBVIOUS
    <2>1. n + 1 \in DOMAIN s /\ n + 1 \in 0..Len(s) /\ n + 1 - 1 = n /\ n + 1 # 0
      BY <1>0
    <2>2. f[n + 1] = f[n] \o Piece(s, kept, n + 1)
      BY <1>1, <2>1, SelectionStep
    <2>3. f[n] = SubSeq(s, k + 1, n)
      BY <1>0, <1>3
    <2>4. CASE n + 1 > k
      <3>1. n + 1 \in kept
        BY <2>1, <2>4
      <3>2. k + 1 \in 1..Len(s) /\ n + 1 \in (k + 1)..Len(s)
        BY <1>0, <2>4
      <3>3. SubSeq(s, k + 1, n + 1) = SubSeq(s, k + 1, n + 1 - 1) \o <<s[n + 1]>>
        BY <3>2, SubSeqRecursiveSecond
      <3> QED
        BY <2>1, <2>2, <2>3, <3>1, <3>3 DEF Piece
    <2>5. CASE ~(n + 1 > k)
      <3>1. n + 1 \notin kept
        BY <2>1, <2>5
      <3>2. SubSeq(s, k + 1, n) = <<>> /\ SubSeq(s, k + 1, n + 1) = <<>>
        BY <1>0, <2>5, SubSeqEmpty
      <3> QED
        BY <2>2, <2>3, <3>1, <3>2 DEF Piece
    <2> QED
      BY <2>4, <2>5
  <1>4. Len(s) \in S
    <2> HIDE DEF S
    <2>1. Nat \subseteq S
      BY <1>2, <1>3, NatSetInduction
    <2> QED
      BY <1>0, <2>1
  <1> QED
    BY <1>0, <1>1, <1>4

-----------------------------------------------------------------------------
\* The messages of some kinds.

\* What is of some kinds is a sequence of messages of those kinds.
LEMMA OfKindType ==
    ASSUME NEW R, NEW s \in Seq(R), NEW K
    PROVE  OfKind(s, K) \in Seq({m \in R : m.kind \in K}) /\ OfKind(s, K) \in Seq(R)
  <1>1. \A i \in DOMAIN s : i \in IndicesOf(s, K) => s[i] \in {m \in R : m.kind \in K}
    BY LenProperties, ElementOfSeq DEF IndicesOf
  <1>2. OfKind(s, K) \in Seq({m \in R : m.kind \in K})
    BY <1>1, SelectedType DEF OfKind
  <1> QED
    BY <1>2, SeqMonotonic

LEMMA OfKindEmpty ==
    ASSUME NEW K
    PROVE  OfKind(<<>>, K) = <<>>
  BY SelectedEmpty DEF OfKind

LEMMA OfKindAppend ==
    ASSUME NEW R, NEW s \in Seq(R), NEW e \in R, NEW K
    PROVE  OfKind(Append(s, e), K) = OfKind(s, K) \o (IF e.kind \in K THEN <<e>> ELSE <<>>)
  <1> DEFINE t == Append(s, e)
             new == IndicesOf(t, K)
             old == IndicesOf(s, K)
  <1>1. t \in Seq(R) /\ Len(t) = Len(s) + 1 /\ t[Len(s) + 1] = e /\ Len(s) \in Nat
        /\ DOMAIN t = 1..Len(t) /\ DOMAIN s = 1..Len(s)
    BY AppendProperties, LenProperties
  <1>2. \A i \in 1..Len(s) : t[i] = s[i]
    BY AppendProperties
  <1>3. \A i \in 1..Len(s) : i \in new <=> i \in old
    BY <1>1, <1>2 DEF IndicesOf
  <1>4. Len(s) + 1 \in new <=> e.kind \in K
    BY <1>1 DEF IndicesOf
  <1> HIDE DEF new, old
  <1>5. Selected(t, new) = Selected(s, old) \o (IF Len(s) + 1 \in new THEN <<e>> ELSE <<>>)
    BY <1>3, SelectedAppend
  <1> QED
    BY <1>4, <1>5 DEF OfKind, new, old

\* Three sequences, in either grouping.
LEMMA Grouping ==
    \A R : \A a, b, c \in Seq(R) : (a \o b) \o c = a \o (b \o c)
  BY ConcatAssociative

\* The same, where the provers need not look into a concatenation.
Cat(a, b) == a \o b
LEMMA GroupingOfCat ==
    \A R : \A a, b, c \in Seq(R) : Cat(Cat(a, b), c) = Cat(a, Cat(b, c))
  BY Grouping DEF Cat

LEMMA OfKindConcatAppend ==
    \A R, K : \A s, v \in Seq(R), e \in R :
        OfKind(s \o v, K) = OfKind(s, K) \o OfKind(v, K)
        => OfKind(s \o Append(v, e), K) = OfKind(s, K) \o OfKind(Append(v, e), K)
  <1> SUFFICES ASSUME NEW R, NEW K, NEW s \in Seq(R), NEW v \in Seq(R), NEW e \in R,
                      OfKind(s \o v, K) = OfKind(s, K) \o OfKind(v, K)
               PROVE  OfKind(s \o Append(v, e), K) = OfKind(s, K) \o OfKind(Append(v, e), K)
    OBVIOUS
  <1> DEFINE last == IF e.kind \in K THEN <<e>> ELSE <<>>
             w == s \o v
             a == OfKind(s, K)
             b == OfKind(v, K)
  <1>1. last \in Seq(R)
    OBVIOUS
  <1>2. a \in Seq(R) /\ b \in Seq(R)
    BY OfKindType
  <1>3. w \in Seq(R)
    BY ConcatProperties
  <1>4. OfKind(Append(v, e), K) = b \o last
    BY OfKindAppend
  <1>5. OfKind(Append(w, e), K) = OfKind(w, K) \o last
    <2> HIDE DEF w
    <2> QED
      BY <1>3, OfKindAppend
  <1>6. s \o Append(v, e) = Append(w, e)
    <2>1. <<e>> \in Seq(R)
      OBVIOUS
    <2>2. Append(v, e) = v \o <<e>>
      BY AppendIsConcat
    <2>3. Append(w, e) = w \o <<e>>
      <3> HIDE DEF w
      <3> QED
        BY <1>3, AppendIsConcat
    <2>4. (s \o v) \o <<e>> = s \o (v \o <<e>>)
      BY <2>1, Grouping
    <2> QED
      BY <2>2, <2>3, <2>4
  <1> HIDE DEF last, w, a, b
  <1>7. (a \o b) \o last = a \o (b \o last)
    <2>1. a \in Seq(R) /\ b \in Seq(R) /\ last \in Seq(R)
      BY <1>1, <1>2
    <2>2. Cat(Cat(a, b), last) = Cat(a, Cat(b, last))
      BY <2>1, GroupingOfCat
    <2> QED
      BY ONLY <2>2 DEF Cat
  <1>8. OfKind(w, K) = a \o b
    BY DEF w, a, b
  <1> QED
    BY <1>4, <1>5, <1>6, <1>7, <1>8 DEF a

\* What is of some kinds in a concatenation.
LEMMA OfKindConcat ==
    ASSUME NEW R, NEW s \in Seq(R), NEW t \in Seq(R), NEW K
    PROVE  OfKind(s \o t, K) = OfKind(s, K) \o OfKind(t, K)
  <1> DEFINE S == {n \in Nat : \A u \in Seq(R) : Len(u) = n
                      => OfKind(s \o u, K) = OfKind(s, K) \o OfKind(u, K)}
  <1>1. 0 \in S
    <2> SUFFICES ASSUME NEW u \in Seq(R), Len(u) = 0
                 PROVE  OfKind(s \o u, K) = OfKind(s, K) \o OfKind(u, K)
      OBVIOUS
    <2>1. u = <<>>
      BY EmptySeq
    <2>2. OfKind(u, K) = <<>> /\ s \o u = s
      BY <2>1, OfKindEmpty, ConcatEmptySeq
    <2>3. OfKind(s, K) \in Seq(R)
      BY OfKindType
    <2> QED
      BY <2>2, <2>3, ConcatEmptySeq
  <1>2. ASSUME NEW n \in Nat, n \in S
        PROVE  n + 1 \in S
    <2> SUFFICES ASSUME NEW u \in Seq(R), Len(u) = n + 1
                 PROVE  OfKind(s \o u, K) = OfKind(s, K) \o OfKind(u, K)
      OBVIOUS
    <2>1. u # <<>>
      BY EmptySeq
    <2>2. PICK v \in Seq(R), e \in R : u = Append(v, e)
      BY <2>1, SequenceEmptyOrAppend
    <2>3. Len(v) = n
      BY <2>2, AppendProperties, LenProperties
    <2>4. OfKind(s \o v, K) = OfKind(s, K) \o OfKind(v, K)
      BY <1>2, <2>3
    <2>5. OfKind(s \o Append(v, e), K) = OfKind(s, K) \o OfKind(Append(v, e), K)
      BY <2>4, OfKindConcatAppend
    <2> QED
      BY <2>2, <2>5
  <1>3. Len(t) \in S
    <2> HIDE DEF S
    <2>1. Nat \subseteq S
      BY <1>1, <1>2, NatSetInduction
    <2> QED
      BY <2>1, LenProperties
  <1> QED
    BY <1>3

\* The same, with Cat.
LEMMA OfKindOfCat ==
    \A R, K : \A s, t \in Seq(R) : OfKind(Cat(s, t), K) = Cat(OfKind(s, K), OfKind(t, K))
  <1> SUFFICES ASSUME NEW R, NEW K, NEW s \in Seq(R), NEW t \in Seq(R)
               PROVE  OfKind(s \o t, K) = OfKind(s, K) \o OfKind(t, K)
    BY DEF Cat
  <1> QED
    BY OfKindConcat

\* All messages are of these kinds.
LEMMA OfKindAll ==
    ASSUME NEW R, NEW s \in Seq(R), NEW K, \A i \in DOMAIN s : s[i].kind \in K
    PROVE  OfKind(s, K) = s
  <1>1. Len(s) \in Nat /\ DOMAIN s = 1..Len(s)
    BY LenProperties
  <1>2. 0 \in 0..Len(s) /\ \A i \in DOMAIN s : i \in IndicesOf(s, K) <=> i > 0
    BY <1>1 DEF IndicesOf
  <1>3. Selected(s, IndicesOf(s, K)) = SubSeq(s, 0 + 1, Len(s))
    BY <1>2, SelectedFrom
  <1>4. SubSeq(s, 1, Len(s)) = s /\ 0 + 1 = 1
    BY SubSeqFull
  <1> QED
    BY <1>3, <1>4 DEF OfKind

\* No message is of these kinds.
LEMMA OfKindNone ==
    ASSUME NEW R, NEW s \in Seq(R), NEW K, \A i \in DOMAIN s : s[i].kind \notin K
    PROVE  OfKind(s, K) = <<>>
  <1>1. Len(s) \in Nat /\ DOMAIN s = 1..Len(s)
    BY LenProperties
  <1>2. Len(s) \in 0..Len(s) /\ \A i \in DOMAIN s : i \in IndicesOf(s, K) <=> i > Len(s)
    BY <1>1 DEF IndicesOf
  <1>3. Selected(s, IndicesOf(s, K)) = SubSeq(s, Len(s) + 1, Len(s))
    BY <1>2, SelectedFrom
  <1>4. SubSeq(s, Len(s) + 1, Len(s)) = <<>>
    BY <1>1, SubSeqEmpty
  <1> QED
    BY <1>3, <1>4 DEF OfKind

\* All but the last element of a sequence.
LEMMA FrontProperties ==
    ASSUME NEW R, NEW s \in Seq(R), s # <<>>
    PROVE  /\ Front(s) \in Seq(R) /\ Len(Front(s)) = Len(s) - 1 /\ Len(s) \in Nat \ {0}
           /\ s[Len(s)] \in R /\ s = Append(Front(s), s[Len(s)])
           /\ \A i \in 1..(Len(s) - 1) : Front(s)[i] = s[i]
           /\ DOMAIN Front(s) = 1..(Len(s) - 1)
  <1>1. Len(s) \in Nat \ {0} /\ DOMAIN s = 1..Len(s) /\ \A i \in 1..Len(s) : s[i] \in R
    BY EmptySeq, LenProperties, ElementOfSeq
  <1>2. /\ Front(s) \in Seq(R)
        /\ Len(Front(s)) = IF 1 <= Len(s) - 1 THEN Len(s) - 1 - 1 + 1 ELSE 0
        /\ \A i \in 1..(Len(s) - 1 - 1 + 1) : Front(s)[i] = s[1 + i - 1]
    BY <1>1, SubSeqProperties DEF Front
  <1>3. Len(Front(s)) = Len(s) - 1 /\ \A i \in 1..(Len(s) - 1) : Front(s)[i] = s[i]
    <2>1. Len(Front(s)) = Len(s) - 1
      <3>1. Len(s) \in Nat \ {0}
            /\ Len(Front(s)) = IF 1 <= Len(s) - 1 THEN Len(s) - 1 - 1 + 1 ELSE 0
        BY <1>1, <1>2
      <3> DEFINE n == Len(s)
                 f == Len(Front(s))
      <3>2. n \in Nat \ {0} /\ f = IF 1 <= n - 1 THEN n - 1 - 1 + 1 ELSE 0
        BY <3>1
      <3> HIDE DEF n, f
      <3>3. f = n - 1
        BY <3>2
      <3> QED
        BY <3>3 DEF n, f
    <2>2. ASSUME NEW i \in 1..(Len(s) - 1) PROVE Front(s)[i] = s[i]
      <3>1. i \in 1..(Len(s) - 1 - 1 + 1) /\ 1 + i - 1 = i
        BY <1>1
      <3>2. Front(s)[i] = s[1 + i - 1]
        BY <1>2, <3>1
      <3> QED
        BY <3>1, <3>2
    <2> QED
      BY <2>1, <2>2
  <1>4. DOMAIN Front(s) = 1..(Len(s) - 1)
    BY <1>2, <1>3, LenProperties
  <1>5. s = Append(Front(s), s[Len(s)])
    <2> DEFINE t == Append(Front(s), s[Len(s)])
    <2>1. t \in Seq(R) /\ Len(t) = Len(s) /\ t[Len(s)] = s[Len(s)]
          /\ \A i \in 1..(Len(s) - 1) : t[i] = s[i]
      <3> DEFINE f == Front(s)
                 e == s[Len(s)]
      <3>1. f \in Seq(R) /\ e \in R /\ Len(f) = Len(s) - 1 /\ Len(s) \in Nat \ {0}
            /\ \A i \in 1..(Len(s) - 1) : f[i] = s[i]
        <4>1. f \in Seq(R)
          BY <1>2
        <4>2. e \in R
          BY <1>1
        <4> QED
          BY <1>1, <1>3, <4>1, <4>2
      <3> HIDE DEF f, e
      <3>2. /\ Append(f, e) \in Seq(R) /\ Len(Append(f, e)) = Len(f) + 1
            /\ \A i \in 1..Len(f) : Append(f, e)[i] = f[i]
            /\ Append(f, e)[Len(f) + 1] = e
        BY <3>1, AppendProperties
      <3>3. /\ Append(f, e) \in Seq(R) /\ Len(Append(f, e)) = Len(s)
            /\ \A i \in 1..(Len(s) - 1) : Append(f, e)[i] = s[i]
            /\ Append(f, e)[Len(s)] = e
        BY <3>1, <3>2
      <3> QED
        BY <3>3 DEF f, e
    <2> HIDE DEF t
    <2>2. \A i \in 1..Len(s) : s[i] = t[i]
      BY <1>1, <2>1
    <2>3. s = t
      BY <2>1, <2>2, SeqEqual
    <2> QED
      BY <2>3 DEF t
  <1>6. s[Len(s)] \in R
    BY <1>1
  <1>7. Front(s) \in Seq(R)
    BY <1>2
  <1> HIDE DEF Front
  <1> QED
    BY <1>1, <1>3, <1>4, <1>5, <1>6, <1>7

\* A last element of another kind makes no difference.
LEMMA OfKindFront ==
    ASSUME NEW R, NEW s \in Seq(R), NEW K, s # <<>>, s[Len(s)].kind \notin K
    PROVE  OfKind(Front(s), K) = OfKind(s, K)
  <1>1. Front(s) \in Seq(R) /\ s[Len(s)] \in R /\ s = Append(Front(s), s[Len(s)])
    BY FrontProperties
  <1> DEFINE f == Front(s)
             e == s[Len(s)]
  <1>2. OfKind(s, K) = OfKind(f, K) \o <<>>
    <2>1. f \in Seq(R) /\ e \in R /\ s = Append(f, e) /\ e.kind \notin K
      BY <1>1
    <2> HIDE DEF f, e
    <2> QED
      BY <2>1, OfKindAppend
  <1>3. OfKind(Front(s), K) \in Seq(R)
    BY <1>1, OfKindType
  <1> QED
    BY <1>2, <1>3, ConcatEmptySeq

-----------------------------------------------------------------------------
\* Greatest and least indices.

\* A set of numbers up to n that is not empty has a greatest and a least element.
LEMMA GreatestAndLeast ==
    ASSUME NEW n \in Nat, NEW S, S \subseteq 1..n, S # {}
    PROVE  /\ Max(S) \in S /\ \A i \in S : i <= Max(S)
           /\ Min(S) \in S /\ \A i \in S : Min(S) <= i
  <1> DEFINE Bounded == {m \in Nat : \A U : U \subseteq 1..m /\ U # {} =>
                            \E x, y \in U : \A z \in U : z <= x /\ y <= z}
  <1>1. 0 \in Bounded
    OBVIOUS
  <1>2. ASSUME NEW m \in Nat, m \in Bounded
        PROVE  m + 1 \in Bounded
    <2>1. ASSUME NEW U, U \subseteq 1..(m + 1), U # {}
          PROVE  \E x, y \in U : \A z \in U : z <= x /\ y <= z
      <3> DEFINE V == U \ {m + 1}
      <3>1. V \subseteq 1..m
        BY <2>1
      <3>2. CASE V = {}
        <4>1. U = {m + 1}
          BY <2>1, <3>2
        <4> QED
          BY <4>1
      <3>3. CASE V # {}
        <4>1. PICK x \in V, y \in V : \A z \in V : z <= x /\ y <= z
          BY <1>2, <3>1, <3>3
        <4>2. \A z \in V : z \in 1..m
          BY <3>1
        <4>3. CASE m + 1 \in U
          <5>1. \A z \in U : z <= m + 1 /\ y <= z
            BY <4>1, <4>2
          <5> QED
            BY <4>3, <5>1
        <4>4. CASE m + 1 \notin U
          <5>1. V = U
            BY <4>4
          <5> QED
            BY <4>1, <5>1
        <4> QED
          BY <4>3, <4>4
      <3> QED
        BY <3>2, <3>3
    <2>2. m + 1 \in Nat
      OBVIOUS
    <2> QED
      BY Zenon, <2>1, <2>2
  <1>3. n \in Bounded
    <2> HIDE DEF Bounded
    <2> QED
      BY <1>1, <1>2, NatSetInduction
  <1>4. PICK x \in S, y \in S : \A z \in S : z <= x /\ y <= z
    BY <1>3
  <1>5. \A z \in S : x >= z /\ y <= z
    BY <1>4
  <1>6. Max(S) \in S /\ \A z \in S : Max(S) >= z
    BY <1>5 DEF Max
  <1>7. Min(S) \in S /\ \A z \in S : Min(S) <= z
    BY <1>5 DEF Min
  <1> QED
    BY <1>6, <1>7

\* The latest compaction of a session that has one.
LEMMA LatestOfSome ==
    ASSUME NEW R, NEW s \in Seq(R), Compactions(s) # {}
    PROVE  /\ LatestCompaction(s) \in Compactions(s)
           /\ \A i \in Compactions(s) : i <= LatestCompaction(s)
  <1>1. Len(s) \in Nat /\ Compactions(s) \subseteq 1..Len(s)
    BY LenProperties DEF Compactions, IndicesOf
  <1> QED
    BY <1>1, GreatestAndLeast DEF LatestCompaction

\* What is tried as a cut is an index of the session, or 0.
LEMMA CutsType ==
    ASSUME session \in Seq(EntryType), NEW keep \in Cuts
    PROVE  keep \in {0} \union CutPoints(session) /\ keep \in Nat
  <1>1. Len(session) \in Nat /\ CutPoints(session) \subseteq 1..Len(session)
    BY LenProperties DEF CutPoints
  <1>2. CASE CutPoints(session) = {}
    BY <1>2 DEF Cuts
  <1>3. CASE CutPoints(session) # {}
    <2>1. Min(CutPoints(session)) \in CutPoints(session)
          /\ Max(CutPoints(session)) \in CutPoints(session)
      BY <1>1, <1>3, GreatestAndLeast
    <2>2. keep \in {0} \union CutPoints(session)
      BY <2>1 DEF Cuts
    <2> QED
      BY <1>1, <2>2
  <1> QED
    BY <1>2, <1>3

-----------------------------------------------------------------------------
\* The context of a session.

\* A session without compactions holds messages only.
LEMMA OnlyMessages ==
    ASSUME NEW s \in Seq(EntryType), \A i \in DOMAIN s : s[i].kind # "compaction"
    PROVE  s \in Seq(MessageType)
  <1>1. \A i \in 1..Len(s) : s[i] \in MessageType
    BY LenProperties, ElementOfSeq DEF EntryType
  <1>2. Len(s) \in Nat /\ s = [i \in 1..Len(s) |-> s[i]]
    BY LenProperties
  <1> QED
    BY <1>1, <1>2, IsASeq

\* What a session with compactions shows: the summary, what was kept and what
\* came after.
Shown(s, c) ==
    <<[kind |-> "summary", id |-> s[c].id]>>
    \o OfKind(SubSeq(s, s[c].keep, c - 1), Kinds) \o SubSeq(s, c + 1, Len(s))

LEMMA ContextIs ==
    ASSUME NEW s \in Seq(EntryType)
    PROVE  /\ Compactions(s) = {} => Context(s) = s
           /\ Compactions(s) # {} => Context(s) = Shown(s, LatestCompaction(s))
  <1>1. CASE Compactions(s) = {}
    BY <1>1 DEF Context
  <1>2. CASE Compactions(s) # {}
    <2>1. LatestCompaction(s) \in Compactions(s)
      BY <1>2, LatestOfSome
    <2>2. Context(s) = [c \in Compactions(s) |-> Shown(s, c)][LatestCompaction(s)]
      BY <1>2 DEF Context, Shown
    <2> QED
      BY <1>2, <2>1, <2>2
  <1> QED
    BY <1>1, <1>2

\* The parts of what is shown.
LEMMA ShownParts ==
    ASSUME NEW s \in Seq(EntryType), NEW c \in DOMAIN s, s[c].kind = "compaction",
           \A i \in DOMAIN s : i > c => s[i].kind # "compaction"
    PROVE  /\ <<[kind |-> "summary", id |-> s[c].id]>> \in Seq(MessageType)
           /\ SubSeq(s, s[c].keep, c - 1) \in Seq(EntryType)
           /\ OfKind(SubSeq(s, s[c].keep, c - 1), Kinds) \in Seq(MessageType)
           /\ SubSeq(s, c + 1, Len(s)) \in Seq(MessageType)
           /\ Shown(s, c) \in Seq(MessageType)
  <1>1. Len(s) \in Nat /\ DOMAIN s = 1..Len(s) /\ c \in 1..Len(s)
        /\ \A i \in 1..Len(s) : s[i] \in EntryType
    BY LenProperties, ElementOfSeq
  <1>2. s[c].id \in Nat /\ s[c].keep \in Nat \ {0}
    <2>1. s[c] \in EntryType /\ s[c] \notin MessageType
      BY <1>1 DEF MessageType, Kinds, Replies
    <2> QED
      BY <2>1 DEF EntryType
  <1>3. <<[kind |-> "summary", id |-> s[c].id]>> \in Seq(MessageType)
    BY <1>2 DEF MessageType, Kinds
  <1> DEFINE kept == SubSeq(s, s[c].keep, c - 1)
             after == SubSeq(s, c + 1, Len(s))
  <1>4. kept \in Seq(EntryType)
    <2>2. CASE s[c].keep > c - 1
      <3>1. kept = <<>>
        BY <1>1, <1>2, <2>2, SubSeqEmpty
      <3>2. <<>> \in Seq(EntryType)
        OBVIOUS
      <3> HIDE DEF kept
      <3> QED
        BY <3>1, <3>2
    <2>3. CASE ~(s[c].keep > c - 1)
      <3>1. s[c].keep \in Int /\ c - 1 \in Int
            /\ \A i \in s[c].keep..(c - 1) : s[i] \in EntryType
        BY <1>1, <1>2
      <3> QED
        BY <3>1, SubSeqProperties
    <2> QED
      BY <2>2, <2>3
  <1>5. OfKind(kept, Kinds) \in Seq(MessageType)
    <2>1. {m \in EntryType : m.kind \in Kinds} \subseteq MessageType
      BY DEF EntryType, Kinds, Replies
    <2> HIDE DEF kept
    <2>2. OfKind(kept, Kinds) \in Seq({m \in EntryType : m.kind \in Kinds})
      BY <1>4, OfKindType
    <2> QED
      BY <2>1, <2>2, SeqMonotonic
  <1>6. after \in Seq(MessageType)
    <2>1. \A i \in (c + 1)..Len(s) : s[i] \in MessageType
      <3> TAKE i \in (c + 1)..Len(s)
      <3>1. i \in DOMAIN s /\ i > c /\ s[i] \in EntryType
        BY <1>1
      <3> QED
        BY <3>1 DEF EntryType
    <2>2. c + 1 \in Int /\ Len(s) \in Int
      BY <1>1
    <2> QED
      BY <2>1, <2>2, SubSeqProperties
  <1>7. Shown(s, c) \in Seq(MessageType)
    <2> DEFINE a == <<[kind |-> "summary", id |-> s[c].id]>>
               b == OfKind(kept, Kinds)
    <2>1. a \in Seq(MessageType) /\ b \in Seq(MessageType) /\ after \in Seq(MessageType)
      BY <1>3, <1>5, <1>6
    <2>2. Shown(s, c) = (a \o b) \o after
      BY DEF Shown
    <2> HIDE DEF a, b, after
    <2>3. a \o b \in Seq(MessageType)
      BY <2>1, ConcatProperties
    <2> QED
      BY <2>1, <2>2, <2>3, ConcatProperties
  <1> QED
    BY <1>3, <1>4, <1>5, <1>6, <1>7

\* A context is a sequence of messages.
LEMMA ContextType ==
    ASSUME NEW s \in Seq(EntryType)
    PROVE  Context(s) \in Seq(MessageType)
  <1>1. CASE Compactions(s) = {}
    <2>1. Context(s) = s
      BY <1>1, ContextIs
    <2>2. \A i \in DOMAIN s : s[i].kind # "compaction"
      BY <1>1 DEF Compactions, IndicesOf
    <2> QED
      BY <2>1, <2>2, OnlyMessages
  <1>2. CASE Compactions(s) # {}
    <2> DEFINE c == LatestCompaction(s)
    <2>1. c \in Compactions(s) /\ \A i \in Compactions(s) : i <= c
      BY <1>2, LatestOfSome
    <2>2. Context(s) = Shown(s, c)
      BY <1>2, ContextIs
    <2> HIDE DEF c
    <2>3. c \in DOMAIN s /\ s[c].kind = "compaction" /\ DOMAIN s \subseteq Nat
      BY <2>1, LenProperties DEF Compactions, IndicesOf
    <2>4. \A i \in DOMAIN s : i > c => s[i].kind # "compaction"
      BY <2>1, <2>3 DEF Compactions, IndicesOf
    <2> QED
      BY <2>2, <2>3, <2>4, ShownParts
  <1> QED
    BY <1>1, <1>2

-----------------------------------------------------------------------------
\* Type correctness, in parts.

CallType ==
    [at : {"idle", "checks", "hook", "run", "retry", "cancelled", "compact", "compacted"},
     pre : {"no", "check", "loop"}, hands : Seq(MessageType), retry : BOOLEAN,
     keep : Nat, message : MessageType \union {NoMessage},
     last : MessageType \union {NoMessage}]
Carries(calls) == \A p \in Prompters : calls[p].pre # "no" => calls[p].message.kind = "user"

ContentsTyped ==
    /\ messages \in Seq(MessageType) /\ session \in Seq(EntryType)
    /\ pendingBashMessages \in Seq(MessageType) /\ pendingNextTurnMessages \in Seq(MessageType)
    /\ prompts \in [Prompters -> CallType] /\ Carries(prompts)
LoopTyped ==
    /\ activeRun \in {"none", "live", "aborted"}
    /\ at \in {"off", "inject", "reply", "tools", "end"}
    /\ at = "off" <=> activeRun = "none"
    /\ hands \in Seq(MessageType)
    /\ steeringQueue \in Seq(MessageType) /\ followUpQueue \in Seq(MessageType)
    /\ pollDue \in BOOLEAN /\ staleContext \in BOOLEAN
RetryTyped ==
    /\ lastAssistantMessage \in MessageType \union {NoMessage}
    /\ retryAttempt \in 0..MaxRetries /\ retryOwner \subseteq Prompters
    /\ overflowRecoveryAttempted \in BOOLEAN
    /\ recoveries \in Nat /\ sent \subseteq Nat /\ refused \in BOOLEAN
MirrorsTyped == steeringMessages \in Seq(Nat) /\ followUpMessages \in Seq(Nat)
RestTyped ==
    /\ connected \in BOOLEAN /\ midRunReload \in BOOLEAN
    /\ missed \in BOOLEAN /\ overlapped \in BOOLEAN
    /\ manual \in [at : {"idle", "waiting", "ready", "summary", "saved"},
                   midRun : BOOLEAN, awaited : BOOLEAN, keep : Nat]
    /\ events \in Nat /\ made \in [Calls -> Nat]
Typed == ContentsTyped /\ LoopTyped /\ RetryTyped /\ MirrorsTyped /\ RestTyped

\* Typed is TypeOK and what a call carries.
LEMMA TypedIsTypeOK == Typed <=> TypeOK /\ Carries(prompts)
  BY DEF Typed, TypeOK, ContentsTyped, LoopTyped, RetryTyped, MirrorsTyped, RestTyped, CallType

\* Messages are entries, and made with the kinds there are.
LEMMA MessagesAreEntries ==
    /\ MessageType \subseteq EntryType
    /\ Seq(MessageType) \subseteq Seq(EntryType)
  <1>1. MessageType \subseteq EntryType
    BY DEF EntryType
  <1> QED
    BY <1>1, SeqMonotonic

LEMMA MessageTyped ==
    ASSUME NEW kind \in Kinds, events \in Nat
    PROVE  Message(kind) \in MessageType
  BY DEF Message, MessageType

\* Concatenations, the first message and the others, the last and the others.
LEMMA ConcatTyped == \A R : \A s, t \in Seq(R) : s \o t \in Seq(R)
  BY ConcatProperties

LEMMA QueueParts ==
    ASSUME NEW R, NEW q \in Seq(R)
    PROVE  /\ FirstOf(q) \in Seq(R) /\ RestOf(q) \in Seq(R) /\ FirstOf(q) \o RestOf(q) = q
           /\ q # <<>> => FirstOf(q) = <<q[1]>> /\ q[1] \in R
  <1>1. CASE q = <<>>
    <2>1. FirstOf(q) = <<>> /\ RestOf(q) = <<>> /\ <<>> \in Seq(R)
      BY <1>1 DEF FirstOf, RestOf
    <2> QED
      BY <1>1, <2>1, ConcatEmptySeq
  <1>2. CASE q # <<>>
    <2>1. FirstOf(q) = <<Head(q)>> /\ RestOf(q) = Tail(q) /\ Head(q) = q[1]
      BY <1>2, HeadTailProperties DEF FirstOf, RestOf
    <2>2. Head(q) \in R /\ Tail(q) \in Seq(R) /\ <<Head(q)>> \in Seq(R)
      BY <1>2, HeadTailProperties
    <2>3. <<Head(q)>> \o Tail(q) = q
      <3>1. 1 \in 1..Len(q) /\ Len(q) \in 1..Len(q)
        BY <1>2, EmptySeq, LenProperties
      <3>2. SubSeq(q, 1, Len(q)) = <<q[1]>> \o SubSeq(q, 1 + 1, Len(q))
        BY <3>1, SubSeqRecursiveFirst
      <3>3. SubSeq(q, 1, Len(q)) = q /\ SubSeq(q, 1 + 1, Len(q)) = Tail(q)
        BY <1>2, SubSeqFull, TailIsSubSeq
      <3> QED
        BY <2>1, <3>2, <3>3
    <2> QED
      BY <1>2, <2>1, <2>2, <2>3
  <1> QED
    BY <1>1, <1>2

\* The last message may be dropped.
LEMMA LastDropped ==
    ASSUME ContentsTyped
    PROVE  WithoutLastReply \in Seq(MessageType) /\ WithoutLastError \in Seq(MessageType)
  <1>1. CASE messages = <<>>
    <2>1. LastKind(messages) = "none"
      BY <1>1 DEF LastKind
    <2> QED
      BY <2>1 DEF WithoutLastReply, WithoutLastError, Replies, Errors, ContentsTyped
  <1>2. CASE messages # <<>>
    <2>1. Front(messages) \in Seq(MessageType)
      BY <1>2, FrontProperties DEF ContentsTyped
    <2> QED
      BY <2>1 DEF WithoutLastReply, WithoutLastError, ContentsTyped
  <1> QED
    BY <1>1, <1>2

\* Setting one call.
LEMMA CallSet ==
    ASSUME NEW p \in Prompters, NEW call \in CallType, prompts \in [Prompters -> CallType],
           Carries(prompts), call.pre # "no" => call.message.kind = "user",
           prompts' = [prompts EXCEPT ![p] = call]
    PROVE  /\ prompts' \in [Prompters -> CallType] /\ Carries(prompts')
           /\ prompts'[p] = call /\ \A q \in Prompters \ {p} : prompts'[q] = prompts[q]
  <1>1. prompts' \in [Prompters -> CallType]
    OBVIOUS
  <1>2. prompts'[p] = call /\ \A q \in Prompters \ {p} : prompts'[q] = prompts[q]
    OBVIOUS
  <1>3. Carries(prompts')
    BY <1>2 DEF Carries
  <1> QED
    BY <1>1, <1>2, <1>3

LEMMA IdleTyped == Idle \in CallType /\ Idle.pre = "no"
  BY EmptySeq DEF Idle, CallType

\* A call that carries a message has one.
LEMMA Carried ==
    ASSUME ContentsTyped, NEW p \in Prompters
    PROVE  /\ prompts[p] \in CallType
           /\ prompts[p].pre # "no" => prompts[p].message \in MessageType
  BY DEF ContentsTyped, Carries, CallType, NoMessage

LEMMA FlushTyped ==
    ASSUME ContentsTyped, NEW transcript \in Seq(MessageType), FlushBash(transcript)
    PROVE  /\ messages' \in Seq(MessageType) /\ session' \in Seq(EntryType)
           /\ pendingBashMessages' \in Seq(MessageType)
  <1>1. transcript \o pendingBashMessages \in Seq(MessageType)
    BY ConcatTyped DEF ContentsTyped
  <1>2. session \o pendingBashMessages \in Seq(EntryType)
    BY ConcatTyped, MessagesAreEntries DEF ContentsTyped
  <1>3. <<>> \in Seq(MessageType)
    OBVIOUS
  <1> QED
    BY <1>1, <1>2, <1>3 DEF FlushBash

LEMMA TakeTyped ==
    ASSUME ContentsTyped, NEW p \in Prompters, prompts[p].pre # "no", TakeMessages(p)
    PROVE  /\ prompts' \in [Prompters -> CallType] /\ Carries(prompts')
           /\ pendingNextTurnMessages' \in Seq(MessageType)
  <1>1. <<prompts[p].message>> \in Seq(MessageType)
    BY Carried
  <1> DEFINE taken == <<prompts[p].message>> \o pendingNextTurnMessages
             call == [Idle EXCEPT !.at = "hook", !.hands = taken]
  <1>2. taken \in Seq(MessageType)
    BY <1>1, ConcatTyped DEF ContentsTyped
  <1>3. prompts' = [prompts EXCEPT ![p] = call] /\ pendingNextTurnMessages' = <<>>
    BY DEF TakeMessages
  <1> HIDE DEF taken
  <1>4. call \in CallType /\ call.pre = "no"
    BY <1>2, IdleTyped DEF CallType
  <1>5. <<>> \in Seq(MessageType)
    OBVIOUS
  <1> HIDE DEF call
  <1> QED
    BY <1>3, <1>4, <1>5, CallSet DEF ContentsTyped

LEMMA ReturnTyped ==
    ASSUME ContentsTyped, NEW p \in Prompters, NEW transcript \in Seq(MessageType),
           Return(p, transcript)
    PROVE  ContentsTyped'
  <1>1. /\ messages' \in Seq(MessageType) /\ session' \in Seq(EntryType)
        /\ pendingBashMessages' \in Seq(MessageType)
    <2>1. CASE prompts[p].pre = "check"
      BY <2>1 DEF Return, ContentsTyped
    <2>2. CASE prompts[p].pre # "check"
      <3>1. FlushBash(transcript)
        BY <2>2 DEF Return
      <3> QED
        BY <3>1, FlushTyped
    <2> QED
      BY <2>1, <2>2
  <1>2. /\ prompts' \in [Prompters -> CallType] /\ Carries(prompts')
        /\ pendingNextTurnMessages' \in Seq(MessageType)
    <2>1. CASE prompts[p].pre = "no"
      <3>1. prompts' = [prompts EXCEPT ![p] = Idle] /\ UNCHANGED pendingNextTurnMessages
        BY <2>1 DEF Return
      <3> QED
        BY <3>1, IdleTyped, CallSet DEF ContentsTyped
    <2>2. CASE prompts[p].pre # "no"
      <3>1. TakeMessages(p)
        BY <2>2 DEF Return
      <3> QED
        BY <2>2, <3>1, TakeTyped
    <2> QED
      BY <2>1, <2>2
  <1> QED
    BY <1>1, <1>2 DEF ContentsTyped

LEMMA RejectTyped ==
    ASSUME ContentsTyped, RetryTyped, NEW p \in Prompters, NEW transcript \in Seq(MessageType),
           Reject(p, transcript)
    PROVE  ContentsTyped' /\ sent' \subseteq Nat
  <1>1. /\ FlushBash(transcript) /\ prompts' = [prompts EXCEPT ![p] = Idle]
        /\ sent' \subseteq sent /\ UNCHANGED pendingNextTurnMessages
    BY DEF Reject
  <1>2. /\ messages' \in Seq(MessageType) /\ session' \in Seq(EntryType)
        /\ pendingBashMessages' \in Seq(MessageType)
    BY <1>1, FlushTyped
  <1>3. prompts' \in [Prompters -> CallType] /\ Carries(prompts')
    BY <1>1, IdleTyped, CallSet DEF ContentsTyped
  <1> QED
    BY <1>1, <1>2, <1>3 DEF ContentsTyped, RetryTyped

LEMMA StartRunTyped ==
    ASSUME ContentsTyped, NEW p \in Prompters, NEW first \in Seq(MessageType),
           NEW poll \in BOOLEAN, StartRun(p, first, poll)
    PROVE  /\ prompts' \in [Prompters -> CallType] /\ Carries(prompts')
           /\ activeRun' = "live" /\ at' = "inject" /\ hands' \in Seq(MessageType)
           /\ pollDue' \in BOOLEAN /\ staleContext' \in BOOLEAN
  <1> DEFINE pre == IF prompts[p].pre = "check" THEN "loop" ELSE prompts[p].pre
             call == [Idle EXCEPT !.at = "run", !.message = prompts[p].message, !.pre = pre]
  <1>1. prompts' = [prompts EXCEPT ![p] = call]
    BY DEF StartRun
  <1>2. prompts[p] \in CallType
    BY Carried
  <1>3. call \in CallType
    BY <1>2, IdleTyped DEF CallType
  <1>4. call.pre # "no" => call.message.kind = "user"
    BY DEF Idle, ContentsTyped, Carries
  <1> HIDE DEF call
  <1>5. prompts' \in [Prompters -> CallType] /\ Carries(prompts')
    BY <1>1, <1>3, <1>4, CallSet DEF ContentsTyped
  <1> QED
    BY <1>5 DEF StartRun

\* A continue() is refused, or a run starts: with nothing, with the first of the
\* steering messages or with the first of the follow-ups.
Refused(p, transcript) ==
    /\ Reject(p, transcript)
    /\ refused' = TRUE
    /\ UNCHANGED <<agentVars, staleContext, recoveries>>
Continued(p, transcript) ==
    /\ activeRun = "none"
    /\ messages' = transcript
    /\ recoveries' = recoveries + (IF prompts[p].retry THEN 1 ELSE 0)
    /\ UNCHANGED <<session, pendingBashMessages, pendingNextTurnMessages, sent, refused>>
ContinuedWithNothing(p, transcript) ==
    /\ Continued(p, transcript)
    /\ transcript # <<>> /\ LastKind(transcript) \notin Replies
    /\ StartRun(p, <<>>, TRUE)
    /\ UNCHANGED <<steeringQueue, followUpQueue>>
ContinuedWithSteering(p, transcript) ==
    /\ Continued(p, transcript)
    /\ steeringQueue # <<>>
    /\ StartRun(p, FirstOf(steeringQueue), FALSE)
    /\ steeringQueue' = RestOf(steeringQueue)
    /\ UNCHANGED followUpQueue
ContinuedWithFollowUp(p, transcript) ==
    /\ Continued(p, transcript)
    /\ followUpQueue # <<>>
    /\ StartRun(p, FirstOf(followUpQueue), TRUE)
    /\ followUpQueue' = RestOf(followUpQueue)
    /\ UNCHANGED steeringQueue

LEMMA ContinueCases ==
    ASSUME LoopTyped, NEW p, NEW transcript, Continue(p, transcript)
    PROVE  \/ Refused(p, transcript)
           \/ ContinuedWithNothing(p, transcript)
           \/ ContinuedWithSteering(p, transcript)
           \/ ContinuedWithFollowUp(p, transcript)
  <1> DEFINE refuses == \/ activeRun # "none" \/ transcript = <<>>
                        \/ LastKind(transcript) \in Replies /\ steeringQueue \o followUpQueue = <<>>
  <1>1. CASE refuses
    BY <1>1 DEF Continue, Refused
  <1>2. CASE ~refuses
    <2>1. Continued(p, transcript) /\ transcript # <<>>
      BY <1>2 DEF Continue, Continued
    <2>2. CASE LastKind(transcript) \notin Replies
      BY <1>2, <2>1, <2>2 DEF Continue, ContinuedWithNothing
    <2>3. CASE LastKind(transcript) \in Replies /\ steeringQueue # <<>>
      BY <1>2, <2>1, <2>3 DEF Continue, ContinuedWithSteering
    <2>4. CASE LastKind(transcript) \in Replies /\ steeringQueue = <<>>
      <3>1. followUpQueue # <<>>
        <4>1. steeringQueue \o followUpQueue # <<>>
          BY <1>2, <2>4
        <4> QED
          BY <2>4, <4>1, ConcatEmptySeq DEF LoopTyped
      <3> QED
        BY <1>2, <2>1, <2>4, <3>1 DEF Continue, ContinuedWithFollowUp
    <2> QED
      BY <2>2, <2>3, <2>4
  <1> QED
    BY <1>1, <1>2

LEMMA ContinueTyped ==
    ASSUME ContentsTyped, LoopTyped, RetryTyped, NEW p \in Prompters,
           NEW transcript \in Seq(MessageType), Continue(p, transcript)
    PROVE  /\ ContentsTyped' /\ LoopTyped'
           /\ recoveries' \in Nat /\ sent' \subseteq Nat /\ refused' \in BOOLEAN
  <1>1. CASE Refused(p, transcript)
    <2>1. ContentsTyped' /\ sent' \subseteq Nat
      BY <1>1, RejectTyped DEF Refused
    <2>2. LoopTyped'
      BY <1>1 DEF Refused, LoopTyped, agentVars
    <2> QED
      BY <1>1, <2>1, <2>2 DEF Refused, RetryTyped
  <1>2. ASSUME NEW first \in Seq(MessageType), NEW poll \in BOOLEAN,
               StartRun(p, first, poll), Continued(p, transcript),
               steeringQueue' \in Seq(MessageType), followUpQueue' \in Seq(MessageType)
        PROVE  /\ ContentsTyped' /\ LoopTyped'
               /\ recoveries' \in Nat /\ sent' \subseteq Nat /\ refused' \in BOOLEAN
    <2>1. /\ prompts' \in [Prompters -> CallType] /\ Carries(prompts')
          /\ activeRun' = "live" /\ at' = "inject" /\ hands' \in Seq(MessageType)
          /\ pollDue' \in BOOLEAN /\ staleContext' \in BOOLEAN
      BY <1>2, StartRunTyped
    <2>2. ContentsTyped'
      BY <1>2, <2>1 DEF Continued, ContentsTyped
    <2>3. LoopTyped'
      BY <1>2, <2>1 DEF LoopTyped
    <2>4. recoveries' \in Nat /\ sent' \subseteq Nat /\ refused' \in BOOLEAN
      BY <1>2 DEF Continued, RetryTyped
    <2> QED
      BY <2>2, <2>3, <2>4
  <1>3. /\ FirstOf(steeringQueue) \in Seq(MessageType) /\ RestOf(steeringQueue) \in Seq(MessageType)
        /\ FirstOf(followUpQueue) \in Seq(MessageType) /\ RestOf(followUpQueue) \in Seq(MessageType)
        /\ <<>> \in Seq(MessageType)
    <2>1. steeringQueue \in Seq(MessageType) /\ followUpQueue \in Seq(MessageType)
      BY DEF LoopTyped
    <2>2. FirstOf(steeringQueue) \in Seq(MessageType) /\ RestOf(steeringQueue) \in Seq(MessageType)
      BY <2>1, QueueParts
    <2>3. FirstOf(followUpQueue) \in Seq(MessageType) /\ RestOf(followUpQueue) \in Seq(MessageType)
      BY <2>1, QueueParts
    <2>4. <<>> \in Seq(MessageType)
      OBVIOUS
    <2> QED
      BY <2>2, <2>3, <2>4
  <1>4. CASE ContinuedWithNothing(p, transcript)
    BY <1>2, <1>3, <1>4 DEF ContinuedWithNothing, LoopTyped
  <1>5. CASE ContinuedWithSteering(p, transcript)
    BY <1>2, <1>3, <1>5 DEF ContinuedWithSteering, LoopTyped
  <1>6. CASE ContinuedWithFollowUp(p, transcript)
    BY <1>2, <1>3, <1>6 DEF ContinuedWithFollowUp, LoopTyped
  <1> QED
    BY <1>1, <1>4, <1>5, <1>6, ContinueCases

LEMMA StartSummaryTyped ==
    ASSUME ContentsTyped, NEW p \in Prompters, NEW retry \in BOOLEAN, StartSummary(p, retry)
    PROVE  prompts' \in [Prompters -> CallType] /\ Carries(prompts')
  <1>1. PICK keep \in Cuts :
            prompts' = [prompts EXCEPT ![p].at = "compact", ![p].retry = retry,
                                       ![p].keep = keep, ![p].last = NoMessage]
    BY DEF StartSummary
  <1> DEFINE call == [prompts[p] EXCEPT !.at = "compact", !.retry = retry, !.keep = keep,
                                        !.last = NoMessage]
  <1>2. prompts[p] \in CallType
    BY Carried
  <1>3. prompts' = [prompts EXCEPT ![p] = call]
    BY <1>1 DEF ContentsTyped
  <1>4. keep \in Nat
    BY <1>1, CutsType DEF ContentsTyped
  <1>5. call \in CallType
    BY <1>2, <1>4 DEF CallType
  <1>6. call.pre # "no" => call.message.kind = "user"
    BY <1>2 DEF ContentsTyped, Carries, CallType
  <1> HIDE DEF call
  <1> QED
    BY <1>3, <1>5, <1>6, CallSet DEF ContentsTyped

LEMMA CheckCompactionTyped ==
    ASSUME ContentsTyped, overflowRecoveryAttempted \in BOOLEAN, NEW p \in Prompters, NEW m,
           NEW skipAborted, CheckCompaction(p, m, skipAborted)
    PROVE  ContentsTyped' /\ overflowRecoveryAttempted' \in BOOLEAN
  <1>1. CASE Return(p, messages) /\ UNCHANGED overflowRecoveryAttempted
    <2>1. messages \in Seq(MessageType)
      BY DEF ContentsTyped
    <2> QED
      BY <1>1, <2>1, ReturnTyped
  <1>2. ASSUME NEW retry \in BOOLEAN, StartSummary(p, retry), messages' \in Seq(MessageType),
               UNCHANGED <<session, pendingBashMessages, pendingNextTurnMessages>>
        PROVE  ContentsTyped'
    BY <1>2, StartSummaryTyped DEF ContentsTyped
  <1>3. CASE /\ overflowRecoveryAttempted' = TRUE
             /\ messages' = WithoutLastReply
             /\ StartSummary(p, TRUE)
             /\ UNCHANGED <<session, pendingBashMessages, pendingNextTurnMessages>>
    BY <1>2, <1>3, LastDropped
  <1>4. CASE /\ StartSummary(p, FALSE)
             /\ UNCHANGED <<messages, session, pendingBashMessages, pendingNextTurnMessages,
                            overflowRecoveryAttempted>>
    <2>1. messages' \in Seq(MessageType)
      BY <1>4 DEF ContentsTyped
    <2> QED
      BY <1>2, <1>4, <2>1
  <1> QED
    BY <1>1, <1>3, <1>4 DEF CheckCompaction

\* What may follow the run of a prompt, or a pause.
Paused(p, m) ==
    /\ Retryable(m)
    /\ retryAttempt' = retryAttempt + 1
    /\ messages' = WithoutLastReply
    /\ retryOwner' = {p}
    /\ prompts' = [prompts EXCEPT ![p].at = "retry", ![p].last = m]
    /\ UNCHANGED <<session, pendingBashMessages, pendingNextTurnMessages,
                   overflowRecoveryAttempted>>

LEMMA PausedTyped ==
    ASSUME ContentsTyped, RetryTyped, NEW p \in Prompters, NEW m \in MessageType, Paused(p, m)
    PROVE  ContentsTyped' /\ retryAttempt' \in 0..MaxRetries
  <1> DEFINE call == [prompts[p] EXCEPT !.at = "retry", !.last = m]
  <1>1. prompts[p] \in CallType
    BY Carried
  <1>2. prompts' = [prompts EXCEPT ![p] = call]
    BY DEF Paused, ContentsTyped
  <1>3. call \in CallType
    BY <1>1 DEF CallType
  <1>4. call.pre # "no" => call.message.kind = "user"
    BY <1>1 DEF ContentsTyped, Carries, CallType
  <1> HIDE DEF call
  <1>5. prompts' \in [Prompters -> CallType] /\ Carries(prompts')
    BY <1>2, <1>3, <1>4, CallSet DEF ContentsTyped
  <1>6. ContentsTyped'
    BY <1>5, LastDropped DEF ContentsTyped, Paused
  <1>7. retryAttempt' \in 0..MaxRetries
    BY SessionAssumption DEF Paused, Retryable, RetryTyped
  <1> QED
    BY <1>6, <1>7

LEMMA AfterRunTyped ==
    ASSUME ContentsTyped, RetryTyped, NEW p \in Prompters, AfterRun(p)
    PROVE  /\ ContentsTyped' /\ lastAssistantMessage' = NoMessage
           /\ retryAttempt' \in 0..MaxRetries /\ retryOwner' \subseteq Prompters
           /\ overflowRecoveryAttempted' \in BOOLEAN
  <1> DEFINE m == lastAssistantMessage
  <1>1. lastAssistantMessage' = NoMessage /\ m \in MessageType \union {NoMessage}
    BY DEF AfterRun, RetryTyped
  <1>2. messages \in Seq(MessageType) /\ overflowRecoveryAttempted \in BOOLEAN
        /\ retryAttempt \in 0..MaxRetries /\ retryOwner \subseteq Prompters /\ MaxRetries \in Nat
    BY SessionAssumption DEF ContentsTyped, RetryTyped
  <1>3. CASE m = NoMessage /\ Return(p, messages) /\ UNCHANGED retryVars
    <2>1. ContentsTyped'
      BY <1>2, <1>3, ReturnTyped
    <2> QED
      BY <1>1, <1>2, <1>3, <2>1 DEF retryVars
  <1>4. CASE Paused(p, m)
    <2>1. m \in MessageType
      BY <1>1, <1>4 DEF Paused, Retryable, NoMessage
    <2>2. ContentsTyped' /\ retryAttempt' \in 0..MaxRetries
      BY <1>4, <2>1, PausedTyped
    <2> QED
      BY <1>1, <1>2, <1>4, <2>2 DEF Paused
  <1>5. CASE /\ retryAttempt' = IF m.kind \in Errors THEN 0 ELSE retryAttempt
             /\ CheckCompaction(p, m, TRUE)
             /\ UNCHANGED retryOwner
    <2>1. ContentsTyped' /\ overflowRecoveryAttempted' \in BOOLEAN
      BY <1>2, <1>5, CheckCompactionTyped
    <2> QED
      BY <1>1, <1>2, <1>5, <2>1
  <1> QED
    BY <1>3, <1>4, <1>5 DEF AfterRun, Paused

\* Messages that end.
LEMMA WithoutTyped ==
    ASSUME NEW s \in Seq(Nat), NEW ids
    PROVE  Without(s, ids) \in Seq(Nat)
  <1>1. \A i \in DOMAIN s : s[i] \in Nat
    BY LenProperties, ElementOfSeq
  <1> QED
    BY <1>1, SelectedType DEF Without

LEMMA EmitTyped ==
    ASSUME ContentsTyped, MirrorsTyped, NEW ms \in Seq(MessageType), Emit(ms)
    PROVE  /\ messages' \in Seq(MessageType) /\ session' \in Seq(EntryType)
           /\ MirrorsTyped' /\ missed' \in BOOLEAN
  <1>1. messages \o ms \in Seq(MessageType)
    BY ConcatTyped DEF ContentsTyped
  <1>2. session \o ms \in Seq(EntryType)
    BY ConcatTyped, MessagesAreEntries DEF ContentsTyped
  <1>3. \A ids : Without(steeringMessages, ids) \in Seq(Nat)
                 /\ Without(followUpMessages, ids) \in Seq(Nat)
    BY WithoutTyped DEF MirrorsTyped
  <1>4. messages' \in Seq(MessageType) /\ session' \in Seq(EntryType)
    BY <1>1, <1>2 DEF Emit, ContentsTyped
  <1>5. MirrorsTyped'
    BY <1>3 DEF Emit, MirrorsTyped
  <1>6. missed' \in BOOLEAN
    BY DEF Emit
  <1> QED
    BY <1>4, <1>5, <1>6

LEMMA TurnOverTyped ==
    ASSUME LoopTyped, NEW hadCalls, TurnOver(hadCalls), midRunReload \in BOOLEAN,
           UNCHANGED <<activeRun, pollDue>>, activeRun # "none"
    PROVE  LoopTyped' /\ midRunReload' \in BOOLEAN
  <1>1. steeringQueue \in Seq(MessageType) /\ followUpQueue \in Seq(MessageType)
    BY DEF LoopTyped
  <1>2. FirstOf(steeringQueue) \in Seq(MessageType) /\ RestOf(steeringQueue) \in Seq(MessageType)
    BY <1>1, QueueParts
  <1>3. FirstOf(followUpQueue) \in Seq(MessageType) /\ RestOf(followUpQueue) \in Seq(MessageType)
    BY <1>1, QueueParts
  <1> QED
    BY <1>1, <1>2, <1>3 DEF LoopTyped, TurnOver

LEMMA InjectTyped ==
    ASSUME Typed, Inject
    PROVE  Typed'
  <1>1. hands \in Seq(MessageType) /\ steeringQueue \in Seq(MessageType)
    BY DEF Typed, LoopTyped
  <1>2. FirstOf(steeringQueue) \in Seq(MessageType) /\ RestOf(steeringQueue) \in Seq(MessageType)
        /\ <<>> \in Seq(MessageType)
    BY <1>1, QueueParts
  <1>3. /\ messages' \in Seq(MessageType) /\ session' \in Seq(EntryType)
        /\ MirrorsTyped' /\ missed' \in BOOLEAN
    BY <1>1, EmitTyped DEF Inject, Typed
  <1>4. ContentsTyped'
    BY <1>3 DEF Typed, ContentsTyped, Inject
  <1>5. LoopTyped'
    BY <1>1, <1>2 DEF Typed, LoopTyped, Inject
  <1>6. RetryTyped'
    BY DEF Typed, RetryTyped, Inject
  <1>7. RestTyped'
    BY <1>3 DEF Typed, RestTyped, Inject, countVars
  <1> QED
    BY <1>3, <1>4, <1>5, <1>6, <1>7 DEF Typed


LEMMA ReplyTyped ==
    ASSUME Typed, NEW kind \in Replies, Reply(kind)
    PROVE  Typed'
  <1>1. Message(kind) \in MessageType /\ Message("result") \in MessageType
    BY MessageTyped DEF Kinds, Typed, RestTyped
  <1>2. <<Message(kind)>> \in Seq(MessageType) /\ <<Message("result")>> \in Seq(MessageType)
    BY <1>1
  <1>3. /\ messages' \in Seq(MessageType) /\ session' \in Seq(EntryType)
        /\ MirrorsTyped' /\ missed' \in BOOLEAN
    BY <1>2, EmitTyped DEF Reply, Typed
  <1>4. ContentsTyped'
    BY <1>3 DEF Typed, ContentsTyped, Reply
  <1>5. LoopTyped' /\ midRunReload' \in BOOLEAN
    <2>1. activeRun # "none" /\ UNCHANGED <<activeRun, pollDue>> /\ midRunReload \in BOOLEAN
      BY DEF Reply, Typed, LoopTyped, RestTyped
    <2>2. CASE TurnOver(FALSE)
      BY <2>1, <2>2, TurnOverTyped DEF Typed
    <2>3. CASE /\ at' = "tools" /\ hands' = <<Message("result")>>
               /\ UNCHANGED <<steeringQueue, followUpQueue, staleContext, midRunReload>>
      BY <1>2, <2>1, <2>3 DEF Typed, LoopTyped
    <2>4. CASE /\ at' = "end"
               /\ UNCHANGED <<hands, steeringQueue, followUpQueue, staleContext, midRunReload>>
      BY <2>1, <2>4 DEF Typed, LoopTyped
    <2> QED
      BY <2>2, <2>3, <2>4 DEF Reply, Replies
  <1>6. RetryTyped'
    BY <1>1, SessionAssumption DEF Typed, RetryTyped, Reply
  <1>7. RestTyped'
    BY <1>3, <1>5 DEF Typed, RestTyped, Reply
  <1> QED
    BY <1>3, <1>4, <1>5, <1>6, <1>7 DEF Typed


LEMMA ToolsEndTyped ==
    ASSUME Typed, ToolsEnd
    PROVE  Typed'
  <1>1. hands \in Seq(MessageType)
    BY DEF Typed, LoopTyped
  <1>2. /\ messages' \in Seq(MessageType) /\ session' \in Seq(EntryType)
        /\ MirrorsTyped' /\ missed' \in BOOLEAN
    BY <1>1, EmitTyped DEF ToolsEnd, Typed
  <1>3. LoopTyped' /\ midRunReload' \in BOOLEAN
    <2>1. activeRun # "none" /\ UNCHANGED <<activeRun, pollDue>> /\ midRunReload \in BOOLEAN
      BY DEF ToolsEnd, Typed, LoopTyped, RestTyped
    <2> QED
      BY <2>1, TurnOverTyped DEF Typed, ToolsEnd
  <1>4. ContentsTyped'
    BY <1>2 DEF Typed, ContentsTyped, ToolsEnd
  <1>5. RetryTyped'
    BY DEF Typed, RetryTyped, ToolsEnd, retryVars
  <1>6. RestTyped'
    BY <1>2, <1>3 DEF Typed, RestTyped, ToolsEnd, countVars
  <1> QED
    BY <1>2, <1>3, <1>4, <1>5, <1>6 DEF Typed


LEMMA FinishRunTyped ==
    ASSUME Typed, FinishRun
    PROVE  Typed'
  <1>1. PICK p \in Prompters : AfterRun(p)
    BY DEF FinishRun
  <1>2. /\ ContentsTyped' /\ lastAssistantMessage' = NoMessage
        /\ retryAttempt' \in 0..MaxRetries /\ retryOwner' \subseteq Prompters
        /\ overflowRecoveryAttempted' \in BOOLEAN
    BY <1>1, AfterRunTyped DEF Typed
  <1>3. LoopTyped'
    BY DEF Typed, LoopTyped, FinishRun
  <1>4. RetryTyped'
    BY <1>2 DEF Typed, RetryTyped, FinishRun
  <1>5. MirrorsTyped' /\ RestTyped'
    BY DEF Typed, MirrorsTyped, RestTyped, FinishRun, queueVars, countVars
  <1> QED
    BY <1>2, <1>3, <1>4, <1>5 DEF Typed


LEMMA PauseEndsTyped ==
    ASSUME Typed, NEW p \in Prompters, PauseEnds(p)
    PROVE  Typed'
  <1>1. messages \in Seq(MessageType)
    BY DEF Typed, ContentsTyped
  <1>2. /\ ContentsTyped' /\ LoopTyped'
        /\ recoveries' \in Nat /\ sent' \subseteq Nat /\ refused' \in BOOLEAN
    BY <1>1, ContinueTyped DEF Typed, PauseEnds
  <1>3. RetryTyped'
    BY <1>2 DEF Typed, RetryTyped, PauseEnds
  <1>4. MirrorsTyped' /\ RestTyped'
    BY DEF Typed, MirrorsTyped, RestTyped, PauseEnds, queueVars, countVars
  <1> QED
    BY <1>2, <1>3, <1>4 DEF Typed


LEMMA PauseAbortedTyped ==
    ASSUME Typed, NEW p \in Prompters, PauseAborted(p)
    PROVE  Typed'
  <1>1. overflowRecoveryAttempted \in BOOLEAN
    BY DEF Typed, RetryTyped
  <1>2. ContentsTyped' /\ overflowRecoveryAttempted' \in BOOLEAN
    BY <1>1, CheckCompactionTyped DEF Typed, PauseAborted
  <1>3. LoopTyped'
    BY DEF Typed, LoopTyped, PauseAborted, agentVars
  <1>4. RetryTyped'
    BY <1>2, SessionAssumption DEF Typed, RetryTyped, PauseAborted, historyVars
  <1>5. MirrorsTyped' /\ RestTyped'
    BY DEF Typed, MirrorsTyped, RestTyped, PauseAborted, queueVars, countVars, historyVars
  <1> QED
    BY <1>2, <1>3, <1>4, <1>5 DEF Typed


LEMMA CompactedTyped ==
    ASSUME ContentsTyped, events \in Nat, NEW keep \in Nat \ {0}, Compacted(keep)
    PROVE  /\ messages' \in Seq(MessageType) /\ session' \in Seq(EntryType)
           /\ missed' \in BOOLEAN /\ staleContext' \in BOOLEAN
  <1>1. Compaction(keep) \in EntryType
    BY DEF Compaction, EntryType
  <1>2. session' \in Seq(EntryType)
    BY <1>1, AppendProperties DEF Compacted, ContentsTyped
  <1>3. messages' \in Seq(MessageType)
    BY <1>2, ContextType DEF Compacted
  <1> QED
    BY <1>2, <1>3 DEF Compacted

LEMMA SummarizedTyped ==
    ASSUME Typed, NEW p \in Prompters, Summarized(p)
    PROVE  Typed'
  <1> DEFINE call == [prompts[p] EXCEPT !.at = "compacted", !.keep = 0]
  <1>1. prompts[p] \in CallType
    BY Carried DEF Typed
  <1>2. prompts' = [prompts EXCEPT ![p] = call]
    BY DEF Summarized, Typed, ContentsTyped
  <1>3. call \in CallType
    BY <1>1 DEF CallType
  <1>4. call.pre # "no" => call.message.kind = "user"
    BY <1>1 DEF Typed, ContentsTyped, Carries, CallType
  <1> HIDE DEF call
  <1>5. prompts' \in [Prompters -> CallType] /\ Carries(prompts')
    BY <1>2, <1>3, <1>4, CallSet DEF Typed, ContentsTyped
  <1>6. prompts[p].keep \in Nat \ {0} /\ events \in Nat
    BY <1>1 DEF CallType, Summarized, Typed, RestTyped
  <1>7. /\ messages' \in Seq(MessageType) /\ session' \in Seq(EntryType)
        /\ missed' \in BOOLEAN /\ staleContext' \in BOOLEAN
    BY <1>6, CompactedTyped DEF Summarized, Typed
  <1>8. ContentsTyped'
    BY <1>5, <1>7 DEF Typed, ContentsTyped, Summarized
  <1>9. LoopTyped'
    BY <1>7 DEF Typed, LoopTyped, Summarized, agentVars
  <1>10. RetryTyped' /\ MirrorsTyped'
    BY DEF Typed, RetryTyped, MirrorsTyped, Summarized, retryVars, queueVars
  <1>11. RestTyped'
    BY <1>7 DEF Typed, RestTyped, Summarized, countVars
  <1> QED
    BY <1>8, <1>9, <1>10, <1>11 DEF Typed


LEMMA SummaryFailsTyped ==
    ASSUME Typed, NEW p \in Prompters, SummaryFails(p)
    PROVE  Typed'
  <1>1. messages \in Seq(MessageType)
    BY DEF Typed, ContentsTyped
  <1>2. ContentsTyped'
    BY <1>1, ReturnTyped DEF Typed, SummaryFails
  <1>3. LoopTyped' /\ RetryTyped' /\ MirrorsTyped' /\ RestTyped'
    BY DEF Typed, LoopTyped, RetryTyped, MirrorsTyped, RestTyped, SummaryFails, agentVars,
           retryVars, queueVars, countVars, historyVars
  <1> QED
    BY <1>2, <1>3 DEF Typed


LEMMA ResumeTyped ==
    ASSUME Typed, NEW p \in Prompters, Resume(p)
    PROVE  Typed'
  <1>1. messages \in Seq(MessageType) /\ WithoutLastError \in Seq(MessageType)
    BY LastDropped DEF Typed, ContentsTyped
  <1>2. /\ ContentsTyped' /\ LoopTyped'
        /\ recoveries' \in Nat /\ sent' \subseteq Nat /\ refused' \in BOOLEAN
    <2>1. CASE Continue(p, WithoutLastError) \/ Continue(p, messages)
      BY <1>1, <2>1, ContinueTyped DEF Typed
    <2>2. CASE /\ Return(p, messages)
               /\ UNCHANGED <<agentVars, staleContext, recoveries, refused, sent>>
      <3>1. ContentsTyped'
        BY <1>1, <2>2, ReturnTyped DEF Typed
      <3> QED
        BY <2>2, <3>1 DEF Typed, LoopTyped, RetryTyped, agentVars
    <2> QED
      BY <2>1, <2>2 DEF Resume
  <1>3. RetryTyped'
    BY <1>2 DEF Typed, RetryTyped, Resume, retryVars
  <1>4. MirrorsTyped' /\ RestTyped'
    BY DEF Typed, MirrorsTyped, RestTyped, Resume, queueVars, countVars
  <1> QED
    BY <1>2, <1>3, <1>4 DEF Typed


LEMMA PreflightTyped ==
    ASSUME Typed, NEW p \in Prompters, Preflight(p)
    PROVE  Typed'
  <1>1. messages \in Seq(MessageType) /\ overflowRecoveryAttempted \in BOOLEAN
    BY DEF Typed, ContentsTyped, RetryTyped
  <1>2. ContentsTyped' /\ overflowRecoveryAttempted' \in BOOLEAN
    <2>1. CASE Return(p, messages) /\ UNCHANGED overflowRecoveryAttempted
      BY <1>1, <2>1, ReturnTyped DEF Typed
    <2>2. CASE CheckCompaction(p, prompts[p].last, FALSE)
      BY <1>1, <2>2, CheckCompactionTyped DEF Typed
    <2> QED
      BY <2>1, <2>2 DEF Preflight
  <1>3. LoopTyped'
    BY DEF Typed, LoopTyped, Preflight, agentVars
  <1>4. RetryTyped'
    BY <1>2 DEF Typed, RetryTyped, Preflight, historyVars
  <1>5. MirrorsTyped' /\ RestTyped'
    BY DEF Typed, MirrorsTyped, RestTyped, Preflight, queueVars, countVars, historyVars
  <1> QED
    BY <1>2, <1>3, <1>4, <1>5 DEF Typed


LEMMA SubmitTyped ==
    ASSUME Typed, NEW p \in Prompters, Submit(p)
    PROVE  Typed'
  <1>1. messages \in Seq(MessageType) /\ prompts[p].hands \in Seq(MessageType)
    BY Carried DEF Typed, ContentsTyped, CallType
  <1>2. ContentsTyped' /\ LoopTyped' /\ sent' \subseteq Nat
    <2>1. CASE activeRun = "none"
      <3>1. /\ StartRun(p, prompts[p].hands, TRUE)
            /\ UNCHANGED <<messages, session, pendingBashMessages, pendingNextTurnMessages, sent>>
            /\ UNCHANGED <<steeringQueue, followUpQueue>>
        BY <2>1 DEF Submit
      <3>2. /\ prompts' \in [Prompters -> CallType] /\ Carries(prompts')
            /\ activeRun' = "live" /\ at' = "inject" /\ hands' \in Seq(MessageType)
            /\ pollDue' \in BOOLEAN /\ staleContext' \in BOOLEAN
        BY <1>1, <3>1, StartRunTyped DEF Typed
      <3> QED
        BY <3>1, <3>2 DEF Typed, ContentsTyped, LoopTyped, RetryTyped
    <2>2. CASE activeRun # "none"
      <3>1. Reject(p, messages) /\ UNCHANGED <<activeRun, at, hands, pollDue, staleContext>>
            /\ UNCHANGED <<steeringQueue, followUpQueue>>
        BY <2>2 DEF Submit
      <3>2. ContentsTyped' /\ sent' \subseteq Nat
        BY <1>1, <3>1, RejectTyped DEF Typed
      <3> QED
        BY <3>1, <3>2 DEF Typed, LoopTyped
    <2> QED
      BY <2>1, <2>2
  <1>3. RetryTyped'
    BY <1>2 DEF Typed, RetryTyped, Submit, retryVars
  <1>4. MirrorsTyped' /\ RestTyped'
    BY DEF Typed, MirrorsTyped, RestTyped, Submit, queueVars, countVars
  <1> QED
    BY <1>2, <1>3, <1>4 DEF Typed


LEMMA CallCounted ==
    ASSUME RestTyped, NEW c \in Calls, ClientCall(c)
    PROVE  /\ events' = events + 1 /\ events' \in Nat /\ made' \in [Calls -> Nat]
           /\ made'[c] = made[c] + 1 /\ \A d \in Calls \ {c} : made'[d] = made[d]
  BY DEF RestTyped, ClientCall

LEMMA PromptTyped ==
    ASSUME Typed, NEW p \in Prompters, Prompt(p)
    PROVE  Typed'
  <1> DEFINE shown == messages \o pendingBashMessages
             last == IF Holds(shown, Replies) THEN shown[Max(IndicesOf(shown, Replies))]
                     ELSE NoMessage
             call == [Idle EXCEPT !.at = "checks", !.pre = "check",
                                  !.message = Message("user"), !.last = last]
  <1>1. ClientCall("prompt") /\ FlushBash(messages) /\ prompts' = [prompts EXCEPT ![p] = call]
        /\ sent' = sent \union {events + 1} /\ overlapped' \in BOOLEAN
    BY DEF Prompt
  <1>2. events' \in Nat /\ made' \in [Calls -> Nat] /\ events \in Nat
    BY <1>1, CallCounted DEF Calls, Typed, RestTyped
  <1>3. shown \in Seq(MessageType)
    BY ConcatTyped DEF Typed, ContentsTyped
  <1> HIDE DEF shown
  <1>4. last \in MessageType \union {NoMessage}
    <2>1. CASE Holds(shown, Replies)
      <3>1. Len(shown) \in Nat /\ DOMAIN shown = 1..Len(shown)
        BY <1>3, LenProperties
      <3>2. Max(IndicesOf(shown, Replies)) \in IndicesOf(shown, Replies)
        BY <2>1, <3>1, GreatestAndLeast DEF Holds, IndicesOf
      <3>3. shown[Max(IndicesOf(shown, Replies))] \in MessageType
        BY <1>3, <3>1, <3>2, ElementOfSeq DEF IndicesOf
      <3> QED
        BY <2>1, <3>3
    <2>2. CASE ~Holds(shown, Replies)
      BY <2>2
    <2> QED
      BY <2>1, <2>2
  <1>5. Message("user") \in MessageType /\ Message("user").kind = "user"
    BY <1>2, MessageTyped DEF Kinds, Message
  <1> HIDE DEF last
  <1>6. call \in CallType /\ call.message.kind = "user"
    BY <1>4, <1>5, IdleTyped DEF CallType
  <1> HIDE DEF call
  <1>7. prompts' \in [Prompters -> CallType] /\ Carries(prompts')
    BY <1>1, <1>6, CallSet DEF Typed, ContentsTyped
  <1>8. /\ messages' \in Seq(MessageType) /\ session' \in Seq(EntryType)
        /\ pendingBashMessages' \in Seq(MessageType)
    <2>1. messages \in Seq(MessageType)
      BY DEF Typed, ContentsTyped
    <2> QED
      BY <1>1, <2>1, FlushTyped DEF Typed
  <1>9. ContentsTyped'
    BY <1>7, <1>8 DEF Typed, ContentsTyped, Prompt
  <1>10. LoopTyped'
    BY DEF Typed, LoopTyped, Prompt, agentVars
  <1>11. RetryTyped'
    BY <1>1, <1>2 DEF Typed, RetryTyped, Prompt, retryVars
  <1>12. MirrorsTyped' /\ RestTyped'
    BY <1>1, <1>2 DEF Typed, MirrorsTyped, RestTyped, Prompt, queueVars
  <1> QED
    BY <1>9, <1>10, <1>11, <1>12 DEF Typed


LEMMA AbortRetryTyped ==
    ASSUME ContentsTyped, AbortRetry
    PROVE  prompts' \in [Prompters -> CallType] /\ Carries(prompts')
  <1>1. \A q \in Prompters : prompts'[q] \in CallType /\ prompts'[q].pre = prompts[q].pre
                             /\ prompts'[q].message = prompts[q].message
    <2> TAKE q \in Prompters
    <2>1. prompts[q] \in CallType
      BY Carried
    <2> QED
      BY <2>1 DEF AbortRetry, CallType
  <1>2. prompts' = [q \in Prompters |-> prompts'[q]]
    BY DEF AbortRetry
  <1>3. prompts' \in [Prompters -> CallType]
    BY <1>1, <1>2
  <1> QED
    BY <1>1, <1>3 DEF ContentsTyped, Carries

LEMMA CompactTyped ==
    ASSUME Typed, Compact
    PROVE  Typed'
  <1>1. AbortRetry /\ ClientCall("compact")
    BY DEF Compact, AbortRun
  <1>2. prompts' \in [Prompters -> CallType] /\ Carries(prompts')
    BY <1>1, AbortRetryTyped DEF Typed
  <1>3. events' \in Nat /\ made' \in [Calls -> Nat]
    BY <1>1, CallCounted DEF Calls, Typed
  <1>4. overlapped' \in BOOLEAN
        /\ manual' \in [at : {"idle", "waiting", "ready", "summary", "saved"},
                        midRun : BOOLEAN, awaited : BOOLEAN, keep : Nat]
    <2>1. PICK byTool \in {FALSE, at = "tools"} :
              /\ overlapped' = (overlapped \/ UnderWay \/ (MidRun /\ ~byTool))
              /\ manual' = [NotCompacting EXCEPT
                     !.at = IF MidRun \/ activeRun = "none" THEN "ready" ELSE "waiting",
                     !.midRun = MidRun, !.awaited = byTool]
      BY DEF Compact
    <2>2. byTool \in BOOLEAN /\ MidRun \in BOOLEAN
      BY DEF MidRun
    <2> QED
      BY <2>1, <2>2 DEF NotCompacting
  <1>5. ContentsTyped'
    BY <1>2 DEF Typed, ContentsTyped, Compact
  <1>6. LoopTyped'
    BY DEF Typed, LoopTyped, Compact, AbortRun
  <1>7. RetryTyped' /\ MirrorsTyped'
    BY DEF Typed, RetryTyped, MirrorsTyped, Compact, retryVars, queueVars
  <1>8. RestTyped'
    BY <1>3, <1>4 DEF Typed, RestTyped, Compact
  <1> QED
    BY <1>5, <1>6, <1>7, <1>8 DEF Typed


LEMMA CompactReadsTyped ==
    ASSUME Typed, CompactReads
    PROVE  Typed'
  <1>1. \A keep \in Cuts : keep \in Nat
    BY CutsType DEF Typed, ContentsTyped
  <1>2. RestTyped'
    BY <1>1 DEF Typed, RestTyped, CompactReads, countVars, historyVars
  <1>3. ContentsTyped' /\ LoopTyped' /\ RetryTyped' /\ MirrorsTyped'
    BY DEF Typed, ContentsTyped, LoopTyped, RetryTyped, MirrorsTyped, CompactReads, agentVars,
           retryVars, queueVars, historyVars
  <1> QED
    BY <1>2, <1>3 DEF Typed


LEMMA CompactSavesTyped ==
    ASSUME Typed, CompactSaves
    PROVE  Typed'
  <1>1. manual.keep \in Nat \ {0} /\ events \in Nat
    BY DEF Typed, RestTyped, CompactSaves
  <1>2. /\ messages' \in Seq(MessageType) /\ session' \in Seq(EntryType)
        /\ missed' \in BOOLEAN /\ staleContext' \in BOOLEAN
    BY <1>1, CompactedTyped DEF Typed, CompactSaves
  <1>3. ContentsTyped'
    BY <1>2 DEF Typed, ContentsTyped, CompactSaves
  <1>4. LoopTyped'
    BY <1>2 DEF Typed, LoopTyped, CompactSaves, agentVars
  <1>5. RetryTyped' /\ MirrorsTyped'
    BY DEF Typed, RetryTyped, MirrorsTyped, CompactSaves, retryVars, queueVars
  <1>6. RestTyped'
    BY <1>2 DEF Typed, RestTyped, CompactSaves, countVars
  <1> QED
    BY <1>3, <1>4, <1>5, <1>6 DEF Typed


LEMMA CompactEndsTyped ==
    ASSUME Typed, CompactEnds
    PROVE  Typed'
  <1>1. RestTyped'
    BY DEF Typed, RestTyped, CompactEnds, NotCompacting, countVars, historyVars
  <1>2. ContentsTyped' /\ LoopTyped' /\ RetryTyped' /\ MirrorsTyped'
    BY DEF Typed, ContentsTyped, LoopTyped, RetryTyped, MirrorsTyped, CompactEnds, agentVars,
           retryVars, queueVars, historyVars
  <1> QED
    BY <1>1, <1>2 DEF Typed


LEMMA AbortTyped ==
    ASSUME Typed, Abort
    PROVE  Typed'
  <1>1. AbortRetry /\ ClientCall("abort")
    BY DEF Abort, AbortRun
  <1>2. prompts' \in [Prompters -> CallType] /\ Carries(prompts')
    BY <1>1, AbortRetryTyped DEF Typed
  <1>3. events' \in Nat /\ made' \in [Calls -> Nat]
    BY <1>1, CallCounted DEF Calls, Typed
  <1>4. ContentsTyped'
    BY <1>2 DEF Typed, ContentsTyped, Abort
  <1>5. LoopTyped'
    BY DEF Typed, LoopTyped, Abort, AbortRun
  <1>6. RetryTyped' /\ MirrorsTyped' /\ RestTyped'
    BY <1>3 DEF Typed, RetryTyped, MirrorsTyped, RestTyped, Abort, retryVars, queueVars,
                historyVars
  <1> QED
    BY <1>4, <1>5, <1>6 DEF Typed


LEMMA SteerTyped ==
    ASSUME Typed, Steer
    PROVE  Typed'
  <1>1. events' \in Nat /\ made' \in [Calls -> Nat] /\ events \in Nat /\ events + 1 \in Nat
    BY CallCounted DEF Calls, Typed, RestTyped, Steer
  <1>2. Message("user") \in MessageType
    BY <1>1, MessageTyped DEF Kinds
  <1>3. Append(steeringQueue, Message("user")) \in Seq(MessageType)
    BY <1>2, AppendProperties DEF Typed, LoopTyped
  <1>4. Append(steeringMessages, events + 1) \in Seq(Nat)
    BY <1>1, AppendProperties DEF Typed, MirrorsTyped
  <1>5. ContentsTyped' /\ LoopTyped'
    BY <1>3 DEF Typed, ContentsTyped, LoopTyped, Steer
  <1>6. MirrorsTyped'
    BY <1>4 DEF Typed, MirrorsTyped, Steer
  <1>7. RetryTyped' /\ RestTyped'
    BY <1>1 DEF Typed, RetryTyped, RestTyped, Steer, retryVars
  <1> QED
    BY <1>5, <1>6, <1>7 DEF Typed


LEMMA FollowUpTyped ==
    ASSUME Typed, FollowUp
    PROVE  Typed'
  <1>1. events' \in Nat /\ made' \in [Calls -> Nat] /\ events \in Nat /\ events + 1 \in Nat
    BY CallCounted DEF Calls, Typed, RestTyped, FollowUp
  <1>2. Message("user") \in MessageType
    BY <1>1, MessageTyped DEF Kinds
  <1>3. Append(followUpQueue, Message("user")) \in Seq(MessageType)
    BY <1>2, AppendProperties DEF Typed, LoopTyped
  <1>4. Append(followUpMessages, events + 1) \in Seq(Nat)
    BY <1>1, AppendProperties DEF Typed, MirrorsTyped
  <1>5. ContentsTyped' /\ LoopTyped'
    BY <1>3 DEF Typed, ContentsTyped, LoopTyped, FollowUp
  <1>6. MirrorsTyped'
    BY <1>4 DEF Typed, MirrorsTyped, FollowUp
  <1>7. RetryTyped' /\ RestTyped'
    BY <1>1 DEF Typed, RetryTyped, RestTyped, FollowUp, retryVars
  <1> QED
    BY <1>5, <1>6, <1>7 DEF Typed


LEMMA QueueCustomTyped ==
    ASSUME Typed, QueueCustom
    PROVE  Typed'
  <1>1. events' \in Nat /\ made' \in [Calls -> Nat] /\ events \in Nat /\ events + 1 \in Nat
    BY CallCounted DEF Calls, Typed, RestTyped, QueueCustom
  <1>2. Message("custom") \in MessageType
    BY <1>1, MessageTyped DEF Kinds
  <1>3. Append(steeringQueue, Message("custom")) \in Seq(MessageType)
        /\ Append(followUpQueue, Message("custom")) \in Seq(MessageType)
    BY <1>2, AppendProperties DEF Typed, LoopTyped
  <1>4. ContentsTyped' /\ LoopTyped' /\ MirrorsTyped'
    BY <1>3 DEF Typed, ContentsTyped, LoopTyped, MirrorsTyped, QueueCustom, queueVars
  <1>5. RetryTyped' /\ RestTyped'
    BY <1>1 DEF Typed, RetryTyped, RestTyped, QueueCustom, retryVars
  <1> QED
    BY <1>4, <1>5 DEF Typed


LEMMA NextTurnTyped ==
    ASSUME Typed, NextTurn
    PROVE  Typed'
  <1>1. events' \in Nat /\ made' \in [Calls -> Nat] /\ events \in Nat /\ events + 1 \in Nat
    BY CallCounted DEF Calls, Typed, RestTyped, NextTurn
  <1>2. Message("custom") \in MessageType
    BY <1>1, MessageTyped DEF Kinds
  <1>3. Append(pendingNextTurnMessages, Message("custom")) \in Seq(MessageType)
    BY <1>2, AppendProperties DEF Typed, ContentsTyped
  <1>5. ContentsTyped' /\ LoopTyped'
    BY <1>3 DEF Typed, ContentsTyped, LoopTyped, NextTurn, agentVars
  <1>6. MirrorsTyped'
    BY DEF Typed, MirrorsTyped, NextTurn, queueVars
  <1>7. RetryTyped' /\ RestTyped'
    BY <1>1 DEF Typed, RetryTyped, RestTyped, NextTurn, retryVars
  <1> QED
    BY <1>5, <1>6, <1>7 DEF Typed


LEMMA ClearQueueTyped ==
    ASSUME Typed, ClearQueue
    PROVE  Typed'
  <1>1. events' \in Nat /\ made' \in [Calls -> Nat]
    BY CallCounted DEF Calls, Typed, ClearQueue
  <1>2. <<>> \in Seq(MessageType) /\ <<>> \in Seq(Nat)
    OBVIOUS
  <1>3. ContentsTyped' /\ LoopTyped' /\ MirrorsTyped'
    BY <1>2 DEF Typed, ContentsTyped, LoopTyped, MirrorsTyped, ClearQueue
  <1>4. RetryTyped'
    BY DEF Typed, RetryTyped, ClearQueue, retryVars
  <1>5. RestTyped'
    BY <1>1 DEF Typed, RestTyped, ClearQueue
  <1> QED
    BY <1>3, <1>4, <1>5 DEF Typed


LEMMA RecordBashTyped ==
    ASSUME Typed, RecordBash
    PROVE  Typed'
  <1>1. events' \in Nat /\ made' \in [Calls -> Nat] /\ events \in Nat
    BY CallCounted DEF Calls, Typed, RestTyped, RecordBash
  <1>2. Message("bash") \in MessageType /\ Message("bash") \in EntryType
    BY <1>1, MessageTyped, MessagesAreEntries DEF Kinds
  <1>3. /\ Append(pendingBashMessages, Message("bash")) \in Seq(MessageType)
        /\ Append(messages, Message("bash")) \in Seq(MessageType)
        /\ Append(session, Message("bash")) \in Seq(EntryType)
    BY <1>2, AppendProperties DEF Typed, ContentsTyped
  <1>4. ContentsTyped'
    BY <1>3 DEF Typed, ContentsTyped, RecordBash
  <1>5. LoopTyped' /\ MirrorsTyped'
    BY DEF Typed, LoopTyped, MirrorsTyped, RecordBash, agentVars, queueVars
  <1>6. RetryTyped' /\ RestTyped'
    BY <1>1 DEF Typed, RetryTyped, RestTyped, RecordBash, retryVars, historyVars
  <1> QED
    BY <1>4, <1>5, <1>6 DEF Typed


LEMMA StutterTyped ==
    ASSUME Typed, UNCHANGED vars
    PROVE  Typed'
  <1>1. ContentsTyped' /\ LoopTyped'
    BY DEF Typed, ContentsTyped, LoopTyped, vars, agentVars, bashVars
  <1>2. RetryTyped' /\ MirrorsTyped' /\ RestTyped'
    BY DEF Typed, RetryTyped, MirrorsTyped, RestTyped, vars, retryVars, queueVars, countVars,
           historyVars
  <1> QED
    BY <1>1, <1>2 DEF Typed


LEMMA StepTyped ==
    ASSUME Typed, Next
    PROVE  Typed'
  <1>1. CASE RunStep
    BY <1>1, InjectTyped, ReplyTyped, ToolsEndTyped, FinishRunTyped DEF RunStep
  <1>2. ASSUME NEW p \in Prompters, PromptStep(p)
        PROVE  Typed'
    BY <1>2, PreflightTyped, SubmitTyped, PauseEndsTyped, PauseAbortedTyped, SummarizedTyped,
       SummaryFailsTyped, ResumeTyped DEF PromptStep
  <1>3. CASE CompactStep
    BY <1>3, CompactReadsTyped, CompactSavesTyped, CompactEndsTyped DEF CompactStep
  <1>4. CASE ClientStep
    BY <1>4, CompactTyped, AbortTyped, SteerTyped, FollowUpTyped, QueueCustomTyped, NextTurnTyped,
       ClearQueueTyped, RecordBashTyped, PromptTyped DEF ClientStep
  <1> QED
    BY <1>1, <1>2, <1>3, <1>4 DEF Next, InternalStep


LEMMA InitTyped ==
    ASSUME Init
    PROVE  Typed
  <1>1. <<>> \in Seq(MessageType) /\ <<>> \in Seq(EntryType) /\ <<>> \in Seq(Nat)
    OBVIOUS
  <1>2. ContentsTyped
    BY <1>1, IdleTyped DEF Init, ContentsTyped, Carries
  <1>3. LoopTyped /\ MirrorsTyped
    BY <1>1 DEF Init, LoopTyped, MirrorsTyped
  <1>4. RetryTyped
    <2>1. 0 \in 0..MaxRetries
      BY SessionAssumption
    <2> QED
      BY <2>1 DEF Init, RetryTyped
  <1>5. RestTyped
    BY DEF Init, RestTyped, NotCompacting
  <1> QED
    BY <1>2, <1>3, <1>4, <1>5 DEF Typed

\* Every variable keeps its type, for every number of callers and every bound; a
\* call that has not sent its message yet carries it.
THEOREM TypeInvariant == Spec => []Typed
  <1>1. Init => Typed
    BY InitTyped
  <1>2. Typed /\ [Next]_vars => Typed'
    BY StepTyped, StutterTyped
  <1> QED
    BY <1>1, <1>2, PTL DEF Spec

\* Every variable keeps its type.
THEOREM TypeCorrect == Spec => []TypeOK
  <1>1. Typed => TypeOK
    BY TypedIsTypeOK
  <1> QED
    BY <1>1, TypeInvariant, PTL

-----------------------------------------------------------------------------
\* Where the calls are.

ShapeOf(call) ==
    /\ call.at = "idle" => call = Idle
    /\ call.at # "hook" => call.hands = <<>>
    /\ call.at = "hook" => call.pre = "no"
    /\ call.pre = "no" => call.message = NoMessage
    /\ call.at = "run" => call.pre # "check"
    /\ call.at = "checks" => call.pre = "check"
    /\ call.retry => call.at \in {"compact", "compacted"}
    /\ call.at \in {"retry", "cancelled"} => call.last.kind = "error"
Shapes == \A p \in Prompters : ShapeOf(prompts[p])

\* One call at most is checked for a compaction, one at most has the run.
OneAt(place) ==
    \A p, q \in Prompters : prompts[p].at = place /\ prompts[q].at = place => p = q
RunOwned == activeRun # "none" <=> \E p \in Prompters : prompts[p].at = "run"

ManualShape ==
    /\ manual.at = "idle" => manual = NotCompacting /\ connected
    /\ made["compact"] = 0 => manual.at = "idle" /\ connected /\ ~missed

\* While no operation overlaps another, one call is under way and a compact()
\* runs beside none, or in the tools of its run.
Alone ==
    ~overlapped =>
        /\ \A p, q \in Prompters : prompts[p].at # "idle" /\ prompts[q].at # "idle" => p = q
        /\ manual.at # "idle" => \A p \in Prompters : prompts[p].at \in {"idle", "run"}
        /\ manual.at \in {"ready", "summary", "saved"} /\ activeRun # "none"
               => at = "tools" /\ manual.awaited /\ manual.midRun

Controlled ==
    Typed /\ Shapes /\ OneAt("checks") /\ OneAt("run") /\ RunOwned /\ ManualShape /\ Alone

\* Call p goes to one of some places, and the others stay where they are.
Moves(p, places) ==
    /\ prompts'[p].at \in places /\ ShapeOf(prompts'[p])
    /\ \A q \in Prompters \ {p} : prompts'[q] = prompts[q]

LEMMA MovesTo ==
    ASSUME Typed, NEW p \in Prompters, NEW call \in CallType, ShapeOf(call), NEW places,
           call.at \in places, prompts' = [prompts EXCEPT ![p] = call]
    PROVE  Moves(p, places)
  BY DEF Moves, Typed, ContentsTyped

LEMMA IdleShape == ShapeOf(Idle) /\ Idle \in CallType /\ Idle.at = "idle"
  BY IdleTyped DEF ShapeOf, Idle

LEMMA TakeMoves ==
    ASSUME Typed, NEW p \in Prompters, prompts[p].pre # "no", TakeMessages(p)
    PROVE  Moves(p, {"hook"})
  <1> DEFINE taken == <<prompts[p].message>> \o pendingNextTurnMessages
             call == [Idle EXCEPT !.at = "hook", !.hands = taken]
  <1>1. <<prompts[p].message>> \in Seq(MessageType)
    BY Carried DEF Typed
  <1>2. taken \in Seq(MessageType)
    BY <1>1, ConcatTyped DEF Typed, ContentsTyped
  <1>3. prompts' = [prompts EXCEPT ![p] = call]
    BY DEF TakeMessages
  <1> HIDE DEF taken
  <1>4. call \in CallType /\ ShapeOf(call) /\ call.at \in {"hook"}
    BY <1>2, IdleTyped DEF CallType, ShapeOf, Idle
  <1> HIDE DEF call
  <1> QED
    BY <1>3, <1>4, MovesTo

LEMMA ReturnMoves ==
    ASSUME Typed, NEW p \in Prompters, NEW transcript, Return(p, transcript)
    PROVE  Moves(p, {"idle", "hook"})
  <1>1. CASE prompts[p].pre = "no"
    <2>1. prompts' = [prompts EXCEPT ![p] = Idle]
      BY <1>1 DEF Return
    <2> QED
      BY <2>1, IdleShape, MovesTo
  <1>2. CASE prompts[p].pre # "no"
    <2>1. TakeMessages(p)
      BY <1>2 DEF Return
    <2> QED
      BY <1>2, <2>1, TakeMoves DEF Moves
  <1> QED
    BY <1>1, <1>2

LEMMA RejectMoves ==
    ASSUME Typed, NEW p \in Prompters, NEW transcript, Reject(p, transcript)
    PROVE  Moves(p, {"idle"})
  <1>1. prompts' = [prompts EXCEPT ![p] = Idle]
    BY DEF Reject
  <1> QED
    BY <1>1, IdleShape, MovesTo

LEMMA StartRunMoves ==
    ASSUME Typed, Shapes, NEW p \in Prompters, NEW first, NEW poll, StartRun(p, first, poll)
    PROVE  Moves(p, {"run"}) /\ activeRun' = "live" /\ at' = "inject"
  <1> DEFINE pre == IF prompts[p].pre = "check" THEN "loop" ELSE prompts[p].pre
             call == [Idle EXCEPT !.at = "run", !.message = prompts[p].message, !.pre = pre]
  <1>1. prompts' = [prompts EXCEPT ![p] = call] /\ activeRun' = "live" /\ at' = "inject"
    BY DEF StartRun
  <1>2. prompts[p] \in CallType /\ ShapeOf(prompts[p])
    BY Carried DEF Typed, Shapes
  <1>3. call \in CallType
    BY <1>2, IdleTyped DEF CallType
  <1>4. ShapeOf(call) /\ call.at \in {"run"}
    BY <1>2 DEF ShapeOf, Idle, CallType
  <1> HIDE DEF call
  <1> QED
    BY <1>1, <1>3, <1>4, MovesTo

LEMMA ContinueMoves ==
    ASSUME Typed, Shapes, NEW p \in Prompters, NEW transcript, Continue(p, transcript)
    PROVE  \/ Moves(p, {"idle"}) /\ UNCHANGED <<activeRun, at>>
           \/ Moves(p, {"run"}) /\ activeRun = "none" /\ activeRun' = "live" /\ at' = "inject"
  <1>1. CASE Refused(p, transcript)
    BY <1>1, RejectMoves DEF Refused, agentVars
  <1>2. CASE ContinuedWithNothing(p, transcript)
    BY <1>2, StartRunMoves DEF ContinuedWithNothing, Continued
  <1>3. CASE ContinuedWithSteering(p, transcript)
    BY <1>3, StartRunMoves DEF ContinuedWithSteering, Continued
  <1>4. CASE ContinuedWithFollowUp(p, transcript)
    BY <1>4, StartRunMoves DEF ContinuedWithFollowUp, Continued
  <1> QED
    BY <1>1, <1>2, <1>3, <1>4, ContinueCases DEF Typed

LEMMA StartSummaryMoves ==
    ASSUME Typed, Shapes, NEW p \in Prompters, NEW retry \in BOOLEAN, StartSummary(p, retry),
           prompts[p].at \notin {"idle", "hook"}
    PROVE  Moves(p, {"compact"}) /\ prompts'[p].retry = retry
  <1>1. PICK keep \in Cuts :
            prompts' = [prompts EXCEPT ![p].at = "compact", ![p].retry = retry,
                                       ![p].keep = keep, ![p].last = NoMessage]
    BY DEF StartSummary
  <1> DEFINE call == [prompts[p] EXCEPT !.at = "compact", !.retry = retry, !.keep = keep,
                                        !.last = NoMessage]
  <1>2. prompts[p] \in CallType /\ ShapeOf(prompts[p])
    BY Carried DEF Typed, Shapes
  <1>3. prompts' = [prompts EXCEPT ![p] = call]
    BY <1>1 DEF Typed, ContentsTyped
  <1>4. keep \in Nat
    BY <1>1, CutsType DEF Typed, ContentsTyped
  <1>5. call \in CallType
    BY <1>2, <1>4 DEF CallType
  <1>6. ShapeOf(call) /\ call.at \in {"compact"} /\ call.retry = retry
    BY <1>2 DEF ShapeOf, CallType
  <1> HIDE DEF call
  <1>7. prompts'[p] = call
    BY <1>3 DEF Typed, ContentsTyped
  <1> QED
    BY <1>3, <1>5, <1>6, <1>7, MovesTo

LEMMA CheckCompactionMoves ==
    ASSUME Typed, Shapes, NEW p \in Prompters, NEW m, NEW skipAborted,
           CheckCompaction(p, m, skipAborted), prompts[p].at \notin {"idle", "hook"}
    PROVE  Moves(p, {"idle", "hook", "compact"})
  <1>1. CASE Return(p, messages)
    BY <1>1, ReturnMoves DEF Moves
  <1>2. CASE StartSummary(p, TRUE) \/ StartSummary(p, FALSE)
    BY <1>2, StartSummaryMoves DEF Moves
  <1> QED
    BY <1>1, <1>2 DEF CheckCompaction

LEMMA AfterRunMoves ==
    ASSUME Typed, Shapes, NEW p \in Prompters, AfterRun(p), prompts[p].at = "run"
    PROVE  Moves(p, {"idle", "hook", "compact", "retry"})
  <1> DEFINE m == lastAssistantMessage
  <1>1. CASE Return(p, messages)
    BY <1>1, ReturnMoves DEF Moves
  <1>2. CASE Paused(p, m)
    <2> DEFINE call == [prompts[p] EXCEPT !.at = "retry", !.last = m]
    <2>1. prompts[p] \in CallType /\ ShapeOf(prompts[p])
      BY Carried DEF Typed, Shapes
    <2>2. prompts' = [prompts EXCEPT ![p] = call] /\ m.kind = "error"
      BY <1>2 DEF Paused, Retryable, Typed, ContentsTyped
    <2>3. call \in CallType
      BY <2>1 DEF CallType, Typed, RetryTyped
    <2>4. ShapeOf(call) /\ call.at \in {"retry"}
      BY <2>1, <2>2 DEF ShapeOf, CallType
    <2> HIDE DEF call
    <2> QED
      BY <2>2, <2>3, <2>4, MovesTo DEF Moves
  <1>3. CASE CheckCompaction(p, m, TRUE)
    BY <1>3, CheckCompactionMoves DEF Moves
  <1> QED
    BY <1>1, <1>2, <1>3 DEF AfterRun, Paused

LEMMA AbortRetryMoves ==
    ASSUME Typed, Shapes, AbortRetry
    PROVE  \A q \in Prompters :
               /\ ShapeOf(prompts'[q])
               /\ \/ prompts'[q] = prompts[q]
                  \/ prompts[q].at = "retry" /\ prompts'[q] = [prompts[q] EXCEPT !.at = "cancelled"]
  <1> TAKE q \in Prompters
  <1>1. prompts[q] \in CallType /\ ShapeOf(prompts[q])
    BY Carried DEF Typed, Shapes
  <1>2. CASE q \in retryOwner /\ prompts[q].at = "retry"
    <2>1. prompts'[q] = [prompts[q] EXCEPT !.at = "cancelled"]
      BY <1>2 DEF AbortRetry
    <2> QED
      BY <1>1, <1>2, <2>1 DEF ShapeOf, CallType
  <1>3. CASE ~(q \in retryOwner /\ prompts[q].at = "retry")
    <2>1. prompts'[q] = prompts[q]
      BY <1>3 DEF AbortRetry
    <2> QED
      BY <1>1, <2>1
  <1> QED
    BY <1>2, <1>3

-----------------------------------------------------------------------------
\* One call at most is under way, unless operations overlap.

\* A step of the calls that moves one of them, not to or from a run of its own.
LEMMA MoveControlled ==
    ASSUME Controlled, Typed', NEW p \in Prompters, NEW places, Moves(p, places),
           prompts[p].at \notin {"idle", "run"}, places \intersect {"checks", "run"} = {},
           UNCHANGED <<activeRun, at, manual, connected, overlapped>>, UNCHANGED made,
           missed' = missed
    PROVE  Controlled'
  <1>1. Shapes' /\ prompts'[p].at \notin {"checks", "run"}
    BY DEF Controlled, Shapes, Moves
  <1>2. \A q \in Prompters : prompts'[q].at # "idle" => prompts[q].at # "idle"
    BY DEF Moves
  <1>3. \A q \in Prompters : prompts'[q].at \in {"checks", "run"} => prompts'[q] = prompts[q]
    BY <1>1 DEF Moves
  <1>4. \A q \in Prompters : prompts[q].at = "run" => prompts'[q] = prompts[q]
    BY DEF Moves
  <1>5. OneAt("checks")' /\ OneAt("run")'
    BY <1>3 DEF Controlled, OneAt
  <1>6. RunOwned'
    BY <1>3, <1>4 DEF Controlled, RunOwned
  <1>7. ManualShape'
    BY DEF Controlled, ManualShape
  <1>8. Alone'
    BY <1>2 DEF Controlled, Alone, Moves
  <1> QED
    BY <1>1, <1>5, <1>6, <1>7, <1>8 DEF Controlled

\* A step that starts a run.
LEMMA StartControlled ==
    ASSUME Controlled, Typed', NEW p \in Prompters, Moves(p, {"run"}),
           prompts[p].at \notin {"idle", "run"}, activeRun = "none", activeRun' # "none",
           UNCHANGED <<manual, connected, overlapped>>, UNCHANGED made, missed' = missed
    PROVE  Controlled'
  <1>1. Shapes' /\ prompts'[p].at = "run"
    BY DEF Controlled, Shapes, Moves
  <1>2. \A q \in Prompters : prompts'[q].at # "idle" => prompts[q].at # "idle"
    BY DEF Moves
  <1>3. \A q \in Prompters \ {p} : prompts'[q] = prompts[q] /\ prompts[q].at # "run"
    BY DEF Moves, Controlled, RunOwned
  <1>4. OneAt("checks")' /\ OneAt("run")'
    BY <1>1, <1>3 DEF Controlled, OneAt
  <1>5. RunOwned'
    BY <1>1 DEF RunOwned
  <1>6. ManualShape'
    BY DEF Controlled, ManualShape
  <1>7. Alone'
    BY <1>2 DEF Controlled, Alone
  <1> QED
    BY <1>1, <1>4, <1>5, <1>6, <1>7 DEF Controlled

\* A step of the loop.
LEMMA LoopControlled ==
    ASSUME Controlled, Typed', at # "tools" \/ ~manual.awaited,
           UNCHANGED <<prompts, activeRun, manual, connected, overlapped>>, UNCHANGED made,
           missed' # missed => ~connected
    PROVE  Controlled'
  <1>1. Shapes' /\ OneAt("checks")' /\ OneAt("run")' /\ RunOwned'
    BY DEF Controlled, Shapes, OneAt, RunOwned
  <1>2. ManualShape'
    BY DEF Controlled, ManualShape, Typed, RestTyped
  <1>3. Alone'
    BY DEF Controlled, Alone
  <1> QED
    BY <1>1, <1>2, <1>3 DEF Controlled

\* A call of a client that leaves these alone.
LEMMA QuietControlled ==
    ASSUME Controlled, Typed', UNCHANGED <<prompts, activeRun, at, manual, connected, overlapped>>,
           made'["compact"] = made["compact"], missed' = missed
    PROVE  Controlled'
  BY DEF Controlled, Shapes, OneAt, RunOwned, ManualShape, Alone

LEMMA LoopStepsControlled ==
    ASSUME Controlled, Typed',
           Inject \/ ToolsEnd \/ \E kind \in Replies : Reply(kind)
    PROVE  Controlled'
  <1>1. missed' # missed => ~connected
    <2>1. missed \in BOOLEAN
      BY DEF Controlled, Typed, RestTyped
    <2>2. ASSUME NEW ms, Emit(ms), connected
          PROVE  missed' = missed
      <3>1. missed' = (missed \/ (~connected /\ ms # <<>>))
        BY <2>2 DEF Emit
      <3> QED
        BY <2>1, <2>2, <3>1
    <2> QED
      BY <2>2 DEF Inject, ToolsEnd, Reply
  <1>2. UNCHANGED <<prompts, activeRun, manual, connected, overlapped>> /\ UNCHANGED made
    BY DEF Inject, ToolsEnd, Reply, countVars
  <1>3. at # "tools" \/ ~manual.awaited
    BY DEF Inject, ToolsEnd, Reply
  <1> QED
    BY <1>1, <1>2, <1>3, LoopControlled

LEMMA FinishRunControlled ==
    ASSUME Controlled, Typed', FinishRun
    PROVE  Controlled'
  <1>1. PICK p \in Prompters :
            /\ prompts[p].at = "run"
            /\ AfterRun(p)
            /\ overlapped' = (overlapped \/ (manual.at # "idle" /\ prompts'[p].at # "idle"))
    BY DEF FinishRun
  <1>2. Moves(p, {"idle", "hook", "compact", "retry"})
    BY <1>1, AfterRunMoves DEF Controlled
  <1>3. /\ activeRun' = "none" /\ at' = "off" /\ UNCHANGED <<connected, missed>> /\ UNCHANGED made
        /\ manual' = IF manual.at = "waiting" THEN [manual EXCEPT !.at = "ready"] ELSE manual
    BY DEF FinishRun, countVars
  <1>4. Shapes'
    BY <1>2 DEF Controlled, Shapes, Moves
  <1>5. \A q \in Prompters : prompts'[q].at # "idle" => prompts[q].at # "idle"
    BY <1>1, <1>2 DEF Moves
  <1>6. \A q \in Prompters : prompts'[q].at # "run"
    BY <1>1, <1>2 DEF Controlled, OneAt, Moves
  <1>7. OneAt("checks")' /\ OneAt("run")' /\ RunOwned'
    BY <1>2, <1>3, <1>6 DEF Controlled, OneAt, RunOwned, Moves
  <1>8. manual.at = "waiting" => manual'.at = "ready" /\ manual' # manual
    BY <1>3 DEF Controlled, Typed, RestTyped
  <1>9. ManualShape'
    BY <1>3, <1>8 DEF Controlled, ManualShape, Typed, RestTyped
  <1>10. Alone'
    <2> SUFFICES ASSUME ~overlapped'
                 PROVE  /\ \A q, r \in Prompters : prompts'[q].at # "idle" /\ prompts'[r].at # "idle" => q = r
                        /\ manual'.at # "idle" => \A q \in Prompters : prompts'[q].at \in {"idle", "run"}
      BY <1>3 DEF Alone
    <2>1. ~overlapped /\ (manual.at = "idle" \/ prompts'[p].at = "idle")
      BY <1>1
    <2>2. \A q, r \in Prompters : prompts'[q].at # "idle" /\ prompts'[r].at # "idle" => q = r
      BY <1>5, <2>1 DEF Controlled, Alone
    <2>3. \A q \in Prompters \ {p} : prompts'[q].at = "idle"
      BY <1>1, <1>2, <2>1 DEF Controlled, Alone, Moves
    <2>4. manual'.at # "idle" => manual.at # "idle"
      BY <1>3, <1>8
    <2> QED
      BY <2>1, <2>2, <2>3, <2>4
  <1> QED
    BY <1>4, <1>7, <1>9, <1>10 DEF Controlled

LEMMA CallStepsControlled ==
    ASSUME Controlled, Typed', NEW p \in Prompters,
           \/ Preflight(p) \/ Submit(p) \/ PauseEnds(p) \/ PauseAborted(p)
           \/ Summarized(p) \/ SummaryFails(p) \/ Resume(p)
    PROVE  Controlled'
  <1>1. CASE Preflight(p)
    <2>1. Moves(p, {"idle", "hook", "compact"})
      BY <1>1, ReturnMoves, CheckCompactionMoves DEF Preflight, Controlled, Moves
    <2> QED
      BY <1>1, <2>1, MoveControlled DEF Preflight, agentVars, countVars, historyVars
  <1>2. CASE Submit(p)
    <2>1. CASE activeRun = "none"
      <3>1. Moves(p, {"run"}) /\ activeRun' = "live"
        BY <1>2, <2>1, StartRunMoves DEF Submit, Controlled
      <3> QED
        BY <1>2, <2>1, <3>1, StartControlled DEF Submit, countVars
    <2>2. CASE activeRun # "none"
      <3>1. Moves(p, {"idle"})
        BY <1>2, <2>2, RejectMoves DEF Submit, Controlled
      <3> QED
        BY <1>2, <2>2, <3>1, MoveControlled DEF Submit, countVars
    <2> QED
      BY <2>1, <2>2
  <1>3. CASE PauseEnds(p)
    <2>1. \/ Moves(p, {"idle"}) /\ UNCHANGED <<activeRun, at>>
          \/ Moves(p, {"run"}) /\ activeRun = "none" /\ activeRun' = "live" /\ at' = "inject"
      BY <1>3, ContinueMoves DEF PauseEnds, Controlled
    <2> QED
      BY <1>3, <2>1, MoveControlled, StartControlled DEF PauseEnds, countVars
  <1>4. CASE PauseAborted(p)
    <2>1. Moves(p, {"idle", "hook", "compact"})
      BY <1>4, CheckCompactionMoves DEF PauseAborted, Controlled
    <2> QED
      BY <1>4, <2>1, MoveControlled DEF PauseAborted, agentVars, countVars, historyVars
  <1>5. CASE Summarized(p)
    <2>1. Moves(p, {"compacted"})
      <3> DEFINE call == [prompts[p] EXCEPT !.at = "compacted", !.keep = 0]
      <3>1. prompts[p] \in CallType /\ ShapeOf(prompts[p]) /\ prompts[p].at = "compact"
        BY <1>5, Carried DEF Typed, Shapes, Controlled, Summarized
      <3>2. prompts' = [prompts EXCEPT ![p] = call]
        BY <1>5 DEF Summarized, Controlled, Typed, ContentsTyped
      <3>3. call \in CallType
        BY <3>1 DEF CallType
      <3>4. ShapeOf(call) /\ call.at \in {"compacted"}
        BY <3>1 DEF ShapeOf, CallType
      <3> HIDE DEF call
      <3> QED
        BY <3>2, <3>3, <3>4, MovesTo DEF Controlled
    <2>2. UNCHANGED <<activeRun, at, manual, connected, overlapped>> /\ UNCHANGED made
      BY <1>5 DEF Summarized, agentVars, countVars
    <2>3. Shapes' /\ prompts'[p].at = "compacted" /\ prompts[p].at = "compact"
      BY <1>5, <2>1 DEF Controlled, Shapes, Moves, Summarized
    <2>4. \A q \in Prompters : /\ prompts'[q].at # "idle" => prompts[q].at # "idle"
                               /\ prompts'[q].at = "run" <=> prompts[q].at = "run"
                               /\ prompts'[q].at = "checks" <=> prompts[q].at = "checks"
                               /\ prompts'[q].at \in {"idle", "run"} <=> prompts[q].at \in {"idle", "run"}
      BY <2>1, <2>3 DEF Moves
    <2>5. OneAt("checks")' /\ OneAt("run")' /\ RunOwned'
      BY <2>2, <2>4 DEF Controlled, OneAt, RunOwned
    <2>6. ManualShape'
      BY <1>5, <2>2 DEF Controlled, ManualShape, Summarized, Compacted
    <2>7. Alone'
      BY <2>2, <2>4 DEF Controlled, Alone
    <2> QED
      BY <2>3, <2>5, <2>6, <2>7 DEF Controlled
  <1>6. CASE SummaryFails(p)
    <2>1. Moves(p, {"idle", "hook"})
      BY <1>6, ReturnMoves DEF SummaryFails, Controlled
    <2> QED
      BY <1>6, <2>1, MoveControlled DEF SummaryFails, agentVars, countVars, historyVars
  <1>7. CASE Resume(p)
    <2>1. CASE Continue(p, WithoutLastError) \/ Continue(p, messages)
      <3>1. \/ Moves(p, {"idle"}) /\ UNCHANGED <<activeRun, at>>
            \/ Moves(p, {"run"}) /\ activeRun = "none" /\ activeRun' = "live" /\ at' = "inject"
        BY <2>1, ContinueMoves DEF Controlled
      <3> QED
        BY <1>7, <3>1, MoveControlled, StartControlled DEF Resume, countVars
    <2>2. CASE /\ Return(p, messages)
               /\ UNCHANGED <<agentVars, staleContext, recoveries, refused, sent>>
      <3>1. Moves(p, {"idle", "hook"})
        BY <2>2, ReturnMoves DEF Controlled
      <3> QED
        BY <1>7, <2>2, <3>1, MoveControlled DEF Resume, agentVars, countVars
    <2> QED
      BY <1>7, <2>1, <2>2 DEF Resume
  <1> QED
    BY <1>1, <1>2, <1>3, <1>4, <1>5, <1>6, <1>7

LEMMA PromptControlled ==
    ASSUME Controlled, Typed', NEW p \in Prompters, Prompt(p), ~Checking
    PROVE  Controlled' /\ Moves(p, {"checks"})
  <1> DEFINE shown == messages \o pendingBashMessages
             last == IF Holds(shown, Replies) THEN shown[Max(IndicesOf(shown, Replies))]
                     ELSE NoMessage
             call == [Idle EXCEPT !.at = "checks", !.pre = "check",
                                  !.message = Message("user"), !.last = last]
  <1>1. prompts' = [prompts EXCEPT ![p] = call] /\ activeRun = "none" /\ prompts[p].at = "idle"
        /\ overlapped' = (overlapped \/ UnderWay) /\ ClientCall("prompt")
        /\ UNCHANGED <<activeRun, at, manual, connected, missed>>
    BY DEF Prompt, agentVars
  <1> HIDE DEF last
  <1>2. prompts'[p] = call /\ \A q \in Prompters \ {p} : prompts'[q] = prompts[q]
    BY <1>1 DEF Controlled, Typed, ContentsTyped
  <1>3. call.at = "checks" /\ ShapeOf(call)
    BY DEF ShapeOf, Idle, Message, NoMessage
  <1> HIDE DEF call
  <1>4. Moves(p, {"checks"}) /\ Shapes'
    BY <1>2, <1>3 DEF Moves, Controlled, Shapes
  <1>5. \A q \in Prompters : prompts[q].at \notin {"run", "checks"}
    BY <1>1 DEF Controlled, RunOwned, Checking
  <1>6. OneAt("checks")' /\ OneAt("run")' /\ RunOwned'
    BY <1>1, <1>2, <1>3, <1>5 DEF OneAt, RunOwned
  <1>7. made'["compact"] = made["compact"]
    BY <1>1, CallCounted DEF Calls, Controlled, Typed
  <1>8. ManualShape'
    BY <1>1, <1>7 DEF Controlled, ManualShape
  <1>9. Alone'
    <2> SUFFICES ASSUME ~overlapped'
                 PROVE  /\ \A q, r \in Prompters : prompts'[q].at # "idle" /\ prompts'[r].at # "idle" => q = r
                        /\ manual'.at = "idle"
      BY <1>1 DEF Alone
    <2>1. ~UnderWay
      BY <1>1
    <2>2. manual.at = "idle" /\ \A q \in Prompters : prompts[q].at = "idle"
      BY <1>5, <2>1 DEF UnderWay
    <2> QED
      BY <1>1, <1>2, <2>2
  <1> QED
    BY <1>4, <1>6, <1>8, <1>9 DEF Controlled

\* abortRetry() changes no call that is not in a pause.
LEMMA AbortRetryPlaces ==
    ASSUME Typed, Shapes, AbortRetry
    PROVE  \A q \in Prompters :
               /\ prompts'[q].at # "idle" <=> prompts[q].at # "idle"
               /\ prompts'[q].at = "run" <=> prompts[q].at = "run"
               /\ prompts'[q].at = "checks" <=> prompts[q].at = "checks"
               /\ ShapeOf(prompts'[q])
               /\ prompts[q].at # "retry" => prompts'[q] = prompts[q]
  <1> TAKE q \in Prompters
  <1>1. prompts[q] \in CallType
    BY Carried DEF Typed
  <1>2. /\ ShapeOf(prompts'[q])
        /\ \/ prompts'[q] = prompts[q]
           \/ prompts[q].at = "retry" /\ prompts'[q] = [prompts[q] EXCEPT !.at = "cancelled"]
    BY AbortRetryMoves
  <1> QED
    BY <1>1, <1>2 DEF CallType

LEMMA CompactControlled ==
    ASSUME Controlled, Typed', Compact
    PROVE  Controlled'
  <1>1. /\ AbortRetry /\ ClientCall("compact") /\ missed' = missed
        /\ activeRun' # "none" <=> activeRun # "none"
    BY DEF Compact, AbortRun
  <1>2. at' = at /\ manual.at = "idle" /\ connected' = FALSE
    BY DEF Compact
  <1>3. \A q \in Prompters :
            /\ prompts'[q].at # "idle" <=> prompts[q].at # "idle"
            /\ prompts'[q].at = "run" <=> prompts[q].at = "run"
            /\ prompts'[q].at = "checks" <=> prompts[q].at = "checks"
            /\ ShapeOf(prompts'[q])
            /\ prompts[q].at # "retry" => prompts'[q] = prompts[q]
    BY <1>1, AbortRetryPlaces DEF Controlled
  <1>4. Shapes' /\ OneAt("checks")' /\ OneAt("run")' /\ RunOwned'
    BY <1>1, <1>3 DEF Controlled, Shapes, OneAt, RunOwned
  <1>5. PICK byTool \in {FALSE, at = "tools"} :
            /\ overlapped' = (overlapped \/ UnderWay \/ (MidRun /\ ~byTool))
            /\ manual' = [NotCompacting EXCEPT
                   !.at = IF MidRun \/ activeRun = "none" THEN "ready" ELSE "waiting",
                   !.midRun = MidRun, !.awaited = byTool]
    BY DEF Compact
  <1>6. manual'.at = (IF MidRun \/ activeRun = "none" THEN "ready" ELSE "waiting")
        /\ manual'.midRun = MidRun /\ manual'.awaited = byTool
    BY <1>5 DEF NotCompacting
  <1>7. made'["compact"] # 0
    <2>1. made'["compact"] = made["compact"] + 1
      BY <1>1, CallCounted DEF Calls, Controlled, Typed
    <2>2. made["compact"] \in Nat
      BY DEF Calls, Controlled, Typed, RestTyped
    <2> QED
      BY <2>1, <2>2
  <1>8. ManualShape'
    BY <1>6, <1>7 DEF ManualShape
  <1>9. Alone'
    <2> SUFFICES ASSUME ~overlapped'
                 PROVE  /\ \A q, r \in Prompters : prompts'[q].at # "idle" /\ prompts'[r].at # "idle" => q = r
                        /\ \A q \in Prompters : prompts'[q].at \in {"idle", "run"}
                        /\ manual'.at \in {"ready", "summary", "saved"} /\ activeRun' # "none"
                               => at' = "tools" /\ manual'.awaited /\ manual'.midRun
      BY DEF Alone
    <2>1. ~overlapped /\ ~UnderWay /\ (MidRun => byTool)
      BY <1>5
    <2>2. \A q \in Prompters : prompts[q].at \in {"idle", "run"} /\ prompts'[q] = prompts[q]
      BY <1>3, <2>1 DEF UnderWay
    <2>3. manual'.at = "ready" /\ activeRun' # "none" => MidRun /\ manual'.awaited /\ manual'.midRun
      BY <1>1, <1>6, <2>1
    <2> QED
      BY <1>1, <1>2, <1>3, <1>6, <2>1, <2>2, <2>3 DEF Controlled, Alone, MidRun
  <1> QED
    BY <1>4, <1>8, <1>9 DEF Controlled

LEMMA CompactStepsControlled ==
    ASSUME Controlled, Typed', CompactReads \/ CompactSaves \/ CompactEnds
    PROVE  Controlled'
  <1>1. /\ UNCHANGED <<prompts, activeRun, at, overlapped>> /\ UNCHANGED made
        /\ manual.at \in {"ready", "summary", "saved"}
    BY DEF CompactReads, CompactSaves, CompactEnds, agentVars, countVars, historyVars
  <1>2. Shapes' /\ OneAt("checks")' /\ OneAt("run")' /\ RunOwned'
    BY <1>1 DEF Controlled, Shapes, OneAt, RunOwned
  <1>3. made["compact"] # 0
    BY <1>1 DEF Controlled, ManualShape
  <1>4. \/ /\ manual'.at \in {"summary", "saved"} /\ manual'.awaited = manual.awaited
           /\ manual'.midRun = manual.midRun
        \/ manual' = NotCompacting /\ connected' = TRUE
    BY DEF CompactReads, CompactSaves, CompactEnds, Controlled, Typed, RestTyped
  <1>5. NotCompacting.at = "idle"
    BY DEF NotCompacting
  <1>6. ManualShape' /\ Alone'
    BY <1>1, <1>3, <1>4, <1>5 DEF Controlled, ManualShape, Alone
  <1> QED
    BY <1>2, <1>6 DEF Controlled

LEMMA AbortControlled ==
    ASSUME Controlled, Typed', Abort
    PROVE  Controlled'
  <1>1. /\ AbortRetry /\ ClientCall("abort")
        /\ activeRun' # "none" <=> activeRun # "none"
        /\ UNCHANGED <<at, manual, connected, missed, overlapped>>
    BY DEF Abort, AbortRun, historyVars
  <1>2. \A q \in Prompters :
            /\ prompts'[q].at # "idle" <=> prompts[q].at # "idle"
            /\ prompts'[q].at = "run" <=> prompts[q].at = "run"
            /\ prompts'[q].at = "checks" <=> prompts[q].at = "checks"
            /\ ShapeOf(prompts'[q])
            /\ prompts[q].at # "retry" => prompts'[q] = prompts[q]
    BY <1>1, AbortRetryPlaces DEF Controlled
  <1>3. Shapes' /\ OneAt("checks")' /\ OneAt("run")' /\ RunOwned'
    BY <1>1, <1>2 DEF Controlled, Shapes, OneAt, RunOwned
  <1>4. made'["compact"] = made["compact"]
    BY <1>1, CallCounted DEF Calls, Controlled, Typed
  <1>5. ManualShape'
    BY <1>1, <1>4 DEF Controlled, ManualShape
  <1>6. Alone'
    BY <1>1, <1>2 DEF Controlled, Alone
  <1> QED
    BY <1>3, <1>5, <1>6 DEF Controlled

LEMMA QuietStepsControlled ==
    ASSUME Controlled, Typed',
           Steer \/ FollowUp \/ QueueCustom \/ NextTurn \/ ClearQueue \/ RecordBash
    PROVE  Controlled'
  <1>1. UNCHANGED <<prompts, activeRun, at, manual, connected, overlapped>> /\ missed' = missed
    BY DEF Steer, FollowUp, QueueCustom, NextTurn, ClearQueue, RecordBash, agentVars, historyVars
  <1>2. ClientCall("queue") \/ ClientCall("abort") \/ ClientCall("bash")
    BY DEF Steer, FollowUp, QueueCustom, NextTurn, ClearQueue, RecordBash
  <1>3. made'["compact"] = made["compact"]
    BY <1>2, CallCounted DEF Calls, Controlled, Typed
  <1> QED
    BY <1>1, <1>3, QuietControlled

\* Where the calls are, for every number of callers: one has the run, and one at
\* most is under way until operations overlap.
THEOREM ControlInvariant == Spec => []Controlled
  <1>1. Init => Controlled
    <2> SUFFICES ASSUME Init
                 PROVE  Controlled
      OBVIOUS
    <2>1. \A p \in Prompters : prompts[p] = Idle
      BY DEF Init
    <2>2. Idle.at = "idle" /\ ShapeOf(Idle)
      BY IdleShape
    <2>3. Shapes /\ OneAt("checks") /\ OneAt("run") /\ RunOwned /\ Alone
      BY <2>1, <2>2 DEF Init, Shapes, OneAt, RunOwned, Alone, NotCompacting
    <2>4. ManualShape
      BY DEF Init, ManualShape, NotCompacting
    <2> QED
      BY <2>3, <2>4, InitTyped DEF Controlled
  <1>2. Controlled /\ [Next]_vars => Controlled'
    <2> SUFFICES ASSUME Controlled, [Next]_vars
                 PROVE  Controlled'
      OBVIOUS
    <2>1. Typed'
      BY StepTyped, StutterTyped DEF Controlled
    <2>2. CASE RunStep
      BY <2>1, <2>2, LoopStepsControlled, FinishRunControlled DEF RunStep
    <2>3. ASSUME NEW p \in Prompters, PromptStep(p)
          PROVE  Controlled'
      BY <2>1, <2>3, CallStepsControlled DEF PromptStep
    <2>4. CASE CompactStep
      BY <2>1, <2>4, CompactStepsControlled DEF CompactStep
    <2>5. CASE ClientStep
      BY <2>1, <2>5, CompactControlled, AbortControlled, QuietStepsControlled, PromptControlled
         DEF ClientStep
    <2>6. CASE UNCHANGED vars
      BY <2>1, <2>6, QuietControlled DEF vars, agentVars, countVars, historyVars
    <2> QED
      BY <2>2, <2>3, <2>4, <2>5, <2>6 DEF Next, InternalStep
  <1>3. Spec => []Typed
    BY TypeInvariant
  <1> QED
    BY <1>1, <1>2, PTL DEF Spec

-----------------------------------------------------------------------------
\* What is where: the kinds of the messages in each place, and that all are of
\* the past.

Client == {"user", "custom"}
MessagesOf(kinds, n) == {m \in MessageType : m.kind \in kinds /\ m.id \in 1..n}
EntriesOf(n) == {e \in EntryType : e.kind # "summary" /\ e.id \in 0..n}

QueuesOf(n) ==
    /\ steeringQueue \in Seq(MessagesOf(Client, n))
    /\ followUpQueue \in Seq(MessagesOf(Client, n))
PendingOf(n) ==
    /\ pendingNextTurnMessages \in Seq(MessagesOf({"custom"}, n))
    /\ pendingBashMessages \in Seq(MessagesOf({"bash"}, n))
CallsOf(n) ==
    \A p \in Prompters :
        /\ prompts[p].hands \in Seq(MessagesOf(Client, n))
        /\ prompts[p].at = "hook" => prompts[p].hands # <<>>
        /\ prompts[p].pre # "no" => prompts[p].message \in MessagesOf({"user"}, n)
HandsOf(n) ==
    /\ at = "inject" => hands \in Seq(MessagesOf(Client, n))
    /\ at = "tools" => \E m \in MessagesOf({"result"}, n) : hands = <<m>>
    /\ at \notin {"inject", "tools"} => hands = <<>>
SessionOf(n) == session \in Seq(EntriesOf(n))
SentOf(n) == sent \subseteq 1..n

KindedUpto(n) ==
    QueuesOf(n) /\ PendingOf(n) /\ CallsOf(n) /\ HandsOf(n) /\ SessionOf(n) /\ SentOf(n)
Kinded == Controlled /\ KindedUpto(events)

\* More kinds, and later times.
LEMMA KindsGrow ==
    ASSUME NEW n \in Nat, NEW m \in Nat, n <= m, NEW kinds, NEW more, kinds \subseteq more
    PROVE  /\ MessagesOf(kinds, n) \subseteq MessagesOf(more, m)
           /\ Seq(MessagesOf(kinds, n)) \subseteq Seq(MessagesOf(more, m))
           /\ EntriesOf(n) \subseteq EntriesOf(m)
           /\ Seq(EntriesOf(n)) \subseteq Seq(EntriesOf(m))
           /\ "summary" \notin kinds => Seq(MessagesOf(kinds, n)) \subseteq Seq(EntriesOf(n))
           /\ Seq(MessagesOf(kinds, n)) \subseteq Seq(MessageType)
  <1>1. MessagesOf(kinds, n) \subseteq MessagesOf(more, m)
    BY DEF MessagesOf
  <1>2. EntriesOf(n) \subseteq EntriesOf(m)
    BY DEF EntriesOf
  <1>3. "summary" \notin kinds => MessagesOf(kinds, n) \subseteq EntriesOf(n)
    BY DEF MessagesOf, EntriesOf, EntryType
  <1>4. MessagesOf(kinds, n) \subseteq MessageType
    BY DEF MessagesOf
  <1> QED
    BY <1>1, <1>2, <1>3, <1>4, SeqMonotonic

LEMMA UptoGrows ==
    ASSUME NEW n \in Nat, NEW m \in Nat, n <= m, KindedUpto(n)
    PROVE  KindedUpto(m)
  <1>1. \A kinds : MessagesOf(kinds, n) \subseteq MessagesOf(kinds, m)
                   /\ Seq(MessagesOf(kinds, n)) \subseteq Seq(MessagesOf(kinds, m))
    BY KindsGrow
  <1>2. Seq(EntriesOf(n)) \subseteq Seq(EntriesOf(m))
    BY KindsGrow
  <1>3. QueuesOf(m) /\ PendingOf(m)
    BY <1>1 DEF KindedUpto, QueuesOf, PendingOf
  <1>4. CallsOf(m)
    BY <1>1 DEF KindedUpto, CallsOf
  <1>5. HandsOf(m)
    BY <1>1 DEF KindedUpto, HandsOf
  <1>6. SessionOf(m)
    BY <1>2 DEF KindedUpto, SessionOf
  <1>7. SentOf(m)
    BY DEF KindedUpto, SentOf
  <1> QED
    BY <1>3, <1>4, <1>5, <1>6, <1>7 DEF KindedUpto

LEMMA EventsGrow ==
    ASSUME Typed, [Next]_vars
    PROVE  events' \in Nat /\ events <= events'
  <1>0. events \in Nat
    BY DEF Typed, RestTyped
  <1>1. \A c \in Calls : ClientCall(c) => events' = events + 1
    BY DEF ClientCall
  <1>2. CASE RunStep
    <2>1. CASE Inject \/ ToolsEnd \/ FinishRun
      <3>1. UNCHANGED countVars
        BY <2>1 DEF Inject, ToolsEnd, FinishRun
      <3> QED
        BY <1>0, <3>1 DEF countVars
    <2>2. CASE \E kind \in Replies : Reply(kind)
      <3>1. events' = events + 1
        BY <2>2 DEF Reply
      <3> QED
        BY <1>0, <3>1
    <2> QED
      BY <1>2, <2>1, <2>2 DEF RunStep
  <1>3. ASSUME NEW p \in Prompters, PromptStep(p)
        PROVE  events' = events
    BY <1>3 DEF PromptStep, Preflight, Submit, PauseEnds, PauseAborted, Summarized,
                SummaryFails, Resume, countVars
  <1>4. CASE CompactStep
    <2>1. UNCHANGED countVars
      BY <1>4 DEF CompactStep, CompactReads, CompactSaves, CompactEnds
    <2> QED
      BY <1>0, <2>1 DEF countVars
  <1>5. CASE ClientStep
    BY <1>0, <1>1, <1>5 DEF ClientStep, Compact, Abort, Steer, FollowUp, QueueCustom, NextTurn, ClearQueue,
                       RecordBash, Prompt, Calls
  <1>6. CASE UNCHANGED vars
    BY <1>0, <1>6 DEF vars, countVars
  <1> QED
    BY <1>0, <1>2, <1>3, <1>4, <1>5, <1>6 DEF Next, InternalStep

\* The parts of a prompt() call.
LEMMA FlushKinds ==
    ASSUME NEW n \in Nat, SessionOf(n), pendingBashMessages \in Seq(MessagesOf({"bash"}, n)),
           NEW transcript, FlushBash(transcript)
    PROVE  SessionOf(n)' /\ pendingBashMessages' \in Seq(MessagesOf({"bash"}, n))
  <1>1. pendingBashMessages \in Seq(EntriesOf(n)) /\ session \in Seq(EntriesOf(n))
    BY KindsGrow DEF SessionOf
  <1>2. session \o pendingBashMessages \in Seq(EntriesOf(n))
    BY <1>1, ConcatTyped
  <1>3. <<>> \in Seq(MessagesOf({"bash"}, n))
    OBVIOUS
  <1> QED
    BY <1>2, <1>3 DEF FlushBash, SessionOf

LEMMA TakeKinds ==
    ASSUME Typed, NEW n \in Nat, CallsOf(n), PendingOf(n), NEW p \in Prompters,
           prompts[p].pre # "no", TakeMessages(p)
    PROVE  CallsOf(n)' /\ pendingNextTurnMessages' \in Seq(MessagesOf({"custom"}, n))
  <1> DEFINE first == <<prompts[p].message>>
             taken == first \o pendingNextTurnMessages
             call == [Idle EXCEPT !.at = "hook", !.hands = taken]
  <1>1. prompts[p].message \in MessagesOf({"user"}, n)
    BY DEF CallsOf
  <1>2. prompts[p].message \in MessagesOf(Client, n)
    BY <1>1 DEF MessagesOf, Client
  <1>3. first \in Seq(MessagesOf(Client, n)) /\ first # <<>> /\ Len(first) = 1
    BY <1>2
  <1>4. pendingNextTurnMessages \in Seq(MessagesOf(Client, n))
    <2>1. {"custom"} \subseteq Client
      BY DEF Client
    <2> QED
      BY <2>1, KindsGrow DEF PendingOf
  <1> HIDE DEF first
  <1>5. taken \in Seq(MessagesOf(Client, n)) /\ taken # <<>>
    <2>1. taken \in Seq(MessagesOf(Client, n))
      BY <1>3, <1>4, ConcatTyped
    <2>2. Len(taken) = Len(first) + Len(pendingNextTurnMessages)
      BY <1>3, <1>4, ConcatProperties
    <2>3. Len(pendingNextTurnMessages) \in Nat
      BY <1>4, LenProperties
    <2>4. Len(taken) # 0
      BY <1>3, <2>2, <2>3
    <2> QED
      BY <2>1, <2>4, EmptySeq
  <1>6. prompts' = [prompts EXCEPT ![p] = call] /\ pendingNextTurnMessages' = <<>>
    BY DEF TakeMessages, first
  <1> HIDE DEF taken
  <1>7. call.hands = taken /\ call.pre = "no"
    BY DEF Idle
  <1> HIDE DEF call
  <1>8. prompts'[p] = call /\ \A q \in Prompters \ {p} : prompts'[q] = prompts[q]
    BY <1>6 DEF Typed, ContentsTyped
  <1>9. CallsOf(n)'
    BY <1>5, <1>7, <1>8 DEF CallsOf
  <1>10. <<>> \in Seq(MessagesOf({"custom"}, n))
    OBVIOUS
  <1> QED
    BY <1>6, <1>9, <1>10

\* Setting one call to one that holds nothing but perhaps its message.
LEMMA CallKinds ==
    ASSUME Typed, NEW n \in Nat, CallsOf(n), NEW p \in Prompters, NEW call,
           prompts' = [prompts EXCEPT ![p] = call], call.hands = <<>>, call.at # "hook",
           call.pre # "no" => call.message \in MessagesOf({"user"}, n)
    PROVE  CallsOf(n)'
  <1>1. prompts'[p] = call /\ \A q \in Prompters \ {p} : prompts'[q] = prompts[q]
    BY DEF Typed, ContentsTyped
  <1>2. <<>> \in Seq(MessagesOf(Client, n))
    OBVIOUS
  <1> QED
    BY <1>1, <1>2 DEF CallsOf

LEMMA ReturnKinds ==
    ASSUME Typed, NEW n \in Nat, SessionOf(n), PendingOf(n), CallsOf(n), NEW p \in Prompters,
           NEW transcript, Return(p, transcript)
    PROVE  SessionOf(n)' /\ PendingOf(n)' /\ CallsOf(n)'
  <1>1. SessionOf(n)' /\ pendingBashMessages' \in Seq(MessagesOf({"bash"}, n))
    <2>1. CASE prompts[p].pre = "check"
      BY <2>1 DEF Return, SessionOf, PendingOf
    <2>2. CASE prompts[p].pre # "check"
      <3>1. FlushBash(transcript)
        BY <2>2 DEF Return
      <3> QED
        BY <3>1, FlushKinds DEF PendingOf
    <2> QED
      BY <2>1, <2>2
  <1>2. CallsOf(n)' /\ pendingNextTurnMessages' \in Seq(MessagesOf({"custom"}, n))
    <2>1. CASE prompts[p].pre = "no"
      <3>1. prompts' = [prompts EXCEPT ![p] = Idle] /\ UNCHANGED pendingNextTurnMessages
        BY <2>1 DEF Return
      <3>2. Idle.hands = <<>> /\ Idle.at # "hook" /\ Idle.pre = "no"
        BY DEF Idle
      <3> QED
        BY <3>1, <3>2, CallKinds DEF PendingOf
    <2>2. CASE prompts[p].pre # "no"
      <3>1. TakeMessages(p)
        BY <2>2 DEF Return
      <3> QED
        BY <2>2, <3>1, TakeKinds
    <2> QED
      BY <2>1, <2>2
  <1> QED
    BY <1>1, <1>2 DEF PendingOf

LEMMA RejectKinds ==
    ASSUME Typed, NEW n \in Nat, SessionOf(n), PendingOf(n), CallsOf(n), SentOf(n),
           NEW p \in Prompters, NEW transcript, Reject(p, transcript)
    PROVE  SessionOf(n)' /\ PendingOf(n)' /\ CallsOf(n)' /\ SentOf(n)'
  <1>1. FlushBash(transcript) /\ prompts' = [prompts EXCEPT ![p] = Idle]
        /\ UNCHANGED pendingNextTurnMessages /\ sent' \subseteq sent
    BY DEF Reject
  <1>2. SessionOf(n)' /\ pendingBashMessages' \in Seq(MessagesOf({"bash"}, n))
    BY <1>1, FlushKinds DEF PendingOf
  <1>3. CallsOf(n)'
    <2>1. Idle.hands = <<>> /\ Idle.at # "hook" /\ Idle.pre = "no"
      BY DEF Idle
    <2> QED
      BY <1>1, <2>1, CallKinds
  <1> QED
    BY <1>1, <1>2, <1>3 DEF PendingOf, SentOf

LEMMA StartRunKinds ==
    ASSUME Typed, NEW n \in Nat, CallsOf(n), NEW p \in Prompters,
           NEW first \in Seq(MessagesOf(Client, n)), NEW poll, StartRun(p, first, poll)
    PROVE  CallsOf(n)' /\ HandsOf(n)'
  <1> DEFINE pre == IF prompts[p].pre = "check" THEN "loop" ELSE prompts[p].pre
             call == [Idle EXCEPT !.at = "run", !.message = prompts[p].message, !.pre = pre]
  <1>1. prompts' = [prompts EXCEPT ![p] = call] /\ at' = "inject" /\ hands' = first
    BY DEF StartRun
  <1>2. call.hands = <<>> /\ call.at # "hook" /\ call.message = prompts[p].message
        /\ (call.pre # "no" => prompts[p].pre # "no")
    BY DEF Idle
  <1> HIDE DEF call
  <1>3. CallsOf(n)'
    BY <1>1, <1>2, CallKinds DEF CallsOf
  <1>4. HandsOf(n)'
    BY <1>1 DEF HandsOf
  <1> QED
    BY <1>3, <1>4

LEMMA QueueKinds ==
    ASSUME NEW n \in Nat, QueuesOf(n)
    PROVE  /\ FirstOf(steeringQueue) \in Seq(MessagesOf(Client, n))
           /\ RestOf(steeringQueue) \in Seq(MessagesOf(Client, n))
           /\ FirstOf(followUpQueue) \in Seq(MessagesOf(Client, n))
           /\ RestOf(followUpQueue) \in Seq(MessagesOf(Client, n))
  BY QueueParts DEF QueuesOf

LEMMA ContinueKinds ==
    ASSUME Typed, NEW n \in Nat, KindedUpto(n), NEW p \in Prompters,
           NEW transcript, Continue(p, transcript)
    PROVE  KindedUpto(n)'
  <1>1. CASE Refused(p, transcript)
    <2>1. SessionOf(n)' /\ PendingOf(n)' /\ CallsOf(n)' /\ SentOf(n)'
      BY <1>1, RejectKinds DEF Refused, KindedUpto
    <2> QED
      BY <1>1, <2>1 DEF Refused, agentVars, KindedUpto, QueuesOf, HandsOf
  <1>2. ASSUME NEW first \in Seq(MessagesOf(Client, n)), NEW poll,
               StartRun(p, first, poll), Continued(p, transcript), QueuesOf(n)'
        PROVE  KindedUpto(n)'
    <2>1. CallsOf(n)' /\ HandsOf(n)'
      BY <1>2, StartRunKinds DEF KindedUpto
    <2> QED
      BY <1>2, <2>1 DEF Continued, KindedUpto, PendingOf, SessionOf, SentOf
  <1>3. <<>> \in Seq(MessagesOf(Client, n))
    OBVIOUS
  <1>4. /\ FirstOf(steeringQueue) \in Seq(MessagesOf(Client, n))
        /\ RestOf(steeringQueue) \in Seq(MessagesOf(Client, n))
        /\ FirstOf(followUpQueue) \in Seq(MessagesOf(Client, n))
        /\ RestOf(followUpQueue) \in Seq(MessagesOf(Client, n))
    BY QueueKinds DEF KindedUpto
  <1>5. CASE ContinuedWithNothing(p, transcript)
    BY <1>2, <1>3, <1>5 DEF ContinuedWithNothing, KindedUpto, QueuesOf
  <1>6. CASE ContinuedWithSteering(p, transcript)
    BY <1>2, <1>4, <1>6 DEF ContinuedWithSteering, KindedUpto, QueuesOf
  <1>7. CASE ContinuedWithFollowUp(p, transcript)
    BY <1>2, <1>4, <1>7 DEF ContinuedWithFollowUp, KindedUpto, QueuesOf
  <1> QED
    BY <1>1, <1>5, <1>6, <1>7, ContinueCases DEF Typed

LEMMA StartSummaryKinds ==
    ASSUME Controlled, NEW n \in Nat, CallsOf(n), NEW p \in Prompters, NEW retry,
           StartSummary(p, retry), prompts[p].at # "hook"
    PROVE  CallsOf(n)'
  <1>1. PICK keep \in Cuts :
            prompts' = [prompts EXCEPT ![p].at = "compact", ![p].retry = retry,
                                       ![p].keep = keep, ![p].last = NoMessage]
    BY DEF StartSummary
  <1> DEFINE call == [prompts[p] EXCEPT !.at = "compact", !.retry = retry, !.keep = keep,
                                        !.last = NoMessage]
  <1>2. prompts[p] \in CallType /\ ShapeOf(prompts[p])
    BY Carried DEF Controlled, Typed, Shapes
  <1>3. prompts' = [prompts EXCEPT ![p] = call]
    BY <1>1 DEF Controlled, Typed, ContentsTyped
  <1>4. call.hands = <<>> /\ call.at # "hook" /\ call.pre = prompts[p].pre
        /\ call.message = prompts[p].message
    BY <1>2 DEF ShapeOf, CallType
  <1> HIDE DEF call
  <1> QED
    BY <1>3, <1>4, CallKinds DEF CallsOf, Controlled

LEMMA CheckCompactionKinds ==
    ASSUME Controlled, NEW n \in Nat, SessionOf(n), PendingOf(n), CallsOf(n),
           NEW p \in Prompters, prompts[p].at # "hook", NEW m, NEW skipAborted,
           CheckCompaction(p, m, skipAborted)
    PROVE  SessionOf(n)' /\ PendingOf(n)' /\ CallsOf(n)'
  <1>1. CASE Return(p, messages)
    BY <1>1, ReturnKinds DEF Controlled
  <1>2. CASE /\ StartSummary(p, TRUE) \/ StartSummary(p, FALSE)
             /\ UNCHANGED <<session, pendingBashMessages, pendingNextTurnMessages>>
    BY <1>2, StartSummaryKinds DEF SessionOf, PendingOf
  <1> QED
    BY <1>1, <1>2 DEF CheckCompaction

LEMMA AfterRunKinds ==
    ASSUME Controlled, NEW n \in Nat, SessionOf(n), PendingOf(n), CallsOf(n),
           NEW p \in Prompters, prompts[p].at = "run", AfterRun(p)
    PROVE  SessionOf(n)' /\ PendingOf(n)' /\ CallsOf(n)'
  <1> DEFINE m == lastAssistantMessage
  <1>1. CASE Return(p, messages)
    BY <1>1, ReturnKinds DEF Controlled
  <1>2. CASE Paused(p, m)
    <2> DEFINE call == [prompts[p] EXCEPT !.at = "retry", !.last = m]
    <2>1. prompts[p] \in CallType /\ ShapeOf(prompts[p])
      BY Carried DEF Controlled, Typed, Shapes
    <2>2. prompts' = [prompts EXCEPT ![p] = call]
      BY <1>2 DEF Paused, Controlled, Typed, ContentsTyped
    <2>3. call.hands = <<>> /\ call.at # "hook" /\ call.pre = prompts[p].pre
          /\ call.message = prompts[p].message
      BY <2>1 DEF ShapeOf, CallType
    <2> HIDE DEF call
    <2>4. CallsOf(n)'
      BY <2>2, <2>3, CallKinds DEF CallsOf, Controlled
    <2> QED
      BY <1>2, <2>4 DEF Paused, SessionOf, PendingOf
  <1>3. CASE CheckCompaction(p, m, TRUE)
    BY <1>3, CheckCompactionKinds
  <1> QED
    BY <1>1, <1>2, <1>3 DEF AfterRun, Paused

\* Messages that end: what the session holds afterwards.
LEMMA EmitKinds ==
    ASSUME NEW n \in Nat, SessionOf(n), NEW kinds, "summary" \notin kinds,
           NEW ms \in Seq(MessagesOf(kinds, n)), Emit(ms)
    PROVE  SessionOf(n)'
  <1>1. ms \in Seq(EntriesOf(n)) /\ session \in Seq(EntriesOf(n))
    BY KindsGrow DEF SessionOf
  <1>2. session \o ms \in Seq(EntriesOf(n))
    BY <1>1, ConcatTyped
  <1> QED
    BY <1>1, <1>2 DEF Emit, SessionOf

\* The loop's hands hold messages of the past, and no replies.
LEMMA HandsKinds ==
    ASSUME NEW n \in Nat, HandsOf(n)
    PROVE  hands \in Seq(MessagesOf(Client \union {"result"}, n))
  <1>1. CASE at = "inject"
    <2>1. Client \subseteq Client \union {"result"}
      OBVIOUS
    <2>2. hands \in Seq(MessagesOf(Client, n))
      BY <1>1 DEF HandsOf
    <2> QED
      BY <2>1, <2>2, KindsGrow
  <1>2. CASE at = "tools"
    <2>1. PICK m \in MessagesOf({"result"}, n) : hands = <<m>>
      BY <1>2 DEF HandsOf
    <2>2. m \in MessagesOf(Client \union {"result"}, n)
      BY DEF MessagesOf
    <2> QED
      BY <2>1, <2>2
  <1>3. CASE at \notin {"inject", "tools"}
    <2>1. hands = <<>>
      BY <1>3 DEF HandsOf
    <2> QED
      BY <2>1, EmptySeq
  <1> QED
    BY <1>1, <1>2, <1>3

LEMMA TurnOverKinds ==
    ASSUME NEW n \in Nat, QueuesOf(n), NEW hadCalls, TurnOver(hadCalls)
    PROVE  QueuesOf(n)' /\ HandsOf(n)'
  <1>1. /\ FirstOf(steeringQueue) \in Seq(MessagesOf(Client, n))
        /\ RestOf(steeringQueue) \in Seq(MessagesOf(Client, n))
        /\ FirstOf(followUpQueue) \in Seq(MessagesOf(Client, n))
        /\ RestOf(followUpQueue) \in Seq(MessagesOf(Client, n))
    BY QueueKinds
  <1>2. QueuesOf(n)'
    BY <1>1 DEF TurnOver, QueuesOf
  <1>3. HandsOf(n)'
    BY <1>1 DEF TurnOver, HandsOf
  <1> QED
    BY <1>2, <1>3

\* A new message is of its time.
LEMMA NewMessageKinds ==
    ASSUME events \in Nat, NEW kind \in Kinds \ {"summary"}, NEW n \in Nat, n = events + 1
    PROVE  Message(kind) \in MessagesOf({kind}, n) /\ Message(kind) \in EntriesOf(n)
  BY DEF Message, MessagesOf, EntriesOf, EntryType, MessageType

LEMMA InjectKinds ==
    ASSUME Controlled, NEW n \in Nat, KindedUpto(n), Inject
    PROVE  KindedUpto(n)'
  <1>1. hands \in Seq(MessagesOf(Client, n)) /\ Emit(hands) /\ "summary" \notin Client
    BY DEF KindedUpto, HandsOf, Inject, Client
  <1>2. SessionOf(n)'
    BY <1>1, EmitKinds DEF KindedUpto
  <1>3. /\ FirstOf(steeringQueue) \in Seq(MessagesOf(Client, n))
        /\ RestOf(steeringQueue) \in Seq(MessagesOf(Client, n))
    BY QueueKinds DEF KindedUpto
  <1>4. <<>> \in Seq(MessagesOf(Client, n))
    OBVIOUS
  <1>5. QueuesOf(n)' /\ HandsOf(n)'
    BY <1>3, <1>4 DEF Inject, KindedUpto, QueuesOf, HandsOf
  <1>6. PendingOf(n)' /\ CallsOf(n)' /\ SentOf(n)'
    BY DEF Inject, KindedUpto, PendingOf, CallsOf, SentOf
  <1> QED
    BY <1>2, <1>5, <1>6 DEF KindedUpto

LEMMA ToolsEndKinds ==
    ASSUME Controlled, NEW n \in Nat, KindedUpto(n), ToolsEnd
    PROVE  KindedUpto(n)'
  <1>1. hands \in Seq(MessagesOf(Client \union {"result"}, n)) /\ Emit(hands) /\ TurnOver(TRUE)
        /\ "summary" \notin Client \union {"result"}
    BY HandsKinds DEF KindedUpto, ToolsEnd, Client
  <1>2. SessionOf(n)'
    BY <1>1, EmitKinds DEF KindedUpto
  <1>3. QueuesOf(n)' /\ HandsOf(n)'
    BY <1>1, TurnOverKinds DEF KindedUpto
  <1>4. PendingOf(n)' /\ CallsOf(n)' /\ SentOf(n)'
    BY DEF ToolsEnd, KindedUpto, PendingOf, CallsOf, SentOf
  <1> QED
    BY <1>2, <1>3, <1>4 DEF KindedUpto

LEMMA ReplyKinds ==
    ASSUME Controlled, NEW n \in Nat, KindedUpto(n), NEW kind \in Replies, Reply(kind),
           n = events + 1
    PROVE  KindedUpto(n)'
  <1>1. events \in Nat /\ kind \in Kinds \ {"summary"} /\ "result" \in Kinds \ {"summary"}
    BY DEF Kinds, Replies, Controlled, Typed, RestTyped
  <1>2. Message(kind) \in MessagesOf({kind}, n) /\ Message("result") \in MessagesOf({"result"}, n)
    BY <1>1, NewMessageKinds
  <1>3. <<Message(kind)>> \in Seq(MessagesOf({kind}, n)) /\ "summary" \notin {kind}
    BY <1>1, <1>2
  <1>4. SessionOf(n)'
    BY <1>3, EmitKinds DEF KindedUpto, Reply
  <1>5. QueuesOf(n)' /\ HandsOf(n)'
    <2>1. CASE TurnOver(FALSE)
      BY <2>1, TurnOverKinds DEF KindedUpto
    <2>2. CASE /\ at' = "tools" /\ hands' = <<Message("result")>>
               /\ UNCHANGED <<steeringQueue, followUpQueue>>
      BY <1>2, <2>2 DEF KindedUpto, QueuesOf, HandsOf
    <2>3. CASE at' = "end" /\ UNCHANGED <<hands, steeringQueue, followUpQueue>>
      BY <2>3 DEF KindedUpto, QueuesOf, HandsOf, Reply
    <2> QED
      BY <2>1, <2>2, <2>3 DEF Reply, Replies
  <1>6. PendingOf(n)' /\ CallsOf(n)' /\ SentOf(n)'
    BY DEF Reply, KindedUpto, PendingOf, CallsOf, SentOf
  <1> QED
    BY <1>4, <1>5, <1>6 DEF KindedUpto

LEMMA FinishRunKinds ==
    ASSUME Controlled, NEW n \in Nat, KindedUpto(n), FinishRun
    PROVE  KindedUpto(n)'
  <1>1. PICK p \in Prompters : prompts[p].at = "run" /\ AfterRun(p)
    BY DEF FinishRun
  <1>2. SessionOf(n)' /\ PendingOf(n)' /\ CallsOf(n)'
    BY <1>1, AfterRunKinds DEF KindedUpto
  <1>3. QueuesOf(n)' /\ HandsOf(n)' /\ SentOf(n)'
    BY DEF FinishRun, KindedUpto, QueuesOf, HandsOf, SentOf
  <1> QED
    BY <1>2, <1>3 DEF KindedUpto

LEMMA CallStepsKinds ==
    ASSUME Controlled, NEW n \in Nat, KindedUpto(n), n = events, NEW p \in Prompters,
           \/ Preflight(p) \/ Submit(p) \/ PauseEnds(p) \/ PauseAborted(p)
           \/ Summarized(p) \/ SummaryFails(p) \/ Resume(p)
    PROVE  KindedUpto(n)'
  <1>1. ASSUME SessionOf(n)' /\ PendingOf(n)' /\ CallsOf(n)', UNCHANGED agentVars, sent' = sent
        PROVE  KindedUpto(n)'
    BY <1>1 DEF KindedUpto, QueuesOf, HandsOf, SentOf, agentVars
  <1>2. CASE Preflight(p)
    <2>1. SessionOf(n)' /\ PendingOf(n)' /\ CallsOf(n)'
      BY <1>2, ReturnKinds, CheckCompactionKinds DEF Preflight, KindedUpto, Controlled
    <2> QED
      BY <1>1, <1>2, <2>1 DEF Preflight, historyVars
  <1>3. CASE Submit(p)
    <2>1. CASE activeRun = "none"
      <3>1. StartRun(p, prompts[p].hands, TRUE)
            /\ UNCHANGED <<session, pendingBashMessages, pendingNextTurnMessages, sent>>
            /\ UNCHANGED <<steeringQueue, followUpQueue>>
        BY <1>3, <2>1 DEF Submit
      <3>2. prompts[p].hands \in Seq(MessagesOf(Client, n))
        BY DEF KindedUpto, CallsOf
      <3>3. CallsOf(n)' /\ HandsOf(n)'
        BY <3>1, <3>2, StartRunKinds DEF KindedUpto, Controlled
      <3> QED
        BY <3>1, <3>3 DEF KindedUpto, QueuesOf, PendingOf, SessionOf, SentOf
    <2>2. CASE activeRun # "none"
      <3>1. Reject(p, messages) /\ UNCHANGED <<at, hands, steeringQueue, followUpQueue>>
        BY <1>3, <2>2 DEF Submit
      <3>2. SessionOf(n)' /\ PendingOf(n)' /\ CallsOf(n)' /\ SentOf(n)'
        BY <3>1, RejectKinds DEF KindedUpto, Controlled
      <3> QED
        BY <3>1, <3>2 DEF KindedUpto, QueuesOf, HandsOf
    <2> QED
      BY <2>1, <2>2
  <1>4. CASE PauseEnds(p)
    BY <1>4, ContinueKinds DEF PauseEnds, Controlled
  <1>5. CASE PauseAborted(p)
    <2>1. SessionOf(n)' /\ PendingOf(n)' /\ CallsOf(n)'
      BY <1>5, CheckCompactionKinds DEF PauseAborted, KindedUpto
    <2> QED
      BY <1>1, <1>5, <2>1 DEF PauseAborted, historyVars
  <1>6. CASE Summarized(p)
    <2> DEFINE call == [prompts[p] EXCEPT !.at = "compacted", !.keep = 0]
    <2>1. prompts[p] \in CallType /\ ShapeOf(prompts[p]) /\ prompts[p].at = "compact"
          /\ prompts[p].keep \in Nat \ {0}
      BY <1>6, Carried DEF Typed, Shapes, Controlled, Summarized, CallType
    <2>2. prompts' = [prompts EXCEPT ![p] = call]
      BY <1>6 DEF Summarized, Controlled, Typed, ContentsTyped
    <2>3. call.hands = <<>> /\ call.at # "hook" /\ call.pre = prompts[p].pre
          /\ call.message = prompts[p].message
      BY <2>1 DEF ShapeOf, CallType
    <2> HIDE DEF call
    <2>4. CallsOf(n)'
      BY <2>2, <2>3, CallKinds DEF CallsOf, KindedUpto, Controlled
    <2>5. Compaction(prompts[p].keep) \in EntriesOf(n)
      BY <2>1 DEF Compaction, EntriesOf, EntryType
    <2>6. SessionOf(n)'
      BY <1>6, <2>5, AppendProperties DEF Summarized, Compacted, SessionOf, KindedUpto
    <2>7. PendingOf(n)' /\ QueuesOf(n)' /\ HandsOf(n)' /\ SentOf(n)'
      BY <1>6 DEF Summarized, KindedUpto, PendingOf, QueuesOf, HandsOf, SentOf, agentVars
    <2> QED
      BY <2>4, <2>6, <2>7 DEF KindedUpto
  <1>7. CASE SummaryFails(p)
    <2>1. SessionOf(n)' /\ PendingOf(n)' /\ CallsOf(n)'
      BY <1>7, ReturnKinds DEF SummaryFails, KindedUpto, Controlled
    <2> QED
      BY <1>1, <1>7, <2>1 DEF SummaryFails, historyVars
  <1>8. CASE Resume(p)
    <2>1. CASE Continue(p, WithoutLastError) \/ Continue(p, messages)
      BY <2>1, ContinueKinds DEF Controlled
    <2>2. CASE /\ Return(p, messages)
               /\ UNCHANGED <<agentVars, staleContext, recoveries, refused, sent>>
      <3>1. SessionOf(n)' /\ PendingOf(n)' /\ CallsOf(n)'
        BY <2>2, ReturnKinds DEF KindedUpto, Controlled
      <3> QED
        BY <1>1, <2>2, <3>1
    <2> QED
      BY <1>8, <2>1, <2>2 DEF Resume
  <1> QED
    BY <1>2, <1>3, <1>4, <1>5, <1>6, <1>7, <1>8

LEMMA AbortRetryKinds ==
    ASSUME Controlled, NEW n \in Nat, CallsOf(n), AbortRetry
    PROVE  CallsOf(n)'
  <1> SUFFICES ASSUME NEW q \in Prompters
               PROVE  /\ prompts'[q].hands \in Seq(MessagesOf(Client, n))
                      /\ prompts'[q].at = "hook" => prompts'[q].hands # <<>>
                      /\ prompts'[q].pre # "no" => prompts'[q].message \in MessagesOf({"user"}, n)
    BY DEF CallsOf
  <1>1. \/ prompts'[q] = prompts[q]
        \/ prompts[q].at = "retry" /\ prompts'[q] = [prompts[q] EXCEPT !.at = "cancelled"]
    BY AbortRetryMoves DEF Controlled
  <1>2. prompts[q] \in CallType
    BY Carried DEF Controlled, Typed
  <1> QED
    BY <1>1, <1>2 DEF CallsOf, CallType

LEMMA ClientStepsKinds ==
    ASSUME Controlled, NEW n \in Nat, KindedUpto(n), n = events + 1, ClientStep
    PROVE  KindedUpto(n)'
  <1>0. events \in Nat /\ {"user", "custom", "bash"} \subseteq Kinds \ {"summary"} /\ n \in 1..n
    BY DEF Controlled, Typed, RestTyped, Kinds
  <1>1. /\ Message("user") \in MessagesOf({"user"}, n) /\ Message("custom") \in MessagesOf({"custom"}, n)
        /\ Message("bash") \in MessagesOf({"bash"}, n) /\ Message("bash") \in EntriesOf(n)
    BY <1>0, NewMessageKinds
  <1>2. CASE Compact \/ Abort
    <2>1. AbortRetry
      BY <1>2 DEF Compact, Abort, AbortRun
    <2>2. CallsOf(n)'
      BY <2>1, AbortRetryKinds DEF KindedUpto
    <2>3. QueuesOf(n)' /\ PendingOf(n)' /\ HandsOf(n)' /\ SessionOf(n)' /\ SentOf(n)'
      BY <1>2 DEF Compact, Abort, KindedUpto, QueuesOf, PendingOf, HandsOf, SessionOf, SentOf,
                  historyVars
    <2> QED
      BY <2>2, <2>3 DEF KindedUpto
  <1>3. CASE Steer \/ FollowUp \/ QueueCustom
    <2>1. ASSUME NEW kind \in Client
          PROVE  /\ Append(steeringQueue, Message(kind)) \in Seq(MessagesOf(Client, n))
                 /\ Append(followUpQueue, Message(kind)) \in Seq(MessagesOf(Client, n))
      <3>1. Message(kind) \in MessagesOf(Client, n)
        BY <1>1, <2>1 DEF MessagesOf, Client
      <3> QED
        BY <3>1, AppendProperties DEF KindedUpto, QueuesOf
    <2>2. QueuesOf(n)' /\ SentOf(n)'
      BY <1>0, <1>3, <2>1 DEF Steer, FollowUp, QueueCustom, KindedUpto, QueuesOf, SentOf, Client
    <2>3. PendingOf(n)' /\ CallsOf(n)' /\ HandsOf(n)' /\ SessionOf(n)'
      BY <1>3 DEF Steer, FollowUp, QueueCustom, KindedUpto, PendingOf, CallsOf, HandsOf, SessionOf
    <2> QED
      BY <2>2, <2>3 DEF KindedUpto
  <1>5. CASE NextTurn
    <2>1. Append(pendingNextTurnMessages, Message("custom")) \in Seq(MessagesOf({"custom"}, n))
      BY <1>1, AppendProperties DEF KindedUpto, PendingOf
    <2>2. PendingOf(n)' /\ SentOf(n)'
      BY <1>0, <1>5, <2>1 DEF NextTurn, KindedUpto, PendingOf, SentOf
    <2>3. QueuesOf(n)' /\ CallsOf(n)' /\ HandsOf(n)' /\ SessionOf(n)'
      BY <1>5 DEF NextTurn, KindedUpto, QueuesOf, CallsOf, HandsOf, SessionOf, agentVars
    <2> QED
      BY <2>2, <2>3 DEF KindedUpto
  <1>6. CASE ClearQueue
    <2>1. <<>> \in Seq(MessagesOf(Client, n))
      OBVIOUS
    <2>2. QueuesOf(n)' /\ SentOf(n)'
      BY <1>6, <2>1 DEF ClearQueue, KindedUpto, QueuesOf, SentOf
    <2>3. PendingOf(n)' /\ CallsOf(n)' /\ HandsOf(n)' /\ SessionOf(n)'
      BY <1>6 DEF ClearQueue, KindedUpto, PendingOf, CallsOf, HandsOf, SessionOf
    <2> QED
      BY <2>2, <2>3 DEF KindedUpto
  <1>7. CASE RecordBash
    <2>1. Append(pendingBashMessages, Message("bash")) \in Seq(MessagesOf({"bash"}, n))
      BY <1>1, AppendProperties DEF KindedUpto, PendingOf
    <2>2. Append(session, Message("bash")) \in Seq(EntriesOf(n))
      BY <1>1, AppendProperties DEF KindedUpto, SessionOf
    <2>3. PendingOf(n)' /\ SessionOf(n)'
      BY <1>7, <2>1, <2>2 DEF RecordBash, KindedUpto, PendingOf, SessionOf
    <2>4. QueuesOf(n)' /\ CallsOf(n)' /\ HandsOf(n)' /\ SentOf(n)'
      BY <1>7 DEF RecordBash, KindedUpto, QueuesOf, CallsOf, HandsOf, SentOf, agentVars, historyVars
    <2> QED
      BY <2>3, <2>4 DEF KindedUpto
  <1>8. ASSUME NEW p \in Prompters, Prompt(p)
        PROVE  KindedUpto(n)'
    <2> DEFINE shown == messages \o pendingBashMessages
               last == IF Holds(shown, Replies) THEN shown[Max(IndicesOf(shown, Replies))]
                       ELSE NoMessage
               call == [Idle EXCEPT !.at = "checks", !.pre = "check",
                                    !.message = Message("user"), !.last = last]
    <2>1. FlushBash(messages) /\ prompts' = [prompts EXCEPT ![p] = call]
          /\ sent' = sent \union {events + 1} /\ UNCHANGED <<agentVars, pendingNextTurnMessages>>
      BY <1>8 DEF Prompt
    <2> HIDE DEF last
    <2>2. call.hands = <<>> /\ call.at # "hook" /\ call.message = Message("user")
      BY DEF Idle
    <2> HIDE DEF call
    <2>3. CallsOf(n)'
      BY <1>1, <2>1, <2>2, CallKinds DEF KindedUpto, Controlled
    <2>4. SessionOf(n)' /\ PendingOf(n)'
      BY <2>1, FlushKinds DEF KindedUpto, PendingOf
    <2>5. QueuesOf(n)' /\ HandsOf(n)' /\ SentOf(n)'
      BY <1>0, <2>1 DEF KindedUpto, QueuesOf, HandsOf, SentOf, agentVars
    <2> QED
      BY <2>3, <2>4, <2>5 DEF KindedUpto
  <1> QED
    BY <1>2, <1>3, <1>5, <1>6, <1>7, <1>8 DEF ClientStep

LEMMA CompactStepsKinds ==
    ASSUME Controlled, NEW n \in Nat, KindedUpto(n), n = events, CompactStep
    PROVE  KindedUpto(n)'
  <1>1. QueuesOf(n)' /\ PendingOf(n)' /\ CallsOf(n)' /\ HandsOf(n)' /\ SentOf(n)'
    BY DEF CompactStep, CompactReads, CompactSaves, CompactEnds, KindedUpto, QueuesOf, PendingOf,
           CallsOf, HandsOf, SentOf, agentVars, historyVars
  <1>2. SessionOf(n)'
    <2>1. CASE CompactReads \/ CompactEnds
      BY <2>1 DEF CompactReads, CompactEnds, KindedUpto, SessionOf
    <2>2. CASE CompactSaves
      <3>1. Compaction(manual.keep) \in EntriesOf(n)
        BY <2>2 DEF CompactSaves, Controlled, Typed, RestTyped, Compaction, EntriesOf, EntryType
      <3> QED
        BY <2>2, <3>1, AppendProperties DEF CompactSaves, Compacted, SessionOf, KindedUpto
    <2> QED
      BY <2>1, <2>2 DEF CompactStep
  <1> QED
    BY <1>1, <1>2 DEF KindedUpto

LEMMA StepKinds ==
    ASSUME Kinded, [Next]_vars, Controlled', NEW n \in Nat, n = events'
    PROVE  Kinded'
  <1>1. events \in Nat /\ events <= n
    BY EventsGrow DEF Kinded, Controlled, Typed, RestTyped
  <1>2. KindedUpto(n) /\ Controlled
    BY <1>1, UptoGrows DEF Kinded
  <1>3. KindedUpto(n)'
    <2>1. CASE RunStep
      <3>1. CASE Inject \/ ToolsEnd \/ FinishRun
        BY <1>2, <3>1, InjectKinds, ToolsEndKinds, FinishRunKinds
      <3>2. ASSUME NEW kind \in Replies, Reply(kind)
            PROVE  KindedUpto(n)'
        <4>1. n = events + 1
          BY <3>2 DEF Reply
        <4> QED
          BY <1>2, <3>2, <4>1, ReplyKinds
      <3> QED
        BY <2>1, <3>1, <3>2 DEF RunStep
    <2>2. ASSUME NEW p \in Prompters, PromptStep(p)
          PROVE  KindedUpto(n)'
      <3>1. n = events
        BY <2>2 DEF PromptStep, Preflight, Submit, PauseEnds, PauseAborted, Summarized,
                    SummaryFails, Resume, countVars
      <3> QED
        BY <1>2, <2>2, <3>1, CallStepsKinds DEF PromptStep
    <2>3. CASE CompactStep
      <3>1. n = events
        BY <2>3 DEF CompactStep, CompactReads, CompactSaves, CompactEnds, countVars
      <3> QED
        BY <1>2, <2>3, <3>1, CompactStepsKinds
    <2>4. CASE ClientStep
      <3>1. n = events + 1
        BY <2>4 DEF ClientStep, Compact, Abort, Steer, FollowUp, QueueCustom, NextTurn, ClearQueue,
                    RecordBash, Prompt, ClientCall
      <3> QED
        BY <1>2, <2>4, <3>1, ClientStepsKinds
    <2>5. CASE UNCHANGED vars
      BY <1>2, <2>5 DEF vars, agentVars, bashVars, historyVars, KindedUpto, QueuesOf, PendingOf,
                        CallsOf, HandsOf, SessionOf, SentOf
    <2> QED
      BY <2>1, <2>2, <2>3, <2>4, <2>5 DEF Next, InternalStep
  <1> QED
    BY <1>3 DEF Kinded, KindedUpto, QueuesOf, PendingOf, CallsOf, HandsOf, SessionOf, SentOf

LEMMA InitKinds ==
    ASSUME Init
    PROVE  KindedUpto(events)
  <1>1. \A R : <<>> \in Seq(R)
    BY EmptySeq
  <1>2. QueuesOf(events) /\ PendingOf(events) /\ HandsOf(events) /\ SessionOf(events)
    BY <1>1 DEF Init, QueuesOf, PendingOf, HandsOf, SessionOf
  <1>3. CallsOf(events) /\ SentOf(events)
    BY <1>1 DEF Init, CallsOf, SentOf, Idle
  <1> QED
    BY <1>2, <1>3 DEF KindedUpto

\* Each place holds messages of the kinds that belong there, of the past.
THEOREM KindInvariant == Spec => []Kinded
  <1>1. Init /\ Controlled => Kinded
    BY InitKinds DEF Kinded
  <1>2. Kinded /\ [Next]_vars /\ Controlled' => Kinded'
    <2> SUFFICES ASSUME Kinded, [Next]_vars, Controlled'
                 PROVE  Kinded'
      OBVIOUS
    <2>1. events' \in Nat
      BY EventsGrow DEF Kinded, Controlled
    <2> QED
      BY <2>1, StepKinds
  <1> QED
    BY <1>1, <1>2, ControlInvariant, PTL DEF Spec

-----------------------------------------------------------------------------
\* While nothing overlaps.

\* What overlapped once has overlapped.
LEMMA OverlapStays ==
    ASSUME [Next]_vars, overlapped
    PROVE  overlapped'
  <1>1. CASE RunStep
    BY <1>1 DEF RunStep, Inject, ToolsEnd, FinishRun, Reply
  <1>2. ASSUME NEW p \in Prompters, PromptStep(p)
        PROVE  overlapped'
    BY <1>2 DEF PromptStep, Preflight, Submit, PauseEnds, PauseAborted, Summarized,
                SummaryFails, Resume, historyVars
  <1>3. CASE CompactStep
    BY <1>3 DEF CompactStep, CompactReads, CompactSaves, CompactEnds, historyVars
  <1>4. CASE ClientStep
    BY <1>4 DEF ClientStep, Compact, Abort, Steer, FollowUp, QueueCustom, NextTurn, ClearQueue,
                RecordBash, Prompt, historyVars
  <1>5. CASE UNCHANGED vars
    BY <1>5 DEF vars, historyVars
  <1> QED
    BY <1>1, <1>2, <1>3, <1>4, <1>5 DEF Next, InternalStep

\* A run is under way alone.
LEMMA RunAlone ==
    ASSUME Controlled, ~overlapped, activeRun # "none"
    PROVE  \A q \in Prompters : prompts[q].at \in {"idle", "run"} /\ ~prompts[q].retry
  <1>1. PICK p \in Prompters : prompts[p].at = "run"
    BY DEF Controlled, RunOwned
  <1>2. \A q \in Prompters : prompts[q].at \in {"idle", "run"}
    BY <1>1 DEF Controlled, Alone
  <1> QED
    BY <1>2, Carried DEF Controlled, Shapes, ShapeOf, Typed, CallType

\* A call between runs is under way alone.
LEMMA CallAlone ==
    ASSUME Controlled, ~overlapped, NEW p \in Prompters, prompts[p].at \notin {"idle", "run"}
    PROVE  /\ activeRun = "none" /\ at = "off" /\ manual.at = "idle"
           /\ \A q \in Prompters \ {p} : prompts[q] = Idle
  <1>1. \A q \in Prompters \ {p} : prompts[q].at = "idle"
    BY DEF Controlled, Alone
  <1>2. activeRun = "none"
    BY <1>1 DEF Controlled, RunOwned
  <1>3. manual.at = "idle"
    BY DEF Controlled, Alone
  <1> QED
    BY <1>1, <1>2, <1>3 DEF Controlled, Typed, LoopTyped, Shapes, ShapeOf

\* The loop is at an await exactly while a run is active.
LEMMA LoopActive ==
    ASSUME Controlled, at # "off"
    PROVE  activeRun # "none"
  BY DEF Controlled, Typed, LoopTyped

-----------------------------------------------------------------------------
\* Overflows are recovered from once.

RecoveryInv ==
    ~overlapped =>
        /\ (\E p \in Prompters : prompts[p].retry) => overflowRecoveryAttempted /\ recoveries = 0
        /\ ~overflowRecoveryAttempted => recoveries = 0
        /\ recoveries <= 1
NoNewRetry == \A q \in Prompters : prompts'[q].retry => prompts[q].retry

\* A step that does not touch these.
LEMMA RecoveryKept ==
    ASSUME Controlled, RecoveryInv, overlapped => overlapped', NoNewRetry,
           UNCHANGED <<overflowRecoveryAttempted, recoveries>>
    PROVE  RecoveryInv'
  BY DEF RecoveryInv, NoNewRetry

LEMMA NoRetryAdded ==
    ASSUME Controlled, NEW p \in Prompters, NEW places, Moves(p, places),
           "compact" \notin places, "compacted" \notin places
    PROVE  NoNewRetry /\ ~prompts'[p].retry
  BY DEF Moves, ShapeOf, NoNewRetry

LEMMA CheckCompactionRecovery ==
    ASSUME Controlled, RecoveryInv, overlapped => overlapped', NEW p \in Prompters,
           prompts[p].at \notin {"idle", "hook"}, NEW m, NEW skipAborted,
           CheckCompaction(p, m, skipAborted), recoveries' = recoveries
    PROVE  RecoveryInv'
  <1>1. CASE Return(p, messages) /\ UNCHANGED overflowRecoveryAttempted
    <2>1. NoNewRetry
      BY <1>1, ReturnMoves, NoRetryAdded DEF Controlled
    <2> QED
      BY <1>1, <2>1, RecoveryKept
  <1>2. CASE ~overflowRecoveryAttempted /\ overflowRecoveryAttempted' = TRUE
    BY <1>2 DEF RecoveryInv
  <1>3. CASE StartSummary(p, FALSE) /\ UNCHANGED overflowRecoveryAttempted
    <2>1. Moves(p, {"compact"}) /\ prompts'[p].retry = FALSE
      BY <1>3, StartSummaryMoves DEF Controlled
    <2>2. NoNewRetry
      BY <2>1 DEF Moves, NoNewRetry
    <2> QED
      BY <1>3, <2>2, RecoveryKept
  <1> QED
    BY <1>1, <1>2, <1>3 DEF CheckCompaction

LEMMA ContinueRecovery ==
    ASSUME Controlled, RecoveryInv, overlapped => overlapped', NEW p \in Prompters,
           prompts[p].at \notin {"idle", "run"}, NEW transcript, Continue(p, transcript),
           UNCHANGED overflowRecoveryAttempted
    PROVE  RecoveryInv'
  <1>1. Moves(p, {"idle"}) \/ Moves(p, {"run"})
    BY ContinueMoves DEF Controlled
  <1>2. NoNewRetry /\ ~prompts'[p].retry
    BY <1>1, NoRetryAdded
  <1>3. CASE recoveries' = recoveries
    BY <1>2, <1>3, RecoveryKept
  <1>4. CASE prompts[p].retry /\ recoveries' = recoveries + 1
    <2> SUFFICES ASSUME ~overlapped
                 PROVE  RecoveryInv'
      BY DEF RecoveryInv
    <2>1. overflowRecoveryAttempted /\ recoveries = 0
      BY <1>4 DEF RecoveryInv
    <2>2. \A q \in Prompters : ~prompts'[q].retry
      <3>1. \A q \in Prompters \ {p} : prompts[q] = Idle
        BY CallAlone
      <3> QED
        BY <1>2, <3>1 DEF NoNewRetry, Idle
    <2> QED
      BY <1>4, <2>1, <2>2 DEF RecoveryInv
  <1>5. recoveries' = recoveries \/ (prompts[p].retry /\ recoveries' = recoveries + 1)
    <2>1. recoveries \in Nat
      BY DEF Controlled, Typed, RetryTyped
    <2>2. Refused(p, transcript) => recoveries' = recoveries
      BY DEF Refused
    <2>3. Continued(p, transcript) => recoveries' = recoveries + (IF prompts[p].retry THEN 1 ELSE 0)
      BY DEF Continued
    <2>4. Refused(p, transcript) \/ Continued(p, transcript)
      BY ContinueCases DEF ContinuedWithNothing, ContinuedWithSteering, ContinuedWithFollowUp,
                           Controlled, Typed
    <2> QED
      BY <2>1, <2>2, <2>3, <2>4
  <1> QED
    BY <1>3, <1>4, <1>5

LEMMA StepRecovery ==
    ASSUME Controlled, RecoveryInv, [Next]_vars
    PROVE  RecoveryInv'
  <1>0. overlapped => overlapped'
    BY OverlapStays
  <1>1. CASE RunStep
    <2>1. ASSUME at # "off", prompts' = prompts, overlapped' = overlapped,
                 ~overflowRecoveryAttempted => ~overflowRecoveryAttempted',
                 recoveries' \in {0, recoveries},
                 overflowRecoveryAttempted /\ ~overflowRecoveryAttempted' => recoveries' = 0
          PROVE  RecoveryInv'
      <3> SUFFICES ASSUME ~overlapped
                   PROVE  RecoveryInv'
        BY <2>1 DEF RecoveryInv
      <3>1. \A q \in Prompters : ~prompts[q].retry
        BY <2>1, LoopActive, RunAlone
      <3> QED
        BY <2>1, <3>1 DEF RecoveryInv
    <2>2. CASE Inject
      BY <2>1, <2>2 DEF Inject
    <2>3. CASE ToolsEnd
      BY <2>1, <2>3 DEF ToolsEnd, retryVars
    <2>4. ASSUME NEW kind \in Replies, Reply(kind)
          PROVE  RecoveryInv'
      <3>1. overflowRecoveryAttempted /\ ~overflowRecoveryAttempted' => kind \notin Errors
        BY <2>4 DEF Reply, EndsRecovery
      <3> QED
        BY <2>1, <2>4, <3>1 DEF Reply
    <2>5. CASE FinishRun
      <3>1. PICK p \in Prompters : prompts[p].at = "run" /\ AfterRun(p)
        BY <2>5 DEF FinishRun
      <3>2. recoveries' = recoveries
        BY <2>5 DEF FinishRun
      <3>3. CASE CheckCompaction(p, lastAssistantMessage, TRUE)
        BY <1>0, <3>1, <3>2, <3>3, CheckCompactionRecovery
      <3>4. CASE Return(p, messages) /\ UNCHANGED retryVars
        <4>1. NoNewRetry
          BY <3>4, ReturnMoves, NoRetryAdded DEF Controlled
        <4> QED
          BY <1>0, <3>2, <3>4, <4>1, RecoveryKept DEF retryVars
      <3>5. CASE Paused(p, lastAssistantMessage)
        <4>1. prompts' = [prompts EXCEPT ![p].at = "retry", ![p].last = lastAssistantMessage]
              /\ UNCHANGED overflowRecoveryAttempted
          BY <3>5 DEF Paused
        <4>2. NoNewRetry
          BY <4>1, Carried DEF NoNewRetry, Controlled, Typed, ContentsTyped, CallType
        <4> QED
          BY <1>0, <3>2, <4>1, <4>2, RecoveryKept
      <3> QED
        BY <3>1, <3>3, <3>4, <3>5 DEF AfterRun, Paused
    <2> QED
      BY <1>1, <2>2, <2>3, <2>4, <2>5 DEF RunStep
  <1>2. ASSUME NEW p \in Prompters, PromptStep(p)
        PROVE  RecoveryInv'
    <2>1. CASE Preflight(p)
      <3>1. recoveries' = recoveries /\ prompts[p].at = "checks"
        BY <2>1 DEF Preflight, historyVars
      <3>2. CASE Return(p, messages) /\ UNCHANGED overflowRecoveryAttempted
        <4>1. NoNewRetry
          BY <3>2, ReturnMoves, NoRetryAdded DEF Controlled
        <4> QED
          BY <1>0, <3>1, <3>2, <4>1, RecoveryKept
      <3>3. CASE CheckCompaction(p, prompts[p].last, FALSE)
        BY <1>0, <3>1, <3>3, CheckCompactionRecovery
      <3> QED
        BY <2>1, <3>2, <3>3 DEF Preflight
    <2>2. CASE Submit(p)
      <3>1. UNCHANGED <<overflowRecoveryAttempted, recoveries>>
        BY <2>2 DEF Submit, retryVars
      <3>2. Moves(p, {"run"}) \/ Moves(p, {"idle"})
        BY <2>2, StartRunMoves, RejectMoves DEF Submit, Controlled
      <3> QED
        BY <1>0, <3>1, <3>2, NoRetryAdded, RecoveryKept
    <2>3. CASE PauseEnds(p)
      BY <1>0, <2>3, ContinueRecovery DEF PauseEnds
    <2>4. CASE PauseAborted(p)
      BY <1>0, <2>4, CheckCompactionRecovery DEF PauseAborted, historyVars
    <2>5. CASE Summarized(p)
      <3>1. prompts' = [prompts EXCEPT ![p].at = "compacted", ![p].keep = 0]
            /\ UNCHANGED <<overflowRecoveryAttempted, recoveries>>
        BY <2>5 DEF Summarized, retryVars
      <3>2. NoNewRetry
        BY <3>1, Carried DEF NoNewRetry, Controlled, Typed, ContentsTyped, CallType
      <3> QED
        BY <1>0, <3>1, <3>2, RecoveryKept
    <2>6. CASE SummaryFails(p)
      <3>1. NoNewRetry
        BY <2>6, ReturnMoves, NoRetryAdded DEF Controlled, SummaryFails
      <3> QED
        BY <1>0, <2>6, <3>1, RecoveryKept DEF SummaryFails, retryVars, historyVars
    <2>7. CASE Resume(p)
      <3>1. UNCHANGED overflowRecoveryAttempted /\ prompts[p].at = "compacted"
        BY <2>7 DEF Resume, retryVars
      <3>2. CASE Continue(p, WithoutLastError) \/ Continue(p, messages)
        BY <1>0, <3>1, <3>2, ContinueRecovery
      <3>3. CASE Return(p, messages) /\ recoveries' = recoveries
        BY <1>0, <3>1, <3>3, ReturnMoves, NoRetryAdded, RecoveryKept DEF Controlled
      <3> QED
        BY <2>7, <3>2, <3>3 DEF Resume
    <2> QED
      BY <1>2, <2>1, <2>2, <2>3, <2>4, <2>5, <2>6, <2>7 DEF PromptStep
  <1>3. CASE CompactStep
    <2>1. UNCHANGED <<overflowRecoveryAttempted, recoveries, prompts>>
      BY <1>3 DEF CompactStep, CompactReads, CompactSaves, CompactEnds, retryVars, historyVars
    <2> QED
      BY <1>0, <2>1, RecoveryKept DEF NoNewRetry
  <1>4. CASE ClientStep
    <2>1. UNCHANGED <<overflowRecoveryAttempted, recoveries>>
      BY <1>4 DEF ClientStep, Compact, Abort, Steer, FollowUp, QueueCustom, NextTurn, ClearQueue,
                  RecordBash, Prompt, retryVars, historyVars
    <2>2. NoNewRetry
      <3>1. CASE AbortRetry
        <4>1. ASSUME NEW q \in Prompters PROVE prompts'[q].retry => prompts[q].retry
          <5>1. prompts[q] \in CallType
            BY Carried DEF Controlled, Typed
          <5>2. \/ prompts'[q] = prompts[q]
                \/ prompts'[q] = [prompts[q] EXCEPT !.at = "cancelled"]
            BY <3>1, AbortRetryMoves DEF Controlled
          <5> QED
            BY <5>1, <5>2 DEF CallType
        <4> QED
          BY <4>1 DEF NoNewRetry
      <3>2. ASSUME NEW p \in Prompters, Prompt(p), ~Checking
            PROVE  NoNewRetry
        <4>1. Typed'
          BY <3>2, PromptTyped DEF Controlled
        <4> QED
          BY <3>2, <4>1, PromptControlled, NoRetryAdded
      <3>3. CASE prompts' = prompts
        BY <3>3 DEF NoNewRetry
      <3> QED
        BY <1>4, <3>1, <3>2, <3>3 DEF ClientStep, Compact, Abort, AbortRun, Steer, FollowUp, QueueCustom,
                  NextTurn, ClearQueue, RecordBash
    <2> QED
      BY <1>0, <2>1, <2>2, RecoveryKept
  <1>5. CASE UNCHANGED vars
    BY <1>5 DEF vars, retryVars, historyVars, RecoveryInv
  <1> QED
    BY <1>1, <1>2, <1>3, <1>4, <1>5 DEF Next, InternalStep

\* "Context overflow recovery failed after one compact-and-retry attempt": an
\* overflow is retried once, unless operations overlap.
THEOREM RecoveredOnceAlways == Spec => []RecoveredOnce
  <1>1. Init => RecoveryInv
    BY DEF Init, RecoveryInv, Idle
  <1>2. Controlled /\ RecoveryInv /\ [Next]_vars => RecoveryInv'
    BY StepRecovery
  <1>3. RecoveryInv => RecoveredOnce
    BY DEF RecoveryInv, RecoveredOnce
  <1> QED
    BY <1>1, <1>2, <1>3, ControlInvariant, PTL DEF Spec

-----------------------------------------------------------------------------
\* The last message of a transcript.

\* The last of what is appended is the last.
LEMMA LastKindAppend ==
    ASSUME NEW R, NEW s \in Seq(R), NEW e \in R
    PROVE  /\ LastKind(Append(s, e)) = e.kind /\ Append(s, e) # <<>>
           /\ Front(Append(s, e)) = s /\ s \o <<e>> = Append(s, e)
  <1> DEFINE t == Append(s, e)
  <1>1. t \in Seq(R) /\ Len(t) = Len(s) + 1 /\ t[Len(s) + 1] = e /\ Len(s) \in Nat
        /\ \A i \in 1..Len(s) : t[i] = s[i]
    BY AppendProperties, LenProperties
  <1> HIDE DEF t
  <1>2. t # <<>>
    BY <1>1, EmptySeq
  <1>3. LastKind(t) = e.kind
    BY <1>1, <1>2 DEF LastKind
  <1>4. Front(t) = s
    <2>1. /\ Front(t) \in Seq(R) /\ Len(Front(t)) = Len(t) - 1
          /\ \A i \in 1..(Len(t) - 1) : Front(t)[i] = t[i]
      BY <1>1, <1>2, FrontProperties
    <2>2. Len(Front(t)) = Len(s) /\ \A i \in 1..Len(s) : Front(t)[i] = s[i]
      BY <1>1, <2>1
    <2> QED
      BY <2>1, <2>2, SeqEqual
  <1>5. s \o <<e>> = Append(s, e)
    BY AppendIsConcat
  <1> QED
    BY <1>2, <1>3, <1>4, <1>5 DEF t

\* A transcript that a request can follow.
Continuable(s) == s # <<>> /\ LastKind(s) \notin Replies

LEMMA ContinuableAppend ==
    ASSUME NEW R, NEW s \in Seq(R), NEW e \in R, e.kind \notin Replies
    PROVE  Continuable(Append(s, e))
  BY LastKindAppend DEF Continuable

\* One message more after a concatenation.
LEMMA ConcatOfAppend ==
    \A R : \A s, u \in Seq(R), e \in R :
        s \o Append(u, e) = Append(s \o u, e) /\ s \o u \in Seq(R)
  <1> SUFFICES ASSUME NEW R, NEW s \in Seq(R), NEW u \in Seq(R), NEW e \in R
               PROVE  s \o Append(u, e) = Append(s \o u, e) /\ s \o u \in Seq(R)
    OBVIOUS
  <1> DEFINE w == s \o u
  <1>1. w \in Seq(R)
    BY ConcatProperties
  <1>2. <<e>> \in Seq(R)
    OBVIOUS
  <1>3. Append(u, e) = u \o <<e>>
    BY AppendIsConcat
  <1>4. Append(w, e) = w \o <<e>>
    <2> HIDE DEF w
    <2> QED
      BY <1>1, AppendIsConcat
  <1>5. (s \o u) \o <<e>> = s \o (u \o <<e>>)
    BY <1>2, Grouping
  <1> QED
    BY <1>1, <1>3, <1>4, <1>5

\* Messages of clients and results follow.
LEMMA ContinuableConcat ==
    ASSUME NEW s \in Seq(MessageType), NEW n \in Nat, NEW kinds, kinds \intersect Replies = {},
           NEW t \in Seq(MessagesOf(kinds, n)), t # <<>> \/ Continuable(s)
    PROVE  Continuable(s \o t)
  <1>1. CASE t = <<>>
    <2>1. s \o t = s
      BY <1>1, ConcatEmptySeq
    <2> QED
      BY <1>1, <2>1
  <1>2. CASE t # <<>>
    <2>1. PICK u \in Seq(MessagesOf(kinds, n)), e \in MessagesOf(kinds, n) : t = Append(u, e)
      BY <1>2, SequenceEmptyOrAppend
    <2>2. u \in Seq(MessageType) /\ e \in MessageType /\ e.kind \notin Replies
      <3>1. MessagesOf(kinds, n) \subseteq MessageType
        BY DEF MessagesOf
      <3>2. Seq(MessagesOf(kinds, n)) \subseteq Seq(MessageType)
        BY <3>1, SeqMonotonic
      <3> QED
        BY <3>1, <3>2 DEF MessagesOf
    <2>3. s \o t = Append(s \o u, e) /\ s \o u \in Seq(MessageType)
      BY <2>1, <2>2, ConcatOfAppend
    <2> DEFINE w == s \o u
    <2>4. w \in Seq(MessageType) /\ s \o t = Append(w, e)
      BY <2>3
    <2> HIDE DEF w
    <2>5. Continuable(Append(w, e))
      BY <2>2, <2>4, ContinuableAppend
    <2> QED
      BY <2>4, <2>5
  <1> QED
    BY <1>1, <1>2

-----------------------------------------------------------------------------
\* Retries are forgotten when they are over.

AttemptInv ==
    made["compact"] = 0 /\ ~overlapped =>
        /\ retryAttempt > 0 => \E p \in Prompters : prompts[p].at \in {"retry", "cancelled", "run"}
        /\ at = "end" =>
               /\ lastAssistantMessage.kind \in Replies
               /\ lastAssistantMessage.kind \notin Errors => retryAttempt = 0
               /\ messages # <<>> /\ LastKind(messages) \in Replies
               /\ Continuable(Front(messages))
        /\ at = "inject" => Continuable(messages \o hands)
        /\ at = "reply" => Continuable(messages)
        /\ \A p \in Prompters : prompts[p].at = "retry" => Continuable(messages)

\* No compact() has been made when none is made after a step.
LEMMA NoCompactBefore ==
    ASSUME Typed, [Next]_vars, made'["compact"] = 0
    PROVE  made["compact"] = 0 /\ ~Compact
  <1>0. made["compact"] \in Nat
    BY DEF Typed, RestTyped, Calls
  <1>1. \A c \in Calls : ClientCall(c) => made'["compact"] = IF c = "compact" THEN made["compact"] + 1
                                                         ELSE made["compact"]
    BY CallCounted DEF Typed, Calls
  <1>2. ~Compact
    BY <1>0, <1>1 DEF Compact, Calls
  <1>3. CASE UNCHANGED made
    BY <1>2, <1>3
  <1>4. CASE ClientStep
    <2>1. \E c \in Calls : ClientCall(c)
      BY <1>4 DEF ClientStep, Compact, Abort, Steer, FollowUp, QueueCustom, NextTurn, ClearQueue, RecordBash,
                  Prompt, Calls
    <2> QED
      BY <1>0, <1>1, <1>2, <2>1
  <1>5. RunStep => UNCHANGED made
    BY DEF RunStep, Inject, Reply, ToolsEnd, FinishRun, countVars
  <1>6. ASSUME NEW p \in Prompters, PromptStep(p)
        PROVE  UNCHANGED made
    BY <1>6 DEF PromptStep, Preflight, Submit, PauseEnds, PauseAborted, Summarized,
                SummaryFails, Resume, countVars
  <1>7. CompactStep => UNCHANGED made
    BY DEF CompactStep, CompactReads, CompactSaves, CompactEnds, countVars
  <1>8. UNCHANGED vars => UNCHANGED made
    BY DEF vars, countVars
  <1> QED
    BY <1>3, <1>4, <1>5, <1>6, <1>7, <1>8 DEF Next, InternalStep

\* A step of a call outside the run and the pause, which starts no run and no pause.
LEMMA CallAttempt ==
    ASSUME Kinded, AttemptInv, overlapped => overlapped', UNCHANGED made, NEW p \in Prompters,
           prompts[p].at \in {"checks", "hook", "compact", "compacted"},
           NEW places, Moves(p, places), "retry" \notin places,
           UNCHANGED <<retryAttempt, at>>
    PROVE  AttemptInv'
  <1> SUFFICES ASSUME made["compact"] = 0, ~overlapped
               PROVE  AttemptInv'
    BY DEF AttemptInv
  <1>1. at = "off" /\ \A q \in Prompters \ {p} : prompts[q] = Idle
    BY CallAlone DEF Kinded
  <1>2. retryAttempt = 0
    BY <1>1 DEF AttemptInv, Idle, Kinded, Controlled, Typed, RetryTyped
  <1>3. \A q \in Prompters : prompts'[q].at # "retry"
    BY <1>1 DEF Moves, Idle
  <1> QED
    BY <1>1, <1>2, <1>3 DEF AttemptInv

\* A step that starts a run.
LEMMA StartAttempt ==
    ASSUME Kinded, AttemptInv, overlapped => overlapped', UNCHANGED made, NEW p \in Prompters,
           prompts[p].at \notin {"idle", "run"}, Moves(p, {"run"}), at' = "inject",
           Continuable(messages' \o hands')
    PROVE  AttemptInv'
  <1> SUFFICES ASSUME made["compact"] = 0, ~overlapped
               PROVE  AttemptInv'
    BY DEF AttemptInv
  <1>1. \A q \in Prompters \ {p} : prompts[q] = Idle
    BY CallAlone DEF Kinded
  <1>2. prompts'[p].at = "run" /\ \A q \in Prompters : prompts'[q].at # "retry"
    BY <1>1 DEF Moves, Idle
  <1> QED
    BY <1>2 DEF AttemptInv

\* A continue() that starts a run has something to follow.
LEMMA ContinuedContinuable ==
    ASSUME Kinded, NEW p \in Prompters, NEW transcript \in Seq(MessageType),
           Continue(p, transcript), ~Refused(p, transcript)
    PROVE  Continuable(messages' \o hands') /\ at' = "inject" /\ Moves(p, {"run"})
  <1>0. QueuesOf(events) /\ events \in Nat /\ Client \intersect Replies = {}
    BY DEF Kinded, KindedUpto, Controlled, Typed, RestTyped, Replies, Client
  <1>1. FirstOf(steeringQueue) \in Seq(MessagesOf(Client, events))
        /\ FirstOf(followUpQueue) \in Seq(MessagesOf(Client, events))
    BY <1>0, QueueKinds
  <1>2. ASSUME NEW q, q # <<>>
        PROVE  FirstOf(q) # <<>>
    BY <1>2 DEF FirstOf
  <1>3. Controlled /\ Typed /\ Shapes
    BY DEF Kinded, Controlled
  <1>4. CASE ContinuedWithNothing(p, transcript)
    <2>1. messages' = transcript /\ hands' = <<>> /\ Continuable(transcript) /\ at' = "inject"
      BY <1>4 DEF ContinuedWithNothing, Continued, StartRun, Continuable
    <2>2. messages' \o hands' = transcript
      BY <2>1, ConcatEmptySeq
    <2> QED
      BY <1>3, <1>4, <2>1, <2>2, StartRunMoves DEF ContinuedWithNothing
  <1>5. CASE ContinuedWithSteering(p, transcript)
    <2>1. messages' = transcript /\ hands' = FirstOf(steeringQueue) /\ at' = "inject"
          /\ FirstOf(steeringQueue) # <<>>
      BY <1>2, <1>5 DEF ContinuedWithSteering, Continued, StartRun
    <2>2. Continuable(transcript \o FirstOf(steeringQueue))
      BY <1>0, <1>1, <2>1, ContinuableConcat
    <2> QED
      BY <1>3, <1>5, <2>1, <2>2, StartRunMoves DEF ContinuedWithSteering
  <1>6. CASE ContinuedWithFollowUp(p, transcript)
    <2>1. messages' = transcript /\ hands' = FirstOf(followUpQueue) /\ at' = "inject"
          /\ FirstOf(followUpQueue) # <<>>
      BY <1>2, <1>6 DEF ContinuedWithFollowUp, Continued, StartRun
    <2>2. Continuable(transcript \o FirstOf(followUpQueue))
      BY <1>0, <1>1, <2>1, ContinuableConcat
    <2> QED
      BY <1>3, <1>6, <2>1, <2>2, StartRunMoves DEF ContinuedWithFollowUp
  <1> QED
    BY <1>3, <1>4, <1>5, <1>6, ContinueCases DEF Typed

\* What the loop polled comes from a client.
LEMMA TurnOverContinuable ==
    ASSUME Kinded, NEW s \in Seq(MessageType), NEW hadCalls, TurnOver(hadCalls)
    PROVE  /\ at' = "inject" => Continuable(s \o hands')
           /\ at' \in {"inject", "reply", "end"}
           /\ at' = "reply" => hadCalls
           /\ at' = "end" => ~hadCalls
  <1>0. QueuesOf(events) /\ events \in Nat /\ Client \intersect Replies = {}
    BY DEF Kinded, KindedUpto, Controlled, Typed, RestTyped, Replies, Client
  <1>1. FirstOf(steeringQueue) \in Seq(MessagesOf(Client, events))
        /\ FirstOf(followUpQueue) \in Seq(MessagesOf(Client, events))
    BY <1>0, QueueKinds
  <1>2. hands' \in Seq(MessagesOf(Client, events)) /\ (at' = "inject" => hands' # <<>>)
    BY <1>1 DEF TurnOver
  <1>3. at' = "inject" => Continuable(s \o hands')
    BY <1>0, <1>2, ContinuableConcat
  <1> QED
    BY <1>3 DEF TurnOver

\* A step of the loop that appends messages.
LEMMA LoopAttempt ==
    ASSUME Kinded, AttemptInv, overlapped => overlapped', UNCHANGED made, at # "off",
           UNCHANGED prompts, retryAttempt' \in {0, retryAttempt},
           made["compact"] = 0 /\ ~overlapped =>
               /\ at' = "inject" => Continuable(messages' \o hands')
               /\ at' = "reply" => Continuable(messages')
               /\ at' = "end" =>
                      /\ lastAssistantMessage'.kind \in Replies
                      /\ lastAssistantMessage'.kind \notin Errors => retryAttempt' = 0
                      /\ messages' # <<>> /\ LastKind(messages') \in Replies
                      /\ Continuable(Front(messages'))
    PROVE  AttemptInv'
  <1> SUFFICES ASSUME made["compact"] = 0, ~overlapped
               PROVE  AttemptInv'
    BY DEF AttemptInv
  <1>1. \A q \in Prompters : prompts[q].at # "retry"
    BY LoopActive, RunAlone DEF Kinded
  <1>2. Front(messages)' = Front(messages')
    BY DEF Front
  <1> QED
    BY <1>1 DEF AttemptInv

\* What ends while the session listens.
LEMMA ListensWithoutCompact ==
    ASSUME Controlled, made["compact"] = 0
    PROVE  connected /\ manual.at = "idle" /\ ~missed
  BY DEF Controlled, ManualShape

LEMMA RunStepAttempt ==
    ASSUME Kinded, AttemptInv, overlapped => overlapped', RunStep
    PROVE  AttemptInv'
  <1>0. /\ messages \in Seq(MessageType) /\ events \in Nat /\ HandsOf(events)
        /\ QueuesOf(events) /\ Controlled /\ retryAttempt \in Nat
        /\ Client \intersect Replies = {}
    <2>1. HandsOf(events) /\ QueuesOf(events) /\ Controlled /\ Typed
      BY DEF Kinded, KindedUpto, Controlled
    <2>2. messages \in Seq(MessageType) /\ events \in Nat /\ retryAttempt \in 0..MaxRetries
      BY <2>1 DEF Typed, ContentsTyped, RestTyped, RetryTyped
    <2>3. retryAttempt \in Nat
      BY <2>2
    <2>4. Client \intersect Replies = {}
      BY DEF Replies, Client
    <2> QED
      BY <2>1, <2>2, <2>3, <2>4
  <1>1. CASE Inject
    <2> DEFINE polled == IF pollDue THEN FirstOf(steeringQueue) ELSE <<>>
    <2>1. /\ messages' = messages \o hands /\ hands' = polled
          /\ at' = IF polled # <<>> THEN "inject" ELSE "reply"
          /\ at = "inject" /\ UNCHANGED <<prompts, retryAttempt>> /\ UNCHANGED made
      BY <1>1 DEF Inject, Emit, countVars
    <2>2. polled \in Seq(MessagesOf(Client, events))
      <3>1. FirstOf(steeringQueue) \in Seq(MessagesOf(Client, events))
        BY <1>0, QueueKinds
      <3>2. <<>> \in Seq(MessagesOf(Client, events))
        OBVIOUS
      <3> QED
        BY <3>1, <3>2
    <2> HIDE DEF polled
    <2>3. messages' \in Seq(MessageType)
      <3>1. hands \in Seq(MessageType)
        BY <1>0 DEF Controlled, Typed, LoopTyped
      <3> QED
        BY <1>0, <2>1, <3>1, ConcatTyped
    <2>4. at' = "inject" => Continuable(messages' \o hands')
      BY <1>0, <2>1, <2>2, <2>3, ContinuableConcat
    <2>5. made["compact"] = 0 /\ ~overlapped /\ at' = "reply" => Continuable(messages')
      BY <2>1 DEF AttemptInv
    <2> QED
      BY <2>1, <2>4, <2>5, LoopAttempt
  <1>2. CASE ToolsEnd
    <2>1. /\ messages' = messages \o hands /\ at = "tools" /\ TurnOver(TRUE)
          /\ UNCHANGED <<prompts, retryAttempt>> /\ UNCHANGED made
      BY <1>2 DEF ToolsEnd, Emit, countVars, retryVars
    <2>2. PICK m \in MessagesOf({"result"}, events) : hands = <<m>>
      BY <1>0, <2>1 DEF HandsOf
    <2>3. m \in MessageType /\ m.kind \notin Replies
      BY DEF MessagesOf, Replies
    <2>4. messages' = Append(messages, m)
      BY <1>0, <2>1, <2>2, <2>3, LastKindAppend
    <2>5. messages' \in Seq(MessageType) /\ Continuable(messages')
      BY <1>0, <2>3, <2>4, AppendProperties, ContinuableAppend
    <2>6. /\ at' = "inject" => Continuable(messages' \o hands')
          /\ at' \in {"inject", "reply"}
      BY <2>1, <2>5, TurnOverContinuable
    <2> QED
      BY <2>1, <2>5, <2>6, LoopAttempt
  <1>3. ASSUME NEW kind \in Replies, Reply(kind)
        PROVE  AttemptInv'
    <2> DEFINE m == Message(kind)
    <2>1. /\ messages' = messages \o <<m>> /\ at = "reply" /\ UNCHANGED prompts /\ UNCHANGED made
          /\ retryAttempt' = IF connected /\ kind \notin Errors THEN 0 ELSE retryAttempt
          /\ lastAssistantMessage' = IF connected THEN m ELSE lastAssistantMessage
      BY <1>3 DEF Reply, Emit
    <2>2. m \in MessageType /\ m.kind = kind
      BY <1>0, MessageTyped DEF Kinds, Message
    <2> HIDE DEF m
    <2>3. messages' = Append(messages, m) /\ messages' # <<>> /\ LastKind(messages') = kind
          /\ Front(messages') = messages /\ messages' \in Seq(MessageType)
      <3>1. messages \in Seq(MessageType) /\ m \in MessageType /\ m.kind = kind
        BY <1>0, <2>2
      <3>2. messages' = Append(messages, m)
        BY ONLY <2>1, <3>1, LastKindAppend
      <3>3. Append(messages, m) # <<>> /\ Append(messages, m) \in Seq(MessageType)
        BY ONLY <3>1, AppendProperties
      <3>4. LastKind(Append(messages, m)) = kind /\ Front(Append(messages, m)) = messages
        BY ONLY <3>1, LastKindAppend
      <3> QED
        BY <3>2, <3>3, <3>4
    <2>4. /\ at' = "inject" => Continuable(messages' \o hands')
          /\ at' \in {"inject", "tools", "end"}
      <3>1. CASE TurnOver(FALSE)
        BY <2>3, <3>1, TurnOverContinuable
      <3>2. CASE at' = "tools" \/ at' = "end"
        BY <3>2
      <3> QED
        BY <1>3, <3>1, <3>2 DEF Reply
    <2>5. made["compact"] = 0 /\ ~overlapped => connected /\ Continuable(messages)
      BY <1>0, <2>1, ListensWithoutCompact DEF AttemptInv
    <2> QED
      BY <2>1, <2>2, <2>3, <2>4, <2>5, LoopAttempt
  <1>4. CASE FinishRun
    <2> SUFFICES ASSUME made["compact"] = 0, ~overlapped
                 PROVE  AttemptInv'
      BY <1>4 DEF AttemptInv, FinishRun, countVars
    <2>1. PICK p \in Prompters : prompts[p].at = "run" /\ AfterRun(p)
      BY <1>4 DEF FinishRun
    <2>2. at = "end" /\ at' = "off" /\ UNCHANGED made
      BY <1>4 DEF FinishRun, countVars
    <2> DEFINE m == lastAssistantMessage
    <2>3. /\ m.kind \in Replies /\ (m.kind \notin Errors => retryAttempt = 0)
          /\ messages # <<>> /\ LastKind(messages) \in Replies /\ Continuable(Front(messages))
      BY <2>2 DEF AttemptInv
    <2>4. \A q \in Prompters \ {p} : prompts[q].at = "idle"
      BY <1>0, <2>1 DEF Controlled, Alone
    <2>5. Moves(p, {"idle", "hook", "compact", "retry"})
      BY <1>0, <2>1, AfterRunMoves DEF Controlled
    <2>6. \A q \in Prompters \ {p} : prompts'[q].at # "retry"
      BY <2>4, <2>5 DEF Moves
    <2>7. CASE Paused(p, m)
      <3>1. messages' = Front(messages) /\ prompts' = [prompts EXCEPT ![p].at = "retry", ![p].last = m]
        BY <2>3, <2>7 DEF Paused, WithoutLastReply
      <3>2. prompts'[p].at = "retry"
        BY <3>1, Carried DEF Controlled, Kinded, Typed, ContentsTyped, CallType
      <3> QED
        BY <2>2, <2>3, <3>1, <3>2 DEF AttemptInv
    <2>8. CASE /\ m # NoMessage /\ ~Retryable(m)
               /\ retryAttempt' = IF m.kind \in Errors THEN 0 ELSE retryAttempt
               /\ CheckCompaction(p, m, TRUE)
      <3>1. retryAttempt' = 0
        BY <2>3, <2>8
      <3>2. Moves(p, {"idle", "hook", "compact"})
        BY <1>0, <2>1, <2>8, CheckCompactionMoves DEF Controlled
      <3>3. prompts'[p].at # "retry"
        BY <3>2 DEF Moves
      <3> QED
        BY <2>2, <2>6, <3>1, <3>3 DEF AttemptInv
    <2>9. m # NoMessage
      BY <2>3 DEF NoMessage, Replies
    <2> QED
      BY <2>1, <2>7, <2>8, <2>9 DEF AfterRun, Paused
  <1> QED
    BY <1>1, <1>2, <1>3, <1>4 DEF RunStep

LEMMA PromptStepAttempt ==
    ASSUME Kinded, AttemptInv, overlapped => overlapped', NEW p \in Prompters, PromptStep(p)
    PROVE  AttemptInv'
  <1>0. /\ Controlled /\ Typed /\ Shapes /\ messages \in Seq(MessageType)
        /\ WithoutLastError \in Seq(MessageType)
        /\ events \in Nat /\ Client \intersect Replies = {}
    BY LastDropped DEF Kinded, Controlled, Typed, ContentsTyped, RestTyped, Client, Replies
  <1>1. CASE Preflight(p)
    <2>1. /\ prompts[p].at = "checks" /\ UNCHANGED <<retryAttempt, at>> /\ UNCHANGED made
      BY <1>1 DEF Preflight, agentVars, countVars
    <2>2. Moves(p, {"idle", "hook", "compact"})
      BY <1>0, <1>1, ReturnMoves, CheckCompactionMoves DEF Preflight, Moves
    <2> QED
      BY <2>1, <2>2, CallAttempt
  <1>2. CASE Submit(p)
    <2>1. prompts[p].at = "hook" /\ UNCHANGED retryAttempt /\ UNCHANGED made
      BY <1>2 DEF Submit, retryVars, countVars
    <2>2. CASE activeRun = "none"
      <3>1. StartRun(p, prompts[p].hands, TRUE) /\ UNCHANGED messages
        BY <1>2, <2>2 DEF Submit
      <3>2. at' = "inject" /\ hands' = prompts[p].hands /\ Moves(p, {"run"})
        BY <1>0, <3>1, StartRunMoves DEF StartRun
      <3>3. prompts[p].hands # <<>> /\ prompts[p].hands \in Seq(MessagesOf(Client, events))
        BY <2>1 DEF Kinded, KindedUpto, CallsOf
      <3>4. Continuable(messages \o prompts[p].hands)
        BY <1>0, <3>3, ContinuableConcat
      <3> QED
        BY <2>1, <3>1, <3>2, <3>4, StartAttempt
    <2>3. CASE activeRun # "none"
      <3>1. Moves(p, {"idle"}) /\ UNCHANGED at
        BY <1>0, <1>2, <2>3, RejectMoves DEF Submit
      <3> QED
        BY <2>1, <3>1, CallAttempt
    <2> QED
      BY <2>2, <2>3
  <1>3. CASE PauseEnds(p)
    <2> SUFFICES ASSUME made["compact"] = 0, ~overlapped
                 PROVE  AttemptInv'
      BY <1>3 DEF AttemptInv, PauseEnds, countVars
    <2>1. prompts[p].at = "retry" /\ Continue(p, messages) /\ UNCHANGED made
      BY <1>3 DEF PauseEnds, countVars
    <2>2. activeRun = "none" /\ Continuable(messages)
      BY <1>0, <2>1, CallAlone DEF AttemptInv
    <2>3. ~Refused(p, messages) \/ ContinuedWithNothing(p, messages)
      BY <2>1, <2>2 DEF Continue, Continuable, ContinuedWithNothing, Continued
    <2>4. Continuable(messages' \o hands') /\ at' = "inject" /\ Moves(p, {"run"})
      <3>1. CASE ~Refused(p, messages)
        BY <1>0, <2>1, <3>1, ContinuedContinuable
      <3>2. CASE ContinuedWithNothing(p, messages)
        <4>1. messages' = messages /\ hands' = <<>> /\ StartRun(p, <<>>, TRUE)
          BY <3>2 DEF ContinuedWithNothing, Continued, StartRun
        <4>2. messages' \o hands' = messages
          BY <1>0, <4>1, ConcatEmptySeq
        <4> QED
          BY <1>0, <2>2, <4>1, <4>2, StartRunMoves
      <3> QED
        BY <2>3, <3>1, <3>2
    <2> QED
      BY <2>1, <2>4, StartAttempt
  <1>4. CASE PauseAborted(p)
    <2> SUFFICES ASSUME made["compact"] = 0, ~overlapped
                 PROVE  AttemptInv'
      BY <1>4 DEF AttemptInv, PauseAborted, countVars
    <2>1. /\ prompts[p].at = "cancelled" /\ retryAttempt' = 0 /\ at' = at
          /\ CheckCompaction(p, prompts[p].last, TRUE)
      BY <1>4 DEF PauseAborted, agentVars
    <2>2. at = "off" /\ \A q \in Prompters \ {p} : prompts[q] = Idle
      BY <1>0, <2>1, CallAlone
    <2>3. Moves(p, {"idle", "hook", "compact"})
      BY <1>0, <2>1, CheckCompactionMoves
    <2>4. \A q \in Prompters : prompts'[q].at # "retry"
      BY <2>2, <2>3 DEF Moves, Idle
    <2> QED
      BY <2>1, <2>2, <2>4 DEF AttemptInv
  <1>5. CASE Summarized(p)
    <2> SUFFICES ASSUME made["compact"] = 0, ~overlapped
                 PROVE  AttemptInv'
      BY <1>5 DEF AttemptInv, Summarized, countVars
    <2>1. /\ prompts[p].at = "compact" /\ UNCHANGED <<retryAttempt, at>>
          /\ prompts' = [prompts EXCEPT ![p].at = "compacted", ![p].keep = 0]
      BY <1>5 DEF Summarized, agentVars, retryVars
    <2>2. at = "off" /\ \A q \in Prompters \ {p} : prompts[q] = Idle
      BY <1>0, <2>1, CallAlone
    <2>3. retryAttempt = 0
      BY <2>1, <2>2 DEF AttemptInv, Idle, Kinded, Controlled, Typed, RetryTyped
    <2>4. \A q \in Prompters : prompts'[q].at # "retry"
      <3> TAKE q \in Prompters
      <3>1. prompts \in [Prompters -> CallType]
        BY <1>0 DEF Typed, ContentsTyped
      <3>2. CASE q = p
        BY <2>1, <3>1, <3>2 DEF CallType
      <3>3. CASE q # p
        BY <2>1, <2>2, <3>1, <3>3 DEF Idle
      <3> QED
        BY <3>2, <3>3
    <2>5. retryAttempt' = 0 /\ at' = "off"
      BY <2>1, <2>2, <2>3
    <2> QED
      BY <2>4, <2>5 DEF AttemptInv
  <1>6. CASE SummaryFails(p)
    <2>1. prompts[p].at = "compact" /\ UNCHANGED <<retryAttempt, at>> /\ UNCHANGED made
      BY <1>6 DEF SummaryFails, agentVars, retryVars, countVars
    <2>2. Moves(p, {"idle", "hook"})
      BY <1>0, <1>6, ReturnMoves DEF SummaryFails
    <2> QED
      BY <2>1, <2>2, CallAttempt
  <1>7. CASE Resume(p)
    <2>1. prompts[p].at = "compacted" /\ UNCHANGED retryAttempt /\ UNCHANGED made
      BY <1>7 DEF Resume, retryVars, countVars
    <2>2. ASSUME NEW transcript \in Seq(MessageType), Continue(p, transcript)
          PROVE  AttemptInv'
      <3>1. CASE Refused(p, transcript)
        <4>1. Moves(p, {"idle"}) /\ UNCHANGED at
          BY <1>0, <3>1, RejectMoves DEF Refused, agentVars
        <4> QED
          BY <2>1, <4>1, CallAttempt
      <3>2. CASE ~Refused(p, transcript)
        BY <2>1, <2>2, <3>2, ContinuedContinuable, StartAttempt
      <3> QED
        BY <3>1, <3>2
    <2>3. CASE Return(p, messages) /\ UNCHANGED agentVars
      <3>1. Moves(p, {"idle", "hook"}) /\ UNCHANGED at
        BY <1>0, <2>3, ReturnMoves DEF agentVars
      <3> QED
        BY <2>1, <3>1, CallAttempt
    <2> QED
      BY <1>0, <1>7, <2>2, <2>3 DEF Resume
  <1> QED
    BY <1>1, <1>2, <1>3, <1>4, <1>5, <1>6, <1>7 DEF PromptStep

LEMMA ClientStepAttempt ==
    ASSUME Kinded, AttemptInv, overlapped => overlapped', ClientStep, made'["compact"] = 0
    PROVE  AttemptInv'
  <1> SUFFICES ASSUME ~overlapped'
               PROVE  AttemptInv'
    BY DEF AttemptInv
  <1>0. /\ Controlled /\ Typed /\ Shapes /\ messages \in Seq(MessageType) /\ ~overlapped
        /\ events \in Nat /\ made["compact"] = 0 /\ ~Compact /\ [Next]_vars
    BY NoCompactBefore DEF Kinded, Controlled, Typed, ContentsTyped, RestTyped, Next
  <1>1. CASE Abort
    <2>1. AbortRetry /\ UNCHANGED <<retryAttempt, at, messages, hands, lastAssistantMessage>>
      BY <1>1 DEF Abort, AbortRun, retryVars
    <2>2. \A q \in Prompters :
              \/ prompts'[q] = prompts[q]
              \/ prompts[q].at = "retry" /\ prompts'[q] = [prompts[q] EXCEPT !.at = "cancelled"]
      BY <1>0, <2>1, AbortRetryMoves
    <2>3. \A q \in Prompters :
              /\ prompts[q].at \in {"retry", "cancelled", "run"}
                     => prompts'[q].at \in {"retry", "cancelled", "run"}
              /\ prompts'[q].at = "retry" => prompts[q].at = "retry"
      <3> TAKE q \in Prompters
      <3>1. prompts[q] \in CallType
        BY <1>0, Carried DEF Typed
      <3> QED
        BY <2>2, <3>1 DEF CallType
    <2> QED
      BY <1>0, <2>1, <2>3 DEF AttemptInv
  <1>2. CASE Steer \/ FollowUp \/ QueueCustom \/ NextTurn \/ ClearQueue
    <2>1. UNCHANGED <<retryAttempt, at, messages, hands, lastAssistantMessage, prompts>>
      BY <1>2 DEF Steer, FollowUp, QueueCustom, NextTurn, ClearQueue, agentVars, retryVars
    <2> QED
      BY <1>0, <2>1 DEF AttemptInv
  <1>3. CASE RecordBash
    <2>1. UNCHANGED <<retryAttempt, at, hands, lastAssistantMessage, prompts>>
      BY <1>3 DEF RecordBash, agentVars, retryVars
    <2>2. CASE activeRun # "none"
      <3>1. UNCHANGED messages
        BY <1>3, <2>2 DEF RecordBash, Deferred
      <3> QED
        BY <1>0, <2>1, <3>1 DEF AttemptInv
    <2>3. CASE activeRun = "none"
      <3>1. messages' = Append(messages, Message("bash")) /\ at = "off"
        BY <1>0, <1>3, <2>3 DEF RecordBash, Deferred, Typed, LoopTyped
      <3>2. Message("bash") \in MessageType /\ Message("bash").kind \notin Replies
        BY <1>0, MessageTyped DEF Kinds, Message, Replies
      <3>3. Continuable(messages')
        BY <1>0, <3>1, <3>2, ContinuableAppend
      <3> QED
        BY <1>0, <2>1, <3>1, <3>3 DEF AttemptInv
    <2> QED
      BY <2>2, <2>3
  <1>4. ASSUME NEW p \in Prompters, Prompt(p), ~Checking
        PROVE  AttemptInv'
    <2>1. Typed'
      BY <1>0, <1>4, PromptTyped
    <2>2. Moves(p, {"checks"})
      BY <1>0, <1>4, <2>1, PromptControlled
    <2>3. UNCHANGED <<retryAttempt, at>> /\ activeRun = "none" /\ ~UnderWay
      BY <1>4 DEF Prompt, agentVars, retryVars
    <2>4. at = "off" /\ \A q \in Prompters : prompts[q].at = "idle"
      BY <1>0, <2>3 DEF UnderWay, Controlled, RunOwned, Typed, LoopTyped
    <2>5. retryAttempt = 0
      BY <1>0, <2>4 DEF AttemptInv, Typed, RetryTyped
    <2>6. \A q \in Prompters : prompts'[q].at # "retry"
      BY <2>2, <2>4 DEF Moves
    <2> QED
      BY <2>3, <2>4, <2>5, <2>6 DEF AttemptInv
  <1> QED
    BY <1>0, <1>1, <1>2, <1>3, <1>4 DEF ClientStep

LEMMA StepAttempt ==
    ASSUME Kinded, AttemptInv, [Next]_vars
    PROVE  AttemptInv'
  <1>0. overlapped => overlapped'
    BY OverlapStays
  <1>1. CASE RunStep
    BY <1>0, <1>1, RunStepAttempt
  <1>2. ASSUME NEW p \in Prompters, PromptStep(p)
        PROVE  AttemptInv'
    BY <1>0, <1>2, PromptStepAttempt
  <1>3. CASE CompactStep
    <2>1. made' = made /\ manual.at # "idle"
      BY <1>3 DEF CompactStep, CompactReads, CompactSaves, CompactEnds, countVars
    <2>2. made["compact"] # 0
      BY <2>1, ListensWithoutCompact DEF Kinded
    <2> QED
      BY <2>1, <2>2 DEF AttemptInv
  <1>4. CASE ClientStep
    <2>1. CASE made'["compact"] = 0
      BY <1>0, <1>4, <2>1, ClientStepAttempt
    <2>2. CASE made'["compact"] # 0
      BY <2>2 DEF AttemptInv
    <2> QED
      BY <2>1, <2>2
  <1>5. CASE UNCHANGED vars
    BY <1>5 DEF vars, agentVars, retryVars, countVars, historyVars, AttemptInv
  <1> QED
    BY <1>1, <1>2, <1>3, <1>4, <1>5 DEF Next, InternalStep

\* "Current retry attempt (0 if not retrying)": once no prompt is under way, the
\* counter is reset, however the retries ended.
THEOREM AttemptsForgotten == Spec => []AttemptIsReset
  <1>1. Init => AttemptInv
    BY DEF Init, AttemptInv, Idle
  <1>2. Kinded /\ AttemptInv /\ [Next]_vars => AttemptInv'
    BY StepAttempt
  <1>3. Kinded /\ AttemptInv => AttemptIsReset
    BY DEF AttemptInv, AttemptIsReset, Kinded, Controlled, Typed, RetryTyped
  <1> QED
    BY <1>1, <1>2, <1>3, KindInvariant, PTL DEF Spec

\* Retries and recoveries from overflows stay within their limits and are
\* forgotten when they are over.
THEOREM RecoveryBounded == Spec => []RecoveryIsBounded
  <1>1. TypeOK /\ RecoveredOnce /\ AttemptIsReset => RecoveryIsBounded
    BY DEF RecoveryIsBounded
  <1> QED
    BY <1>1, TypeCorrect, RecoveredOnceAlways, AttemptsForgotten, PTL

-----------------------------------------------------------------------------
\* The loop has the transcript when it makes a request.

Stale == ~overlapped /\ staleContext /\ activeRun # "none" => at = "tools" /\ midRunReload

\* A step that does not touch these.
LEMMA StaleKept ==
    ASSUME Stale, overlapped => overlapped', UNCHANGED <<staleContext, midRunReload, at>>,
           activeRun' # "none" => activeRun # "none"
    PROVE  Stale'
  BY DEF Stale

\* continue() starts a run with the transcript, or changes nothing of these.
LEMMA ContinueStale ==
    ASSUME Controlled, Stale, overlapped => overlapped', NEW p \in Prompters, NEW transcript,
           Continue(p, transcript), UNCHANGED midRunReload
    PROVE  Stale'
  <1>1. CASE Refused(p, transcript)
    BY <1>1, StaleKept DEF Refused, agentVars
  <1>2. CASE staleContext' = FALSE
    BY <1>2 DEF Stale
  <1> QED
    BY <1>1, <1>2, ContinueCases DEF Controlled, Typed, ContinuedWithNothing,
       ContinuedWithSteering, ContinuedWithFollowUp, StartRun

LEMMA StepStale ==
    ASSUME Controlled, Stale, [Next]_vars
    PROVE  Stale'
  <1>0. /\ overlapped => overlapped'
        /\ at = "off" <=> activeRun = "none"
        /\ staleContext \in BOOLEAN /\ midRunReload \in BOOLEAN
    BY OverlapStays DEF Controlled, Typed, LoopTyped, RestTyped
  <1>1. CASE RunStep
    <2>1. ASSUME NEW hadCalls, TurnOver(hadCalls)
          PROVE  Stale'
      <3>1. ~overlapped' /\ staleContext' => ~overlapped /\ staleContext /\ ~midRunReload
        BY <1>0, <2>1 DEF TurnOver
      <3>2. activeRun # "none"
        BY <1>0, <1>1 DEF RunStep, Inject, ToolsEnd, FinishRun, Reply
      <3> QED
        BY <3>1, <3>2 DEF Stale
    <2>2. CASE Inject
      BY <1>0, <2>2 DEF Inject, Stale
    <2>3. CASE ToolsEnd
      BY <2>1, <2>3 DEF ToolsEnd
    <2>4. ASSUME NEW kind \in Replies, Reply(kind)
          PROVE  Stale'
      <3>1. CASE UNCHANGED <<staleContext, midRunReload>>
        BY <1>0, <2>4, <3>1 DEF Reply, Stale
      <3> QED
        BY <2>1, <2>4, <3>1 DEF Reply
    <2>5. CASE FinishRun
      BY <2>5 DEF FinishRun, Stale
    <2> QED
      BY <1>1, <2>2, <2>3, <2>4, <2>5 DEF RunStep
  <1>2. ASSUME NEW p \in Prompters, PromptStep(p)
        PROVE  Stale'
    <2>1. CASE Preflight(p) \/ PauseAborted(p) \/ SummaryFails(p)
      BY <1>0, <2>1, StaleKept DEF Preflight, PauseAborted, SummaryFails, agentVars
    <2>2. CASE Submit(p)
      BY <1>0, <2>2, StaleKept DEF Submit, StartRun, Stale
    <2>3. CASE PauseEnds(p)
      BY <1>0, <2>3, ContinueStale DEF PauseEnds
    <2>4. CASE Summarized(p)
      <3>1. ~overlapped => activeRun = "none"
        BY <2>4, CallAlone DEF Summarized
      <3> QED
        BY <1>0, <2>4, <3>1 DEF Summarized, agentVars, Stale
    <2>5. CASE Resume(p)
      <3>1. UNCHANGED midRunReload
        BY <2>5 DEF Resume
      <3>2. CASE Continue(p, WithoutLastError) \/ Continue(p, messages)
        BY <1>0, <3>1, <3>2, ContinueStale
      <3>3. CASE UNCHANGED <<agentVars, staleContext>>
        BY <1>0, <3>1, <3>3, StaleKept DEF agentVars
      <3> QED
        BY <2>5, <3>2, <3>3 DEF Resume
    <2> QED
      BY <1>2, <2>1, <2>2, <2>3, <2>4, <2>5 DEF PromptStep
  <1>3. CASE CompactStep
    <2>1. UNCHANGED <<activeRun, at>>
      BY <1>3 DEF CompactStep, CompactReads, CompactSaves, CompactEnds, agentVars
    <2>2. CASE CompactReads \/ CompactEnds
      BY <1>0, <2>1, <2>2, StaleKept DEF CompactReads, CompactEnds
    <2>3. CASE CompactSaves
      <3>1. ~overlapped /\ activeRun # "none" => at = "tools" /\ manual.midRun
        BY <2>3 DEF CompactSaves, Controlled, Alone
      <3>2. midRunReload' = (midRunReload \/ manual.midRun)
        BY <2>3 DEF CompactSaves
      <3> QED
        BY <1>0, <2>1, <3>1, <3>2 DEF Stale
    <2> QED
      BY <1>3, <2>2, <2>3 DEF CompactStep
  <1>4. CASE ClientStep
    <2>1. UNCHANGED <<staleContext, midRunReload, at>>
      BY <1>4 DEF ClientStep, Compact, Abort, AbortRun, Steer, FollowUp, QueueCustom, NextTurn, ClearQueue,
                  RecordBash, Prompt, agentVars
    <2>2. activeRun' # "none" => activeRun # "none"
      BY <1>4 DEF ClientStep, Compact, Abort, AbortRun, Steer, FollowUp, QueueCustom, NextTurn, ClearQueue,
                  RecordBash, Prompt, agentVars
    <2> QED
      BY <1>0, <2>1, <2>2, StaleKept
  <1>5. CASE UNCHANGED vars
    BY <1>5, StaleKept DEF vars, agentVars, historyVars
  <1> QED
    BY <1>1, <1>2, <1>3, <1>4, <1>5 DEF Next, InternalStep

\* A request is made with the transcript of the time, also when a tool of the run
\* has compacted it.
THEOREM TranscriptSeen == Spec => []RequestSeesTranscript
  <1>1. Init => Stale
    BY DEF Init, Stale
  <1>2. Controlled /\ Stale /\ [Next]_vars => Stale'
    BY StepStale
  <1>3. Controlled /\ Stale => RequestSeesTranscript
    BY DEF Stale, RequestSeesTranscript, Controlled, Typed, LoopTyped
  <1> QED
    BY <1>1, <1>2, <1>3, ControlInvariant, PTL DEF Spec

-----------------------------------------------------------------------------
\* What a step does to the session and to the bash results that wait.

\* An element of a concatenation is one of either part.
LEMMA ConcatParts ==
    ASSUME NEW R, NEW s \in Seq(R), NEW t \in Seq(R)
    PROVE  /\ s \o t \in Seq(R) /\ Len(s \o t) = Len(s) + Len(t)
           /\ Len(s) \in Nat /\ Len(t) \in Nat
           /\ DOMAIN s = 1..Len(s) /\ DOMAIN t = 1..Len(t)
           /\ DOMAIN (s \o t) = 1..(Len(s) + Len(t))
           /\ \A i \in 1..Len(s) : (s \o t)[i] = s[i]
           /\ \A i \in 1..(Len(s) + Len(t)) :
                  i > Len(s) => i - Len(s) \in 1..Len(t) /\ (s \o t)[i] = t[i - Len(s)]
  <1> DEFINE u == s \o t
  <1>1. /\ u \in Seq(R) /\ Len(u) = Len(s) + Len(t)
        /\ \A i \in 1..(Len(s) + Len(t)) : u[i] = IF i <= Len(s) THEN s[i] ELSE t[i - Len(s)]
    BY ConcatProperties
  <1>2. Len(s) \in Nat /\ Len(t) \in Nat /\ DOMAIN s = 1..Len(s) /\ DOMAIN t = 1..Len(t)
    BY LenProperties
  <1> HIDE DEF u
  <1>3. DOMAIN u = 1..Len(u)
    BY <1>1, LenProperties
  <1> QED
    BY <1>1, <1>2, <1>3 DEF u

Rests == UNCHANGED <<session, pendingBashMessages>>
Flushes == session' = session \o pendingBashMessages /\ pendingBashMessages' = <<>>
Saves(kinds, n) ==
    \E t \in Seq(MessagesOf(kinds, n)) :
        session' = session \o t /\ pendingBashMessages' = pendingBashMessages
Marks ==
    \E keep \in Nat \ {0} :
        session' = Append(session, Compaction(keep)) /\ pendingBashMessages' = pendingBashMessages

\* A call saves the bash results that waited, or nothing.
LEMMA CallRests ==
    ASSUME NEW p, NEW transcript
    PROVE  /\ Return(p, transcript) => Rests \/ Flushes
           /\ Reject(p, transcript) => Flushes
           /\ Continue(p, transcript) => Rests \/ Flushes
  BY DEF Return, Reject, Continue, FlushBash, Rests, Flushes

LEMMA CheckRests ==
    ASSUME NEW p, NEW m, NEW skipAborted, CheckCompaction(p, m, skipAborted)
    PROVE  Rests \/ Flushes
  BY CallRests DEF CheckCompaction, Rests

\* Messages that end are saved while the session listens.
LEMMA EmitSaves ==
    ASSUME SessionOf(events), NEW kinds, NEW n, NEW ms \in Seq(MessagesOf(kinds, n)), Emit(ms),
           pendingBashMessages' = pendingBashMessages
    PROVE  Rests \/ Saves(kinds, n)
  BY DEF Emit, Rests, Saves

LEMMA RunStepSaves ==
    ASSUME Kinded, NEW n, n = events',
           Inject \/ \E kind \in Replies : Reply(kind)
    PROVE  Rests \/ Saves(Replies \union Client, n)
  <1>0. SessionOf(events) /\ HandsOf(events) /\ events \in Nat /\ events + 1 \in Nat
    BY DEF Kinded, KindedUpto, Controlled, Typed, RestTyped
  <1>1. CASE Inject
    <2>1. Emit(hands) /\ at = "inject" /\ n = events /\ pendingBashMessages' = pendingBashMessages
      BY <1>1 DEF Inject, countVars
    <2>2. hands \in Seq(MessagesOf(Client, events))
      BY <1>0, <2>1 DEF HandsOf
    <2>3. hands \in Seq(MessagesOf(Replies \union Client, events))
      BY <1>0, <2>2, KindsGrow
    <2> QED
      BY <1>0, <2>1, <2>3, EmitSaves
  <1>2. ASSUME NEW kind \in Replies, Reply(kind)
        PROVE  Rests \/ Saves(Replies \union Client, n)
    <2>1. Emit(<<Message(kind)>>) /\ n = events + 1 /\ pendingBashMessages' = pendingBashMessages
      BY <1>2 DEF Reply
    <2>2. kind \in Kinds \ {"summary"}
      BY DEF Kinds, Replies
    <2>3. Message(kind) \in MessagesOf({kind}, n)
      BY <1>0, <2>1, <2>2, NewMessageKinds
    <2>4. Message(kind) \in MessagesOf(Replies \union Client, n)
      BY <2>3 DEF MessagesOf
    <2>5. <<Message(kind)>> \in Seq(MessagesOf(Replies \union Client, n))
      BY <2>4
    <2> QED
      BY <1>0, <2>1, <2>5, EmitSaves
  <1> QED
    BY <1>1, <1>2

LEMMA ToolsEndSaves ==
    ASSUME Kinded, ToolsEnd
    PROVE  \E m \in MessagesOf({"result"}, events) :
               /\ hands = <<m>> /\ at = "tools"
               /\ \/ Rests
                  \/ /\ session' = session \o <<m>>
                     /\ pendingBashMessages' = pendingBashMessages
  <1>1. at = "tools" /\ Emit(hands) /\ pendingBashMessages' = pendingBashMessages
    BY DEF ToolsEnd
  <1>2. PICK m \in MessagesOf({"result"}, events) : hands = <<m>>
    BY <1>1 DEF Kinded, KindedUpto, HandsOf
  <1> QED
    BY <1>1, <1>2 DEF Emit, Rests

LEMMA CallStepRests ==
    ASSUME Kinded, NEW p \in Prompters, PromptStep(p)
    PROVE  /\ Rests \/ Flushes \/ Marks
           /\ ~overlapped => at = "off"
  <1>1. prompts[p].at \notin {"idle", "run"}
    BY DEF PromptStep, Preflight, Submit, PauseEnds, PauseAborted, Summarized, SummaryFails, Resume
  <1>2. ~overlapped => at = "off"
    BY <1>1, CallAlone DEF Kinded
  <1> SUFFICES Rests \/ Flushes \/ Marks
    BY <1>2
  <1>3. CASE Preflight(p) \/ PauseAborted(p) \/ SummaryFails(p)
    BY <1>3, CallRests, CheckRests DEF Preflight, PauseAborted, SummaryFails
  <1>4. CASE Submit(p)
    BY <1>4, CallRests DEF Submit, Rests
  <1>5. CASE PauseEnds(p)
    BY <1>5, CallRests DEF PauseEnds
  <1>6. CASE Summarized(p)
    <2>1. prompts[p].keep \in Nat
      BY Carried DEF Kinded, Controlled, Typed, CallType
    <2> QED
      BY <1>6, <2>1 DEF Summarized, Compacted, Marks
  <1>7. CASE Resume(p)
    BY <1>7, CallRests DEF Resume
  <1> QED
    BY <1>3, <1>4, <1>5, <1>6, <1>7 DEF PromptStep

LEMMA FinishRunRests ==
    ASSUME FinishRun
    PROVE  (Rests \/ Flushes) /\ at = "end"
  <1>1. PICK p \in Prompters : AfterRun(p)
    BY DEF FinishRun
  <1>2. Rests \/ Flushes
    BY <1>1, CallRests, CheckRests DEF AfterRun, Rests
  <1> QED
    BY <1>2 DEF FinishRun

LEMMA CompactStepRests ==
    ASSUME Kinded, CompactStep
    PROVE  Rests \/ Marks
  <1>1. CASE CompactReads \/ CompactEnds
    BY <1>1 DEF CompactReads, CompactEnds, Rests
  <1>2. CASE CompactSaves
    <2>1. manual.keep \in Nat
      BY DEF Kinded, Controlled, Typed, RestTyped
    <2> QED
      BY <1>2, <2>1 DEF CompactSaves, Compacted, Marks
  <1> QED
    BY <1>1, <1>2 DEF CompactStep

LEMMA ClientStepRests ==
    ASSUME Kinded, ClientStep
    PROVE  \/ Rests
           \/ Flushes /\ at = "off"
           \/ RecordBash
  <1>1. ASSUME NEW p \in Prompters, Prompt(p)
        PROVE  Flushes /\ at = "off"
    <2>1. Flushes /\ activeRun = "none"
      BY <1>1 DEF Prompt, FlushBash, Flushes
    <2> QED
      BY <2>1 DEF Kinded, Controlled, Typed, LoopTyped
  <1>2. CASE Compact \/ Abort \/ Steer \/ FollowUp \/ QueueCustom \/ NextTurn \/ ClearQueue
    BY <1>2 DEF Compact, Abort, Steer, FollowUp, QueueCustom, NextTurn, ClearQueue, Rests
  <1> QED
    BY <1>1, <1>2 DEF ClientStep

\* Each step leaves the session as it is, or appends to it: the bash results that
\* waited, messages of a run, a compaction, or one bash result.
LEMMA SessionSteps ==
    ASSUME Kinded, [Next]_vars, NEW n, n = events'
    PROVE  \/ Rests
           \/ Flushes /\ (~overlapped => at # "tools")
           \/ Saves(Replies \union Client, n)
           \/ ToolsEnd
           \/ Marks
           \/ RecordBash
  <1>1. CASE RunStep
    BY <1>1, RunStepSaves, FinishRunRests DEF RunStep
  <1>2. ASSUME NEW p \in Prompters, PromptStep(p)
        PROVE  Rests \/ (Flushes /\ (~overlapped => at # "tools")) \/ Marks
    BY <1>2, CallStepRests
  <1>3. CASE CompactStep
    BY <1>3, CompactStepRests
  <1>4. CASE ClientStep
    BY <1>4, ClientStepRests
  <1>5. CASE UNCHANGED vars
    BY <1>5 DEF vars, bashVars, Rests
  <1> QED
    BY <1>1, <1>2, <1>3, <1>4, <1>5 DEF Next, InternalStep

-----------------------------------------------------------------------------
\* Bash results stay between turns.

BashBetween(s) ==
    \A i, j, k \in DOMAIN s :
        ~ /\ i < j /\ j < k
          /\ s[i].kind = "calls" /\ s[j].kind = "bash"
          /\ s[k].kind = "result" /\ s[k].id = s[i].id
NoBashAfter(s, id) ==
    \A i, j \in DOMAIN s : s[i].kind = "calls" /\ s[i].id = id /\ i < j => s[j].kind # "bash"

BashInv ==
    ~overlapped => /\ BashBetween(session)
                   /\ at = "tools" => NoBashAfter(session, hands[1].id)

\* Entries other than results may follow, and the result of calls that no bash
\* result has followed.
LEMMA BashConcat ==
    ASSUME NEW s \in Seq(EntryType), NEW t \in Seq(EntryType), BashBetween(s),
           \A k \in DOMAIN t : t[k].kind = "result" => NoBashAfter(s, t[k].id) /\ Len(t) = 1
    PROVE  BashBetween(s \o t)
  <1> DEFINE u == s \o t
  <1>1. /\ Len(s) \in Nat /\ Len(t) \in Nat /\ DOMAIN s = 1..Len(s) /\ DOMAIN t = 1..Len(t)
        /\ DOMAIN u = 1..(Len(s) + Len(t))
        /\ \A i \in 1..Len(s) : u[i] = s[i]
        /\ \A i \in 1..(Len(s) + Len(t)) :
               i > Len(s) => i - Len(s) \in 1..Len(t) /\ u[i] = t[i - Len(s)]
    BY ConcatParts
  <1> HIDE DEF u
  <1>2. ASSUME NEW i \in DOMAIN u, NEW j \in DOMAIN u, NEW k \in DOMAIN u, i < j, j < k,
               u[i].kind = "calls", u[j].kind = "bash", u[k].kind = "result", u[k].id = u[i].id
        PROVE  FALSE
    <2>1. CASE k <= Len(s)
      <3>1. i \in DOMAIN s /\ j \in DOMAIN s /\ k \in DOMAIN s
        BY <1>1, <1>2, <2>1
      <3> QED
        BY <1>1, <1>2, <3>1 DEF BashBetween
    <2>2. CASE k > Len(s)
      <3>1. k - Len(s) \in DOMAIN t /\ u[k] = t[k - Len(s)]
        BY <1>1, <2>2
      <3>2. NoBashAfter(s, u[k].id) /\ Len(t) = 1
        BY <1>2, <3>1
      <3>3. i \in DOMAIN s /\ j \in DOMAIN s
        BY <1>1, <1>2, <3>2
      <3> QED
        BY <1>1, <1>2, <3>2, <3>3 DEF NoBashAfter
    <2> QED
      BY <1>1, <2>1, <2>2
  <1> QED
    BY <1>2 DEF BashBetween, u

\* Entries other than bash results may follow calls.
LEMMA NoBashConcat ==
    ASSUME NEW s \in Seq(EntryType), NEW t \in Seq(EntryType), NEW id, NoBashAfter(s, id),
           \A k \in DOMAIN t : t[k].kind # "bash"
    PROVE  NoBashAfter(s \o t, id)
  <1> DEFINE u == s \o t
  <1>1. /\ Len(s) \in Nat /\ Len(t) \in Nat /\ DOMAIN s = 1..Len(s) /\ DOMAIN t = 1..Len(t)
        /\ DOMAIN u = 1..(Len(s) + Len(t))
        /\ \A i \in 1..Len(s) : u[i] = s[i]
        /\ \A i \in 1..(Len(s) + Len(t)) :
               i > Len(s) => i - Len(s) \in 1..Len(t) /\ u[i] = t[i - Len(s)]
    BY ConcatParts
  <1> HIDE DEF u
  <1>2. ASSUME NEW i \in DOMAIN u, NEW j \in DOMAIN u, u[i].kind = "calls", u[i].id = id, i < j
        PROVE  u[j].kind # "bash"
    <2>1. CASE j <= Len(s)
      <3>1. i \in DOMAIN s /\ j \in DOMAIN s
        BY <1>1, <1>2, <2>1
      <3> QED
        BY <1>1, <1>2, <3>1 DEF NoBashAfter
    <2>2. CASE j > Len(s)
      BY <1>1, <2>2
    <2> QED
      BY <1>1, <2>1, <2>2
  <1> QED
    BY <1>2 DEF NoBashAfter, u

\* No entry of the past has the id of a new message.
LEMMA NoBashAfterNew ==
    ASSUME NEW n \in Nat, NEW s \in Seq(EntriesOf(n))
    PROVE  NoBashAfter(s, n + 1)
  <1>1. \A i \in DOMAIN s : s[i].id \in 0..n
    BY DEF EntriesOf
  <1> QED
    BY <1>1 DEF NoBashAfter

\* A step that appends entries other than results and, while the tools run, other
\* than bash results.
LEMMA AppendedBetween ==
    ASSUME Kinded, BashInv, overlapped => overlapped', NEW t \in Seq(EntryType),
           session' = session \o t, \A k \in DOMAIN t : t[k].kind # "result",
           at' = "tools" /\ ~overlapped => /\ \A k \in DOMAIN t : t[k].kind # "bash"
                                           /\ UNCHANGED <<at, hands>>
    PROVE  BashInv'
  <1> SUFFICES ASSUME ~overlapped
               PROVE  BashInv'
    BY DEF BashInv
  <1>1. session \in Seq(EntryType) /\ BashBetween(session)
    BY DEF Kinded, Controlled, Typed, ContentsTyped, BashInv
  <1>2. BashBetween(session')
    BY <1>1, BashConcat
  <1>3. ASSUME at' = "tools"
        PROVE  NoBashAfter(session', hands'[1].id)
    <2>1. /\ at = "tools" /\ hands' = hands /\ \A k \in DOMAIN t : t[k].kind # "bash"
          /\ NoBashAfter(session, hands[1].id)
      BY <1>3 DEF BashInv
    <2>2. NoBashAfter(session \o t, hands[1].id)
      BY <1>1, <2>1, NoBashConcat
    <2> QED
      BY <2>1, <2>2
  <1> QED
    BY <1>2, <1>3 DEF BashInv

\* Tools run after a reply with calls, until they end.
LEMMA ToolsStart ==
    ASSUME [Next]_vars, at' = "tools"
    PROVE  UNCHANGED <<at, hands>> \/ Reply("calls")
  <1>1. \A hadCalls : ~TurnOver(hadCalls)
    BY DEF TurnOver
  <1>2. CASE RunStep
    <2>1. PICK kind \in Replies : Reply(kind)
      BY <1>1, <1>2 DEF RunStep, Inject, ToolsEnd, FinishRun
    <2>2. kind = "calls"
      BY <1>1, <2>1 DEF Reply
    <2> QED
      BY <2>1, <2>2
  <1>3. ASSUME NEW p, NEW transcript, Continue(p, transcript)
        PROVE  UNCHANGED <<at, hands>>
    BY <1>3 DEF Continue, StartRun, agentVars
  <1>4. ASSUME NEW p \in Prompters, PromptStep(p)
        PROVE  UNCHANGED <<at, hands>>
    BY <1>3, <1>4 DEF PromptStep, Preflight, Submit, StartRun, PauseEnds, PauseAborted, Summarized,
       SummaryFails, Resume, agentVars
  <1>5. CASE CompactStep
    BY <1>5 DEF CompactStep, CompactReads, CompactSaves, CompactEnds, agentVars
  <1>6. CASE ClientStep
    BY <1>6 DEF ClientStep, Compact, Abort, AbortRun, Steer, FollowUp, QueueCustom, NextTurn, ClearQueue,
                RecordBash, Prompt, agentVars
  <1>7. CASE UNCHANGED vars
    BY <1>7 DEF vars, agentVars
  <1> QED
    BY <1>2, <1>4, <1>5, <1>6, <1>7 DEF Next, InternalStep

LEMMA StepBash ==
    ASSUME Kinded, Kinded', BashInv, [Next]_vars
    PROVE  BashInv'
  <1>0. /\ overlapped => overlapped'
        /\ SessionOf(events) /\ events \in Nat /\ HandsOf(events) /\ PendingOf(events)
        /\ events' \in Nat /\ session \in Seq(EntryType) /\ SessionOf(events)'
    BY OverlapStays DEF Kinded, KindedUpto, Controlled, Typed, RestTyped, ContentsTyped
  <1> SUFFICES ASSUME ~overlapped
               PROVE  BashInv'
    BY <1>0 DEF BashInv
  <1>1. CASE Reply("calls")
    <2>1. PICK t \in Seq(EntryType) :
              session' = session \o t /\ (\A k \in DOMAIN t : t[k].kind = "calls")
              /\ NoBashAfter(session \o t, events + 1)
      <3> DEFINE m == Message("calls")
      <3>1. m \in EntryType /\ m.kind = "calls" /\ m.id = events + 1
        BY <1>0, MessageTyped, MessagesAreEntries DEF Kinds, Replies, Message
      <3> HIDE DEF m
      <3>2. session' = session \o <<m>> \/ session' = session \o <<>>
        BY <1>0, <1>1, ConcatEmptySeq DEF Reply, Emit, m
      <3>3. NoBashAfter(session, events + 1)
        BY <1>0, NoBashAfterNew DEF SessionOf
      <3>4. \A t \in {<<m>>, <<>>} :
                t \in Seq(EntryType) /\ \A k \in DOMAIN t : t[k].kind = "calls"
        <4>1. <<m>> \in Seq(EntryType) /\ \A k \in DOMAIN <<m>> : <<m>>[k].kind = "calls"
          BY <3>1
        <4>2. <<>> \in Seq(EntryType) /\ \A k \in DOMAIN <<>> : <<>>[k].kind = "calls"
          OBVIOUS
        <4> QED
          BY <4>1, <4>2
      <3>5. \A t \in {<<m>>, <<>>} : NoBashAfter(session \o t, events + 1)
        BY <1>0, <3>3, <3>4, NoBashConcat
      <3> QED
        BY <3>2, <3>4, <3>5
    <2>2. BashBetween(session')
      <3>1. \A k \in DOMAIN t : t[k].kind # "result"
        BY <2>1
      <3> QED
        BY <1>0, <2>1, <3>1, BashConcat DEF BashInv
    <2>3. hands' = <<Message("result")>>
      BY <1>1 DEF Reply
    <2>4. hands'[1].id = events + 1
      BY <2>3 DEF Message
    <2> QED
      BY <2>1, <2>2, <2>4 DEF BashInv
  <1>2. CASE ToolsEnd
    <2>1. PICK m \in MessagesOf({"result"}, events) :
              /\ hands = <<m>> /\ at = "tools"
              /\ Rests \/ session' = session \o <<m>>
      BY <1>2, ToolsEndSaves
    <2>2. m \in EntryType /\ NoBashAfter(session, m.id)
      <3>1. m \in EntryType /\ hands[1] = m
        BY <2>1, MessagesAreEntries DEF MessagesOf
      <3> QED
        BY <2>1, <3>1 DEF BashInv
    <2>3. at' # "tools"
      BY <1>2 DEF ToolsEnd, TurnOver
    <2>4. BashBetween(session \o <<m>>)
      <3> DEFINE t == <<m>>
      <3>1. t \in Seq(EntryType) /\ Len(t) = 1 /\ \A k \in DOMAIN t : t[k] = m
        BY <2>2
      <3> HIDE DEF t
      <3>2. BashBetween(session \o t)
        BY <1>0, <2>2, <3>1, BashConcat DEF BashInv
      <3> QED
        BY <3>2 DEF t
    <2> QED
      BY <2>1, <2>3, <2>4 DEF BashInv, Rests
  <1> SUFFICES ASSUME ~ToolsEnd, ~Reply("calls")
               PROVE  BashInv'
    BY <1>1, <1>2
  <1>3. at' = "tools" => UNCHANGED <<at, hands>>
    BY ToolsStart
  <1>4. CASE Rests
    BY <1>3, <1>4 DEF Rests, BashInv
  <1>5. CASE Flushes /\ (~overlapped => at # "tools")
    <2>1. pendingBashMessages \in Seq(MessagesOf({"bash"}, events))
      BY <1>0 DEF PendingOf
    <2>2. pendingBashMessages \in Seq(EntryType)
          /\ \A k \in DOMAIN pendingBashMessages : pendingBashMessages[k].kind # "result"
      <3>1. MessagesOf({"bash"}, events) \subseteq EntryType
        BY MessagesAreEntries DEF MessagesOf
      <3>2. pendingBashMessages \in Seq(EntryType)
        BY ONLY <2>1, <3>1, SeqMonotonic
      <3> QED
        BY <2>1, <3>2 DEF MessagesOf
    <2> QED
      BY <1>0, <1>3, <1>5, <2>2, AppendedBetween DEF Flushes
  <1>6. CASE Saves(Replies \union Client, events')
    <2>1. PICK t \in Seq(MessagesOf(Replies \union Client, events')) : session' = session \o t
      BY <1>6 DEF Saves
    <2>2. t \in Seq(EntryType) /\ \A k \in DOMAIN t : t[k].kind \notin {"result", "bash"}
      <3>1. MessagesOf(Replies \union Client, events') \subseteq EntryType
        BY MessagesAreEntries DEF MessagesOf
      <3>2. t \in Seq(EntryType)
        BY ONLY <2>1, <3>1, SeqMonotonic
      <3>3. \A k \in DOMAIN t : t[k] \in MessagesOf(Replies \union Client, events')
        BY <2>1
      <3>4. \A m \in MessagesOf(Replies \union Client, events') : m.kind \notin {"result", "bash"}
        BY DEF MessagesOf, Replies, Client
      <3> QED
        BY <3>2, <3>3, <3>4
    <2> QED
      BY <1>0, <1>3, <2>1, <2>2, AppendedBetween
  <1>7. CASE Marks
    <2>1. PICK e \in EntryType : session' = Append(session, e) /\ e.kind = "compaction"
      BY <1>0, <1>7 DEF Marks, Compaction, EntryType
    <2>2. session' = session \o <<e>> /\ <<e>> \in Seq(EntryType)
          /\ \A k \in DOMAIN <<e>> : <<e>>[k].kind \notin {"result", "bash"}
      BY <1>0, <2>1, AppendIsConcat
    <2> QED
      BY <1>0, <1>3, <2>2, AppendedBetween
  <1>8. CASE RecordBash
    <2>1. at' = at
      BY <1>8 DEF RecordBash, agentVars
    <2>2. CASE Rests \/ session' = session
      BY <1>3, <2>2 DEF Rests, BashInv
    <2>3. CASE activeRun = "none" /\ session' = Append(session, Message("bash"))
      <3> DEFINE e == Message("bash")
      <3>1. e \in EntryType /\ e.kind = "bash"
        BY <1>0, MessageTyped, MessagesAreEntries DEF Kinds, Message
      <3> HIDE DEF e
      <3>2. session' = session \o <<e>> /\ <<e>> \in Seq(EntryType)
            /\ \A k \in DOMAIN <<e>> : <<e>>[k].kind # "result"
        BY <1>0, <2>3, <3>1, AppendIsConcat DEF e
      <3>3. at' # "tools"
        BY <2>1, <2>3 DEF Kinded, Controlled, Typed, LoopTyped
      <3> QED
        BY <1>0, <3>2, <3>3, AppendedBetween
    <2> QED
      BY <1>8, <2>2, <2>3 DEF RecordBash, Deferred
  <1> QED
    BY <1>4, <1>5, <1>6, <1>7, <1>8, SessionSteps

\* "defer adding to avoid breaking tool_use/tool_result ordering": no bash result
\* comes between a reply and the results of its calls.
THEOREM BashStaysBetween == Spec => []BashBetweenTurns
  <1>1. Init => BashInv
    BY DEF Init, BashInv, BashBetween
  <1>2. Kinded /\ Kinded' /\ BashInv /\ [Next]_vars => BashInv'
    BY StepBash
  <1>3. BashInv => BashBetweenTurns
    BY DEF BashInv, BashBetween, BashBetweenTurns
  <1> QED
    BY <1>1, <1>2, <1>3, KindInvariant, PTL DEF Spec

-----------------------------------------------------------------------------
\* The ids of the messages of some kinds, and whether each is there once.

IdsIn(s, K) == {s[i].id : i \in IndicesOf(s, K)}
Distinct(s, K) == \A i, j \in IndicesOf(s, K) : s[i].id = s[j].id => i = j

\* The ids in a concatenation, and when each is there once.
LEMMA InConcat ==
    ASSUME NEW R, NEW s \in Seq(R), NEW t \in Seq(R), NEW K
    PROVE  /\ IdsIn(s \o t, K) = IdsIn(s, K) \union IdsIn(t, K)
           /\ Distinct(s \o t, K)
                  <=> /\ Distinct(s, K) /\ Distinct(t, K)
                      /\ IdsIn(s, K) \intersect IdsIn(t, K) = {}
  <1> DEFINE u == s \o t
  <1>1. /\ Len(s) \in Nat /\ Len(t) \in Nat /\ DOMAIN s = 1..Len(s) /\ DOMAIN t = 1..Len(t)
        /\ DOMAIN u = 1..(Len(s) + Len(t))
        /\ \A i \in 1..Len(s) : u[i] = s[i]
        /\ \A i \in 1..(Len(s) + Len(t)) :
               i > Len(s) => i - Len(s) \in 1..Len(t) /\ u[i] = t[i - Len(s)]
    BY ConcatParts
  <1> HIDE DEF u
  <1>2. \A i \in IndicesOf(s, K) : i \in IndicesOf(u, K) /\ u[i] = s[i] /\ i <= Len(s)
    BY <1>1 DEF IndicesOf
  <1>3. \A i \in IndicesOf(t, K) :
            i + Len(s) \in IndicesOf(u, K) /\ u[i + Len(s)] = t[i] /\ i + Len(s) > Len(s)
    <2> TAKE i \in IndicesOf(t, K)
    <2>1. i \in 1..Len(t) /\ t[i].kind \in K
      BY <1>1 DEF IndicesOf
    <2>2. i + Len(s) \in 1..(Len(s) + Len(t)) /\ i + Len(s) > Len(s) /\ (i + Len(s)) - Len(s) = i
      BY <1>1, <2>1
    <2> QED
      BY <1>1, <2>1, <2>2 DEF IndicesOf
  <1>4. \A i \in IndicesOf(u, K) :
            \/ i \in IndicesOf(s, K) /\ u[i] = s[i]
            \/ /\ i > Len(s) /\ i - Len(s) \in IndicesOf(t, K) /\ u[i] = t[i - Len(s)]
               /\ i \in Nat
    BY <1>1 DEF IndicesOf
  <1>5. IdsIn(u, K) = IdsIn(s, K) \union IdsIn(t, K)
    <2>1. \A x \in IdsIn(u, K) : x \in IdsIn(s, K) \union IdsIn(t, K)
      BY <1>4 DEF IdsIn
    <2>2. \A x \in IdsIn(s, K) : x \in IdsIn(u, K)
      BY <1>2 DEF IdsIn
    <2>3. \A x \in IdsIn(t, K) : x \in IdsIn(u, K)
      BY <1>3 DEF IdsIn
    <2> QED
      BY <2>1, <2>2, <2>3
  <1>6. ASSUME Distinct(u, K)
        PROVE  Distinct(s, K) /\ Distinct(t, K) /\ IdsIn(s, K) \intersect IdsIn(t, K) = {}
    <2>1. Distinct(s, K)
      BY <1>2, <1>6 DEF Distinct
    <2>2. Distinct(t, K)
      <3> SUFFICES ASSUME NEW i \in IndicesOf(t, K), NEW j \in IndicesOf(t, K), t[i].id = t[j].id
                   PROVE  i = j
        BY DEF Distinct
      <3>1. i + Len(s) = j + Len(s)
        BY <1>3, <1>6 DEF Distinct
      <3>2. i \in Nat /\ j \in Nat
        BY <1>1 DEF IndicesOf
      <3> QED
        BY <1>1, <3>1, <3>2
    <2>3. ASSUME NEW i \in IndicesOf(s, K), NEW j \in IndicesOf(t, K), s[i].id = t[j].id
          PROVE  FALSE
      <3>1. i = j + Len(s)
        BY <1>2, <1>3, <1>6, <2>3 DEF Distinct
      <3>2. i \in Nat /\ j \in Nat /\ i <= Len(s) /\ j + Len(s) > Len(s)
        BY <1>1, <1>2, <1>3 DEF IndicesOf
      <3> QED
        BY <1>1, <3>1, <3>2
    <2> QED
      BY <2>1, <2>2, <2>3 DEF IdsIn
  <1>7. ASSUME Distinct(s, K), Distinct(t, K), IdsIn(s, K) \intersect IdsIn(t, K) = {}
        PROVE  Distinct(u, K)
    <2> SUFFICES ASSUME NEW i \in IndicesOf(u, K), NEW j \in IndicesOf(u, K), u[i].id = u[j].id
                 PROVE  i = j
      BY DEF Distinct
    <2>1. CASE i \in IndicesOf(s, K) /\ u[i] = s[i] /\ j \in IndicesOf(s, K) /\ u[j] = s[j]
      BY <1>7, <2>1 DEF Distinct
    <2>2. CASE /\ i > Len(s) /\ i - Len(s) \in IndicesOf(t, K) /\ u[i] = t[i - Len(s)] /\ i \in Nat
               /\ j > Len(s) /\ j - Len(s) \in IndicesOf(t, K) /\ u[j] = t[j - Len(s)] /\ j \in Nat
      <3>1. i - Len(s) = j - Len(s)
        BY <1>7, <2>2 DEF Distinct
      <3> QED
        BY <1>1, <2>2, <3>1
    <2>3. ~(i \in IndicesOf(s, K) /\ u[i] = s[i]
            /\ j - Len(s) \in IndicesOf(t, K) /\ u[j] = t[j - Len(s)])
      BY <1>7 DEF IdsIn
    <2>4. ~(j \in IndicesOf(s, K) /\ u[j] = s[j]
            /\ i - Len(s) \in IndicesOf(t, K) /\ u[i] = t[i - Len(s)])
      BY <1>7 DEF IdsIn
    <2> QED
      BY <1>4, <2>1, <2>2, <2>3, <2>4
  <1> QED
    BY <1>5, <1>6, <1>7 DEF u

\* One message, none, and sequences of these kinds or of others only.
LEMMA InOne ==
    ASSUME NEW e, NEW K
    PROVE  /\ IdsIn(<<e>>, K) = (IF e.kind \in K THEN {e.id} ELSE {})
           /\ Distinct(<<e>>, K)
           /\ IdsIn(<<>>, K) = {} /\ Distinct(<<>>, K)
  <1>1. IndicesOf(<<e>>, K) = (IF e.kind \in K THEN {1} ELSE {}) /\ IndicesOf(<<>>, K) = {}
    BY DEF IndicesOf
  <1> QED
    BY <1>1 DEF IdsIn, Distinct

LEMMA InNone ==
    ASSUME NEW R, NEW s \in Seq(R), NEW K, \A e \in R : e.kind \notin K
    PROVE  IdsIn(s, K) = {} /\ Distinct(s, K)
  <1>1. IndicesOf(s, K) = {}
    BY DEF IndicesOf
  <1> QED
    BY <1>1 DEF IdsIn, Distinct

LEMMA InAll ==
    ASSUME NEW R, NEW s \in Seq(R), NEW K, \A e \in R : e.kind \in K
    PROVE  /\ IdsIn(s, K) = AllIds(s)
           /\ Distinct(s, K) <=> IsInjective(Ids(s))
  <1>1. \A i \in DOMAIN s : s[i].kind \in K
    <2>1. \A i \in DOMAIN s : s[i] \in R
      OBVIOUS
    <2> QED
      BY <2>1
  <1>3. IndicesOf(s, K) = DOMAIN s
    BY <1>1 DEF IndicesOf
  <1>2. DOMAIN Ids(s) = DOMAIN s /\ \A i \in DOMAIN s : Ids(s)[i] = s[i].id
    BY DEF Ids
  <1> QED
    BY <1>2, <1>3 DEF IdsIn, Distinct, AllIds, IsInjective

\* Messages of the past have ids of the past.
LEMMA IdsUpto ==
    ASSUME NEW S, NEW R, NEW s \in Seq(R), NEW K, \A e \in R : e.kind \in K => e.id \in S
    PROVE  IdsIn(s, K) \subseteq S
  BY DEF IdsIn, IndicesOf

-----------------------------------------------------------------------------
\* Bash results are kept once.

Bash == {"bash"}
BashKept == OfKind(session, Bash) \o pendingBashMessages
KeptInv == Len(BashKept) = made["bash"] /\ Distinct(BashKept, Bash)

\* Only a bash result of a client is counted.
LEMMA BashCounted ==
    ASSUME Typed, [Next]_vars
    PROVE  made'["bash"] = made["bash"] \/ RecordBash
  <1>1. \A c \in Calls \ {"bash"} : ClientCall(c) => made'["bash"] = made["bash"]
    BY CallCounted DEF Typed, Calls
  <1>2. CASE ClientStep
    BY <1>1, <1>2 DEF ClientStep, Compact, Abort, Steer, FollowUp, QueueCustom, NextTurn, ClearQueue, Prompt, Calls
  <1>3. CASE UNCHANGED vars
    BY <1>3 DEF vars, countVars
  <1>4. CASE RunStep
    BY <1>4 DEF RunStep, Inject, ToolsEnd, FinishRun, Reply, countVars
  <1>5. CASE CompactStep
    BY <1>5 DEF CompactStep, CompactReads, CompactSaves, CompactEnds, countVars
  <1>6. ASSUME NEW p \in Prompters, PromptStep(p)
        PROVE  UNCHANGED made
    BY <1>6 DEF PromptStep, Preflight, Submit, PauseEnds, PauseAborted, Summarized, SummaryFails,
       Resume, countVars
  <1> QED
    BY <1>2, <1>3, <1>4, <1>5, <1>6 DEF Next, InternalStep

\* Entries that are no bash results make no difference.
LEMMA BashSame ==
    ASSUME Kinded, NEW t \in Seq(EntryType), session' = session \o t,
           \A k \in DOMAIN t : t[k].kind # "bash", pendingBashMessages' = pendingBashMessages
    PROVE  BashKept' = BashKept
  <1>1. session \in Seq(EntryType)
    BY DEF Kinded, Controlled, Typed, ContentsTyped
  <1>2. OfKind(t, Bash) = <<>>
    BY OfKindNone DEF Bash
  <1>3. OfKind(session, Bash) \in Seq(EntryType)
    BY <1>1, OfKindType
  <1>4. OfKind(session', Bash) = OfKind(session, Bash) \o OfKind(t, Bash)
    BY <1>1, OfKindConcat
  <1>5. OfKind(session', Bash) = OfKind(session, Bash)
    BY <1>2, <1>3, <1>4, ConcatEmptySeq
  <1> QED
    BY <1>5 DEF BashKept

LEMMA StepKept ==
    ASSUME Kinded, KeptInv, [Next]_vars
    PROVE  KeptInv'
  <1> DEFINE a == OfKind(session, Bash)
             pb == pendingBashMessages
             B == MessagesOf(Bash, events)
  <1>0. /\ session \in Seq(EntryType) /\ SessionOf(events) /\ events \in Nat /\ PendingOf(events)
        /\ HandsOf(events) /\ made["bash"] \in Nat
    BY DEF Kinded, KindedUpto, Controlled, Typed, RestTyped, ContentsTyped, Calls
  <1>1. a \in Seq(EntryType) /\ pb \in Seq(B) /\ pb \in Seq(EntryType)
    <2>1. B \subseteq EntryType
      BY MessagesAreEntries DEF MessagesOf
    <2>2. a \in Seq(EntryType) /\ pb \in Seq(B)
      BY <1>0, OfKindType DEF PendingOf, Bash
    <2> QED
      BY <2>1, <2>2, SeqMonotonic
  <1>2. ASSUME ~RecordBash
        PROVE  KeptInv'
    <2>1. made'["bash"] = made["bash"]
      BY <1>2, BashCounted DEF Kinded, Controlled
    <2>2. BashKept' = BashKept
      <3>1. CASE Rests
        BY <3>1 DEF Rests, BashKept
      <3>2. CASE Flushes
        <4>1. OfKind(session \o pb, Bash) = a \o OfKind(pb, Bash)
          BY <1>0, <1>1, OfKindConcat
        <4>2. \A i \in DOMAIN pb : pb[i].kind \in Bash
          BY <1>1 DEF MessagesOf
        <4>3. OfKind(pb, Bash) = pb
          BY <1>1, <4>2, OfKindAll
        <4>4. (a \o pb) \in Seq(EntryType)
          BY <1>1, ConcatTyped
        <4>5. (a \o pb) \o <<>> = a \o pb
          BY <4>4, ConcatEmptySeq
        <4> QED
          BY <3>2, <4>1, <4>3, <4>5 DEF Flushes, BashKept
      <3>3. CASE Saves(Replies \union Client, events')
        <4>1. PICK t \in Seq(MessagesOf(Replies \union Client, events')) :
                  session' = session \o t /\ pendingBashMessages' = pendingBashMessages
          BY <3>3 DEF Saves
        <4>2. MessagesOf(Replies \union Client, events') \subseteq EntryType
          BY MessagesAreEntries DEF MessagesOf
        <4>3. t \in Seq(EntryType)
          BY ONLY <4>1, <4>2, SeqMonotonic
        <4>4. \A k \in DOMAIN t : t[k] \in MessagesOf(Replies \union Client, events')
          BY <4>1
        <4>5. \A k \in DOMAIN t : t[k].kind # "bash"
          BY <4>4 DEF MessagesOf, Replies, Client
        <4> QED
          BY <4>1, <4>3, <4>5, BashSame
      <3>4. CASE ToolsEnd
        <4>1. PICK m \in MessagesOf({"result"}, events) :
                  \/ Rests
                  \/ session' = session \o <<m>> /\ pendingBashMessages' = pendingBashMessages
          BY <3>4, ToolsEndSaves
        <4>2. <<m>> \in Seq(EntryType) /\ \A k \in DOMAIN <<m>> : <<m>>[k].kind # "bash"
          BY MessagesAreEntries DEF MessagesOf
        <4> QED
          BY <3>1, <4>1, <4>2, BashSame
      <3>5. CASE Marks
        <4>1. PICK e \in EntryType :
                  /\ session' = Append(session, e) /\ e.kind = "compaction"
                  /\ pendingBashMessages' = pendingBashMessages
          BY <1>0, <3>5 DEF Marks, Compaction, EntryType
        <4>2. session' = session \o <<e>> /\ <<e>> \in Seq(EntryType)
              /\ \A k \in DOMAIN <<e>> : <<e>>[k].kind # "bash"
          BY <1>0, <4>1, AppendIsConcat
        <4> QED
          BY <4>1, <4>2, BashSame
      <3> QED
        BY <1>2, <3>1, <3>2, <3>3, <3>4, <3>5, SessionSteps
    <2> QED
      BY <2>1, <2>2 DEF KeptInv
  <1>3. CASE RecordBash
    <2> DEFINE e == Message("bash")
    <2>1. e \in EntryType /\ e.kind \in Bash /\ e.id = events + 1
      BY <1>0, MessageTyped, MessagesAreEntries DEF Kinds, Message, Bash
    <2>2. made'["bash"] = made["bash"] + 1
      BY <1>3, CallCounted DEF RecordBash, Kinded, Controlled, Typed, Calls
    <2>3. \/ session' = session /\ pb' = Append(pb, e)
          \/ session' = Append(session, e) /\ pb' = pb
      BY <1>3 DEF RecordBash
    <2> HIDE DEF e
    <2>4. IdsIn(a, Bash) \subseteq 0..events /\ IdsIn(pb, Bash) \subseteq 0..events
      <3>1. a \in Seq({y \in EntriesOf(events) : y.kind \in Bash})
        BY <1>0, OfKindType DEF SessionOf
      <3>2. \A x \in EntriesOf(events) : x.kind \in Bash => x.id \in 0..events
        BY DEF EntriesOf
      <3>3. IdsIn(a, Bash) \subseteq 0..events
        <4>1. \A x \in {y \in EntriesOf(events) : y.kind \in Bash} : x.kind \in Bash => x.id \in 0..events
          BY <3>2
        <4> HIDE DEF a
        <4> QED
          BY <3>1, <4>1, IdsUpto
      <3>4. IdsIn(pb, Bash) \subseteq 0..events
        <4>1. \A x \in B : x.kind \in Bash => x.id \in 0..events
          BY <1>0 DEF MessagesOf
        <4> HIDE DEF pb, B
        <4> QED
          BY <1>1, <4>1, IdsUpto
      <3> QED
        BY <3>3, <3>4
    <2>5. Distinct(a, Bash) /\ Distinct(pb, Bash) /\ IdsIn(a, Bash) \intersect IdsIn(pb, Bash) = {}
          /\ Len(a) + Len(pb) = made["bash"]
      BY <1>1, InConcat, ConcatProperties DEF KeptInv, BashKept
    <2>6. <<e>> \in Seq(EntryType) /\ IdsIn(<<e>>, Bash) = {events + 1} /\ Distinct(<<e>>, Bash)
          /\ events + 1 \notin 0..events /\ Len(<<e>>) = 1
      <3>1. IdsIn(<<e>>, Bash) = {events + 1} /\ Distinct(<<e>>, Bash)
        BY ONLY <2>1, InOne
      <3>2. <<e>> \in Seq(EntryType) /\ Len(<<e>>) = 1
        BY <2>1
      <3>3. events + 1 \notin 0..events
        BY <1>0
      <3> QED
        BY <3>1, <3>2, <3>3
    <2>7. \A s \in Seq(EntryType) :
              Distinct(s, Bash) /\ IdsIn(s, Bash) \subseteq 0..events
              => /\ Distinct(s \o <<e>>, Bash) /\ s \o <<e>> \in Seq(EntryType)
                 /\ Len(s \o <<e>>) = Len(s) + 1
                 /\ IdsIn(s \o <<e>>, Bash) = IdsIn(s, Bash) \union {events + 1}
      <3> TAKE s \in Seq(EntryType)
      <3>1. /\ IdsIn(s \o <<e>>, Bash) = IdsIn(s, Bash) \union IdsIn(<<e>>, Bash)
            /\ Distinct(s \o <<e>>, Bash)
                   <=> /\ Distinct(s, Bash) /\ Distinct(<<e>>, Bash)
                       /\ IdsIn(s, Bash) \intersect IdsIn(<<e>>, Bash) = {}
        BY <2>6, InConcat
      <3>2. s \o <<e>> \in Seq(EntryType) /\ Len(s \o <<e>>) = Len(s) + 1
        BY <2>6, ConcatProperties
      <3> QED
        BY <2>6, <3>1, <3>2
    <2>8. \E x, y \in Seq(EntryType) :
              /\ BashKept' = x \o y
              /\ Distinct(x, Bash) /\ Distinct(y, Bash) /\ IdsIn(x, Bash) \intersect IdsIn(y, Bash) = {}
              /\ Len(x) + Len(y) = made["bash"] + 1
      <3>1. CASE session' = session /\ pb' = Append(pb, e)
        <4>1. BashKept' = a \o (pb \o <<e>>)
          BY <1>1, <2>1, <3>1, AppendIsConcat DEF BashKept
        <4>2. /\ Distinct(pb \o <<e>>, Bash) /\ pb \o <<e>> \in Seq(EntryType)
              /\ Len(pb \o <<e>>) = Len(pb) + 1
              /\ IdsIn(pb \o <<e>>, Bash) = IdsIn(pb, Bash) \union {events + 1}
          BY <1>1, <2>4, <2>5, <2>7
        <4>3. IdsIn(a, Bash) \intersect IdsIn(pb \o <<e>>, Bash) = {}
          BY <2>4, <2>5, <2>6, <4>2
        <4>4. Len(a) + (Len(pb) + 1) = made["bash"] + 1
          BY <1>0, <1>1, <2>5, LenProperties
        <4> QED
          BY <1>1, <2>5, <4>1, <4>2, <4>3, <4>4
      <3>2. CASE session' = Append(session, e) /\ pb' = pb
        <4>1. OfKind(session', Bash) = a \o <<e>>
          BY <1>0, <2>1, <3>2, OfKindAppend
        <4>2. BashKept' = (a \o <<e>>) \o pb
          BY <3>2, <4>1 DEF BashKept
        <4>3. /\ Distinct(a \o <<e>>, Bash) /\ a \o <<e>> \in Seq(EntryType)
              /\ Len(a \o <<e>>) = Len(a) + 1
              /\ IdsIn(a \o <<e>>, Bash) = IdsIn(a, Bash) \union {events + 1}
          BY <1>1, <2>4, <2>5, <2>7
        <4>4. IdsIn(a \o <<e>>, Bash) \intersect IdsIn(pb, Bash) = {}
          BY <2>4, <2>5, <2>6, <4>3
        <4>5. (Len(a) + 1) + Len(pb) = made["bash"] + 1
          BY <1>0, <1>1, <2>5, LenProperties
        <4> QED
          BY <1>1, <2>5, <4>2, <4>3, <4>4, <4>5
      <3> QED
        BY <2>3, <3>1, <3>2
    <2> QED
      BY <2>2, <2>8, InConcat, ConcatProperties DEF KeptInv
  <1> QED
    BY <1>2, <1>3

\* A bash result is kept once, whatever it arrived in: a run, a pause, a
\* compaction.
THEOREM BashKeptAlways == Spec => []BashKeptOnce
  <1>1. Init => KeptInv
    <2> SUFFICES ASSUME Init
                 PROVE  KeptInv
      OBVIOUS
    <2>1. OfKind(session, Bash) = <<>> /\ pendingBashMessages = <<>> /\ made["bash"] = 0
      BY OfKindEmpty DEF Init, Calls
    <2>2. BashKept = <<>>
      BY <2>1 DEF BashKept
    <2> QED
      BY <2>1, <2>2, InOne DEF KeptInv
  <1>2. Kinded /\ KeptInv /\ [Next]_vars => KeptInv'
    BY StepKept
  <1>3. Kinded /\ KeptInv => BashKeptOnce
    <2> SUFFICES ASSUME Kinded, KeptInv
                 PROVE  BashKeptOnce
      OBVIOUS
    <2> DEFINE B == {m \in EntryType : m.kind \in Bash}
    <2>1. OfKind(session, Bash) \in Seq(B)
      BY OfKindType DEF Kinded, Controlled, Typed, ContentsTyped
    <2>2. pendingBashMessages \in Seq(B)
      <3>1. pendingBashMessages \in Seq(MessagesOf(Bash, events))
        BY DEF Kinded, KindedUpto, PendingOf, Bash
      <3>2. MessagesOf(Bash, events) \subseteq B
        BY MessagesAreEntries DEF MessagesOf
      <3> QED
        BY ONLY <3>1, <3>2, SeqMonotonic
    <2>3. BashKept \in Seq(B)
      BY <2>1, <2>2, ConcatTyped DEF BashKept
    <2>4. IsInjective(Ids(BashKept))
      BY <2>3, InAll DEF KeptInv
    <2> QED
      BY <2>4 DEF KeptInv, BashKeptOnce, BashKept, Bash
  <1> QED
    BY <1>1, <1>2, <1>3, KindInvariant, PTL DEF Spec

-----------------------------------------------------------------------------
\* Every message of a client is in one place.

Placed == session \o hands \o steeringQueue \o followUpQueue \o pendingNextTurnMessages
PlacedIds == IdsIn(Placed, Client)
Accounted ==
    /\ Distinct(Placed, Client)
    /\ sent = PlacedIds \union UNION {HeldBy(p) : p \in Prompters}
    /\ \A p \in Prompters :
           /\ HeldBy(p) \intersect PlacedIds = {}
           /\ \A q \in Prompters \ {p} : HeldBy(p) \intersect HeldBy(q) = {}
           /\ IsInjective(Ids(prompts[p].hands))
AccountInv == made["compact"] = 0 => Accounted

\* The ids of the five parts, each there once and in one part.
Apart(a, b) == a \intersect b = {}
LEMMA FiveParts ==
    ASSUME NEW R, NEW a \in Seq(R), NEW b \in Seq(R), NEW c \in Seq(R), NEW d \in Seq(R),
           NEW e \in Seq(R), NEW K
    PROVE  LET w == a \o b \o c \o d \o e
               A == IdsIn(a, K)
               B == IdsIn(b, K)
               C == IdsIn(c, K)
               D == IdsIn(d, K)
               E == IdsIn(e, K)
           IN /\ w \in Seq(R)
              /\ IdsIn(w, K) = A \union B \union C \union D \union E
              /\ Distinct(w, K)
                    <=> /\ Distinct(a, K) /\ Distinct(b, K) /\ Distinct(c, K) /\ Distinct(d, K)
                        /\ Distinct(e, K)
                        /\ Apart(A, B) /\ Apart(A, C) /\ Apart(A, D) /\ Apart(A, E)
                        /\ Apart(B, C) /\ Apart(B, D) /\ Apart(B, E)
                        /\ Apart(C, D) /\ Apart(C, E) /\ Apart(D, E)
  <1> DEFINE ab == a \o b
             abc == ab \o c
             abcd == abc \o d
             w == abcd \o e
  <1>1. /\ ab \in Seq(R)
        /\ IdsIn(ab, K) = IdsIn(a, K) \union IdsIn(b, K)
        /\ Distinct(ab, K)
               <=> Distinct(a, K) /\ Distinct(b, K) /\ IdsIn(a, K) \intersect IdsIn(b, K) = {}
    BY InConcat, ConcatTyped
  <1> HIDE DEF ab
  <1>2. /\ abc \in Seq(R)
        /\ IdsIn(abc, K) = IdsIn(ab, K) \union IdsIn(c, K)
        /\ Distinct(abc, K)
               <=> Distinct(ab, K) /\ Distinct(c, K) /\ IdsIn(ab, K) \intersect IdsIn(c, K) = {}
    BY <1>1, InConcat, ConcatTyped
  <1> HIDE DEF abc
  <1>3. /\ abcd \in Seq(R)
        /\ IdsIn(abcd, K) = IdsIn(abc, K) \union IdsIn(d, K)
        /\ Distinct(abcd, K)
               <=> Distinct(abc, K) /\ Distinct(d, K) /\ IdsIn(abc, K) \intersect IdsIn(d, K) = {}
    BY <1>2, InConcat, ConcatTyped
  <1> HIDE DEF abcd
  <1>4. /\ w \in Seq(R)
        /\ IdsIn(w, K) = IdsIn(abcd, K) \union IdsIn(e, K)
        /\ Distinct(w, K)
               <=> Distinct(abcd, K) /\ Distinct(e, K) /\ IdsIn(abcd, K) \intersect IdsIn(e, K) = {}
    BY <1>3, InConcat, ConcatTyped
  <1>5. w = a \o b \o c \o d \o e
    BY DEF ab, abc, abcd
  <1> HIDE DEF w
  <1>6. \A x, y, z : (x \union y) \intersect z = {} <=> Apart(x, z) /\ Apart(y, z)
    BY DEF Apart
  <1>7. IdsIn(ab, K) \intersect IdsIn(c, K) = {}
            <=> Apart(IdsIn(a, K), IdsIn(c, K)) /\ Apart(IdsIn(b, K), IdsIn(c, K))
    BY <1>1, <1>6
  <1>8. IdsIn(abc, K) \intersect IdsIn(d, K) = {}
            <=> /\ Apart(IdsIn(a, K), IdsIn(d, K)) /\ Apart(IdsIn(b, K), IdsIn(d, K))
                /\ Apart(IdsIn(c, K), IdsIn(d, K))
    BY <1>1, <1>2, <1>6 DEF Apart
  <1>9. IdsIn(abcd, K) \intersect IdsIn(e, K) = {}
            <=> /\ Apart(IdsIn(a, K), IdsIn(e, K)) /\ Apart(IdsIn(b, K), IdsIn(e, K))
                /\ Apart(IdsIn(c, K), IdsIn(e, K)) /\ Apart(IdsIn(d, K), IdsIn(e, K))
    BY <1>1, <1>2, <1>3, <1>6 DEF Apart
  <1>10. IdsIn(w, K) = IdsIn(a, K) \union IdsIn(b, K) \union IdsIn(c, K) \union IdsIn(d, K)
                       \union IdsIn(e, K)
    BY <1>1, <1>2, <1>3, <1>4
  <1>11. IdsIn(a, K) \intersect IdsIn(b, K) = {} <=> Apart(IdsIn(a, K), IdsIn(b, K))
    BY DEF Apart
  <1>12. Distinct(w, K)
            <=> /\ Distinct(a, K) /\ Distinct(b, K) /\ Distinct(c, K) /\ Distinct(d, K)
                /\ Distinct(e, K)
                /\ Apart(IdsIn(a, K), IdsIn(b, K)) /\ Apart(IdsIn(a, K), IdsIn(c, K))
                /\ Apart(IdsIn(a, K), IdsIn(d, K)) /\ Apart(IdsIn(a, K), IdsIn(e, K))
                /\ Apart(IdsIn(b, K), IdsIn(c, K)) /\ Apart(IdsIn(b, K), IdsIn(d, K))
                /\ Apart(IdsIn(b, K), IdsIn(e, K)) /\ Apart(IdsIn(c, K), IdsIn(d, K))
                /\ Apart(IdsIn(c, K), IdsIn(e, K)) /\ Apart(IdsIn(d, K), IdsIn(e, K))
    BY ONLY <1>1, <1>2, <1>3, <1>4, <1>7, <1>8, <1>9, <1>11
  <1> QED
    BY <1>4, <1>5, <1>10, <1>12

\* A queue is its first message and the others.
LEMMA QueueIn ==
    ASSUME NEW R, NEW q \in Seq(R), NEW K
    PROVE  /\ IdsIn(q, K) = IdsIn(FirstOf(q), K) \union IdsIn(RestOf(q), K)
           /\ Distinct(q, K)
                  <=> /\ Distinct(FirstOf(q), K) /\ Distinct(RestOf(q), K)
                      /\ Apart(IdsIn(FirstOf(q), K), IdsIn(RestOf(q), K))
  <1> DEFINE f == FirstOf(q)
             r == RestOf(q)
  <1>1. f \in Seq(R) /\ r \in Seq(R) /\ f \o r = q
    BY QueueParts
  <1> HIDE DEF f, r
  <1>2. /\ IdsIn(f \o r, K) = IdsIn(f, K) \union IdsIn(r, K)
        /\ Distinct(f \o r, K)
               <=> Distinct(f, K) /\ Distinct(r, K) /\ IdsIn(f, K) \intersect IdsIn(r, K) = {}
    BY <1>1, InConcat
  <1> QED
    BY <1>1, <1>2 DEF Apart, f, r

-----------------------------------------------------------------------------
\* The account, when one call and the places change.

LEMMA Ledger ==
    ASSUME Accounted, Distinct(Placed, Client)', NEW p \in Prompters,
           \A q \in Prompters \ {p} : prompts'[q] = prompts[q],
           IsInjective(Ids(prompts'[p].hands)), NEW new,
           PlacedIds' \union HeldBy(p)' = (PlacedIds \union HeldBy(p)) \union new,
           sent' = sent \union new, Apart(sent, new), Apart(HeldBy(p)', PlacedIds')
    PROVE  Accounted'
  <1>1. \A q \in Prompters \ {p} : HeldBy(q)' = HeldBy(q)
    BY DEF HeldBy
  <1>2. \A q \in Prompters : HeldBy(q) \subseteq sent /\ PlacedIds \subseteq sent
    BY DEF Accounted
  <1>3. \A q \in Prompters \ {p} :
            /\ HeldBy(q) \intersect (PlacedIds \union HeldBy(p)) = {}
            /\ Apart(HeldBy(q), new)
    BY <1>2 DEF Accounted, Apart
  <1>4. \A q \in Prompters \ {p} :
            HeldBy(q)' \intersect (PlacedIds' \union HeldBy(p)') = {}
    BY <1>1, <1>3 DEF Apart
  <1>5. \A q \in Prompters : \A r \in Prompters \ {q} : HeldBy(q)' \intersect HeldBy(r)' = {}
    BY <1>1, <1>4 DEF Accounted
  <1>6. sent' = PlacedIds' \union UNION {HeldBy(q)' : q \in Prompters}
    <2>1. \A x : x \in sent <=> x \in PlacedIds \/ \E q \in Prompters : x \in HeldBy(q)
      BY DEF Accounted
    <2>2. \A x : x \in sent' <=> x \in PlacedIds' \/ \E q \in Prompters : x \in HeldBy(q)'
      <3> TAKE x
      <3>1. (x \in PlacedIds' \/ x \in HeldBy(p)') <=> (x \in PlacedIds \/ x \in HeldBy(p) \/ x \in new)
        BY ONLY PlacedIds' \union HeldBy(p)' = (PlacedIds \union HeldBy(p)) \union new
      <3>2. x \in sent' <=> x \in sent \/ x \in new
        OBVIOUS
      <3> QED
        BY <1>1, <2>1, <3>1, <3>2
    <2> QED
      BY <2>2
  <1>7. \A q \in Prompters :
            HeldBy(q)' \intersect PlacedIds' = {} /\ IsInjective(Ids(prompts'[q].hands))
    BY <1>4 DEF Accounted, Apart
  <1> QED
    BY <1>5, <1>6, <1>7 DEF Accounted

\* A call gives up what it holds.
LEMMA LedgerDrops ==
    ASSUME Accounted, Distinct(Placed, Client)', NEW p \in Prompters,
           \A q \in Prompters \ {p} : prompts'[q] = prompts[q],
           IsInjective(Ids(prompts'[p].hands)),
           PlacedIds' = PlacedIds, HeldBy(p)' = {}, sent' = sent \ HeldBy(p)
    PROVE  Accounted'
  <1>1. \A q \in Prompters \ {p} : HeldBy(q)' = HeldBy(q)
    BY DEF HeldBy
  <1>2. \A q \in Prompters : \A r \in Prompters \ {q} : HeldBy(q)' \intersect HeldBy(r)' = {}
    BY <1>1 DEF Accounted
  <1>3. sent' = PlacedIds' \union UNION {HeldBy(q)' : q \in Prompters}
    <2>1. \A x : x \in sent <=> x \in PlacedIds \/ \E q \in Prompters : x \in HeldBy(q)
      BY DEF Accounted
    <2>2. \A x : x \in sent' <=> x \in PlacedIds' \/ \E q \in Prompters : x \in HeldBy(q)'
      <3> TAKE x
      <3>1. x \in sent' <=> x \in sent /\ x \notin HeldBy(p)
        OBVIOUS
      <3>2. x \in HeldBy(p) => x \notin PlacedIds /\ \A q \in Prompters \ {p} : x \notin HeldBy(q)
        BY DEF Accounted
      <3> QED
        BY <1>1, <2>1, <3>1, <3>2
    <2> QED
      BY <2>2
  <1>4. \A q \in Prompters :
            HeldBy(q)' \intersect PlacedIds' = {} /\ IsInjective(Ids(prompts'[q].hands))
    BY <1>1 DEF Accounted
  <1> QED
    BY <1>2, <1>3, <1>4 DEF Accounted

\* Only the places change: by new messages, or by messages taken back.
LEMMA LedgerPlaces ==
    ASSUME Accounted, Distinct(Placed, Client)',
           \A q \in Prompters : HeldBy(q)' = HeldBy(q) /\ prompts'[q].hands = prompts[q].hands,
           NEW new, NEW gone \in SUBSET PlacedIds, Apart(sent, new),
           PlacedIds' = (PlacedIds \ gone) \union new, sent' = (sent \ gone) \union new
    PROVE  Accounted'
  <1>1. \A q \in Prompters : Apart(HeldBy(q), PlacedIds) /\ HeldBy(q) \subseteq sent
    BY DEF Accounted, Apart
  <1>2. \A q \in Prompters : HeldBy(q)' \intersect PlacedIds' = {}
    BY <1>1 DEF Apart
  <1>3. sent' = PlacedIds' \union UNION {HeldBy(q)' : q \in Prompters}
    <2>1. \A x : x \in sent <=> x \in PlacedIds \/ \E q \in Prompters : x \in HeldBy(q)
      BY DEF Accounted
    <2>2. \A x : x \in sent' <=> x \in PlacedIds' \/ \E q \in Prompters : x \in HeldBy(q)'
      BY <1>1, <2>1 DEF Apart
    <2> QED
      BY <2>2
  <1> QED
    BY <1>2, <1>3 DEF Accounted

-----------------------------------------------------------------------------
\* The places of messages, as five sequences: what is in them, and that it is
\* there once.

AllOf(a, b, c, d, e) ==
    IdsIn(a, Client) \union IdsIn(b, Client) \union IdsIn(c, Client) \union IdsIn(d, Client)
    \union IdsIn(e, Client)
Once(a, b, c, d, e) ==
    LET A == IdsIn(a, Client)
        B == IdsIn(b, Client)
        C == IdsIn(c, Client)
        D == IdsIn(d, Client)
        E == IdsIn(e, Client)
    IN /\ Distinct(a, Client) /\ Distinct(b, Client) /\ Distinct(c, Client)
       /\ Distinct(d, Client) /\ Distinct(e, Client)
       /\ Apart(A, B) /\ Apart(A, C) /\ Apart(A, D) /\ Apart(A, E)
       /\ Apart(B, C) /\ Apart(B, D) /\ Apart(B, E)
       /\ Apart(C, D) /\ Apart(C, E) /\ Apart(D, E)
SameIn(s, t) ==
    /\ IdsIn(t, Client) = IdsIn(s, Client)
    /\ Distinct(t, Client) <=> Distinct(s, Client)

\* The account, in the five places.
LEMMA PlacedIs ==
    \A a, b, c, d, e \in Seq(EntryType) :
        /\ IdsIn(a \o b \o c \o d \o e, Client) = AllOf(a, b, c, d, e)
        /\ Distinct(a \o b \o c \o d \o e, Client) <=> Once(a, b, c, d, e)
  BY FiveParts DEF AllOf, Once

\* Another session with the same messages of clients.
LEMMA SessionSame ==
    \A a, b, c, d, e, s :
        SameIn(a, s) => /\ AllOf(s, b, c, d, e) = AllOf(a, b, c, d, e)
                        /\ Once(s, b, c, d, e) <=> Once(a, b, c, d, e)
  BY DEF SameIn, AllOf, Once

\* What the loop holds is saved.
LEMMA HandsSaved ==
    \A a, b, c, d, e \in Seq(EntryType) :
        /\ AllOf(a \o b, <<>>, c, d, e) = AllOf(a, b, c, d, e)
        /\ Once(a, b, c, d, e) => Once(a \o b, <<>>, c, d, e)
  <1> SUFFICES ASSUME NEW a \in Seq(EntryType), NEW b \in Seq(EntryType),
                      NEW c \in Seq(EntryType), NEW d \in Seq(EntryType), NEW e \in Seq(EntryType)
               PROVE  /\ AllOf(a \o b, <<>>, c, d, e) = AllOf(a, b, c, d, e)
                      /\ Once(a, b, c, d, e) => Once(a \o b, <<>>, c, d, e)
    OBVIOUS
  <1> DEFINE ab == a \o b
  <1>1. /\ IdsIn(ab, Client) = IdsIn(a, Client) \union IdsIn(b, Client)
        /\ Distinct(ab, Client)
               <=> /\ Distinct(a, Client) /\ Distinct(b, Client)
                   /\ IdsIn(a, Client) \intersect IdsIn(b, Client) = {}
    BY InConcat
  <1>2. IdsIn(<<>>, Client) = {} /\ Distinct(<<>>, Client)
    BY InOne
  <1> HIDE DEF ab
  <1>3. AllOf(ab, <<>>, c, d, e) = AllOf(a, b, c, d, e)
    BY ONLY <1>1, <1>2 DEF AllOf
  <1>4. Once(a, b, c, d, e) => Once(ab, <<>>, c, d, e)
    BY ONLY <1>1, <1>2 DEF Once, Apart
  <1> QED
    BY <1>3, <1>4 DEF ab

\* The loop polls a queue with nothing in its hands.
LEMMA Polled ==
    \A a, c, d, e \in Seq(EntryType) :
        /\ AllOf(a, FirstOf(c), RestOf(c), d, e) = AllOf(a, <<>>, c, d, e)
        /\ Once(a, <<>>, c, d, e) => Once(a, FirstOf(c), RestOf(c), d, e)
        /\ AllOf(a, FirstOf(d), c, RestOf(d), e) = AllOf(a, <<>>, c, d, e)
        /\ Once(a, <<>>, c, d, e) => Once(a, FirstOf(d), c, RestOf(d), e)
  <1> SUFFICES ASSUME NEW a \in Seq(EntryType), NEW c \in Seq(EntryType),
                      NEW d \in Seq(EntryType), NEW e \in Seq(EntryType)
               PROVE  /\ AllOf(a, FirstOf(c), RestOf(c), d, e) = AllOf(a, <<>>, c, d, e)
                      /\ Once(a, <<>>, c, d, e) => Once(a, FirstOf(c), RestOf(c), d, e)
                      /\ AllOf(a, FirstOf(d), c, RestOf(d), e) = AllOf(a, <<>>, c, d, e)
                      /\ Once(a, <<>>, c, d, e) => Once(a, FirstOf(d), c, RestOf(d), e)
    OBVIOUS
  <1>1. /\ IdsIn(c, Client) = IdsIn(FirstOf(c), Client) \union IdsIn(RestOf(c), Client)
        /\ Distinct(c, Client)
               <=> /\ Distinct(FirstOf(c), Client) /\ Distinct(RestOf(c), Client)
                   /\ Apart(IdsIn(FirstOf(c), Client), IdsIn(RestOf(c), Client))
    BY QueueIn
  <1>2. /\ IdsIn(d, Client) = IdsIn(FirstOf(d), Client) \union IdsIn(RestOf(d), Client)
        /\ Distinct(d, Client)
               <=> /\ Distinct(FirstOf(d), Client) /\ Distinct(RestOf(d), Client)
                   /\ Apart(IdsIn(FirstOf(d), Client), IdsIn(RestOf(d), Client))
    BY QueueIn
  <1>3. IdsIn(<<>>, Client) = {}
    BY InOne
  <1>4. \A x, y, z : /\ Apart(x, y \union z) <=> Apart(x, y) /\ Apart(x, z)
                     /\ Apart(y \union z, x) <=> Apart(y, x) /\ Apart(z, x)
                     /\ Apart(x, y) <=> Apart(y, x)
    BY DEF Apart
  <1>5. AllOf(a, FirstOf(c), RestOf(c), d, e) = AllOf(a, <<>>, c, d, e)
    BY ONLY <1>1, <1>3 DEF AllOf
  <1>6. AllOf(a, FirstOf(d), c, RestOf(d), e) = AllOf(a, <<>>, c, d, e)
    BY ONLY <1>2, <1>3 DEF AllOf
  <1>7. Once(a, <<>>, c, d, e) => Once(a, FirstOf(c), RestOf(c), d, e)
    <2>1. \A x : /\ Apart(x, IdsIn(c, Client))
                     => /\ Apart(x, IdsIn(FirstOf(c), Client)) /\ Apart(IdsIn(FirstOf(c), Client), x)
                        /\ Apart(x, IdsIn(RestOf(c), Client))
                 /\ Apart(IdsIn(c, Client), x)
                     => /\ Apart(IdsIn(FirstOf(c), Client), x) /\ Apart(IdsIn(RestOf(c), Client), x)
      BY ONLY <1>1, <1>4
    <2> QED
      BY ONLY <1>1, <2>1 DEF Once
  <1>8. Once(a, <<>>, c, d, e) => Once(a, FirstOf(d), c, RestOf(d), e)
    <2>1. \A x : /\ Apart(x, IdsIn(d, Client))
                     => /\ Apart(x, IdsIn(FirstOf(d), Client)) /\ Apart(IdsIn(FirstOf(d), Client), x)
                        /\ Apart(x, IdsIn(RestOf(d), Client))
                 /\ Apart(IdsIn(d, Client), x)
                     => /\ Apart(IdsIn(FirstOf(d), Client), x) /\ Apart(IdsIn(RestOf(d), Client), x)
      BY ONLY <1>2, <1>4
    <2> QED
      BY ONLY <1>2, <2>1 DEF Once
  <1> QED
    BY <1>5, <1>6, <1>7, <1>8

\* The next-turn messages are taken, and messages are given to the loop.
LEMMA Taken ==
    \A a, b, c, d, e :
        /\ AllOf(a, b, c, d, <<>>) \union IdsIn(e, Client) = AllOf(a, b, c, d, e)
        /\ Once(a, b, c, d, e) => /\ Once(a, b, c, d, <<>>)
                                  /\ Apart(AllOf(a, b, c, d, <<>>), IdsIn(e, Client))
  <1> SUFFICES ASSUME NEW a, NEW b, NEW c, NEW d, NEW e
               PROVE  /\ AllOf(a, b, c, d, <<>>) \union IdsIn(e, Client) = AllOf(a, b, c, d, e)
                      /\ Once(a, b, c, d, e) => /\ Once(a, b, c, d, <<>>)
                                                /\ Apart(AllOf(a, b, c, d, <<>>), IdsIn(e, Client))
    OBVIOUS
  <1>1. IdsIn(<<>>, Client) = {} /\ Distinct(<<>>, Client)
    BY InOne
  <1> QED
    BY ONLY <1>1 DEF AllOf, Once, Apart

\* Messages are put in the loop's empty hands.
LEMMA Given ==
    \A a, b, c, d, e :
        /\ AllOf(a, b, c, d, e) = AllOf(a, <<>>, c, d, e) \union IdsIn(b, Client)
        /\ /\ Once(a, <<>>, c, d, e) /\ Distinct(b, Client)
           /\ Apart(IdsIn(b, Client), AllOf(a, <<>>, c, d, e))
           => Once(a, b, c, d, e)
  <1> SUFFICES ASSUME NEW a, NEW b, NEW c, NEW d, NEW e
               PROVE  /\ AllOf(a, b, c, d, e) = AllOf(a, <<>>, c, d, e) \union IdsIn(b, Client)
                      /\ /\ Once(a, <<>>, c, d, e) /\ Distinct(b, Client)
                         /\ Apart(IdsIn(b, Client), AllOf(a, <<>>, c, d, e))
                         => Once(a, b, c, d, e)
    OBVIOUS
  <1>1. IdsIn(<<>>, Client) = {}
    BY InOne
  <1> QED
    BY ONLY <1>1 DEF AllOf, Once, Apart

\* A message of a client is queued.
LEMMA QueuedIn ==
    ASSUME NEW q \in Seq(EntryType), NEW m \in EntryType, m.kind \in Client
    PROVE  /\ IdsIn(Append(q, m), Client) = IdsIn(q, Client) \union {m.id}
           /\ m.id \notin IdsIn(q, Client) /\ Distinct(q, Client) => Distinct(Append(q, m), Client)
  <1>1. Append(q, m) = q \o <<m>> /\ <<m>> \in Seq(EntryType)
    BY AppendIsConcat
  <1>2. IdsIn(<<m>>, Client) = {m.id} /\ Distinct(<<m>>, Client)
    BY InOne
  <1>3. /\ IdsIn(q \o <<m>>, Client) = IdsIn(q, Client) \union IdsIn(<<m>>, Client)
        /\ Distinct(q \o <<m>>, Client)
               <=> /\ Distinct(q, Client) /\ Distinct(<<m>>, Client)
                   /\ IdsIn(q, Client) \intersect IdsIn(<<m>>, Client) = {}
    BY <1>1, InConcat
  <1> QED
    BY ONLY <1>1, <1>2, <1>3

\* A message more in a queue.
Added(q, m) == Append(q, m)
LEMMA Queued ==
    \A a, b, c, d, e \in Seq(EntryType), m \in EntryType :
        m.kind \in Client /\ m.id \notin AllOf(a, b, c, d, e) /\ Once(a, b, c, d, e)
        => /\ Once(a, b, Added(c, m), d, e) /\ Once(a, b, c, Added(d, m), e)
           /\ Once(a, b, c, d, Added(e, m))
           /\ AllOf(a, b, Added(c, m), d, e) = AllOf(a, b, c, d, e) \union {m.id}
           /\ AllOf(a, b, c, Added(d, m), e) = AllOf(a, b, c, d, e) \union {m.id}
           /\ AllOf(a, b, c, d, Added(e, m)) = AllOf(a, b, c, d, e) \union {m.id}
  <1> TAKE a, b, c, d, e \in Seq(EntryType), m \in EntryType
  <1> HAVE m.kind \in Client /\ m.id \notin AllOf(a, b, c, d, e) /\ Once(a, b, c, d, e)
  <1>1. \A q \in {c, d, e} :
            /\ IdsIn(Added(q, m), Client) = IdsIn(q, Client) \union {m.id}
            /\ m.id \notin IdsIn(q, Client) /\ Distinct(q, Client) => Distinct(Added(q, m), Client)
    BY QueuedIn DEF Added
  <1>2. \A x, y : /\ Apart(x, y \union {m.id}) <=> Apart(x, y) /\ m.id \notin x
                  /\ Apart(y \union {m.id}, x) <=> Apart(y, x) /\ m.id \notin x
    BY DEF Apart
  <1>3. /\ m.id \notin IdsIn(a, Client) /\ m.id \notin IdsIn(b, Client)
        /\ m.id \notin IdsIn(c, Client) /\ m.id \notin IdsIn(d, Client)
        /\ m.id \notin IdsIn(e, Client)
    BY DEF AllOf
  <1>4. Once(a, b, Added(c, m), d, e)
    BY ONLY <1>1, <1>2, <1>3, Once(a, b, c, d, e) DEF Once
  <1>5. Once(a, b, c, Added(d, m), e)
    BY ONLY <1>1, <1>2, <1>3, Once(a, b, c, d, e) DEF Once
  <1>6. Once(a, b, c, d, Added(e, m))
    BY ONLY <1>1, <1>2, <1>3, Once(a, b, c, d, e) DEF Once
  <1>7. /\ AllOf(a, b, Added(c, m), d, e) = AllOf(a, b, c, d, e) \union {m.id}
        /\ AllOf(a, b, c, Added(d, m), e) = AllOf(a, b, c, d, e) \union {m.id}
        /\ AllOf(a, b, c, d, Added(e, m)) = AllOf(a, b, c, d, e) \union {m.id}
    BY ONLY <1>1 DEF AllOf
  <1> QED
    BY <1>4, <1>5, <1>6, <1>7

\* Both queues are cleared.
LEMMA Cleared ==
    \A a, b, c, d, e :
        Once(a, b, c, d, e)
        => /\ Once(a, b, <<>>, <<>>, e)
           /\ AllOf(a, b, <<>>, <<>>, e)
                  = AllOf(a, b, c, d, e) \ (IdsIn(c, Client) \union IdsIn(d, Client))
  <1> SUFFICES ASSUME NEW a, NEW b, NEW c, NEW d, NEW e, Once(a, b, c, d, e)
               PROVE  /\ Once(a, b, <<>>, <<>>, e)
                      /\ AllOf(a, b, <<>>, <<>>, e)
                             = AllOf(a, b, c, d, e) \ (IdsIn(c, Client) \union IdsIn(d, Client))
    OBVIOUS
  <1>1. IdsIn(<<>>, Client) = {} /\ Distinct(<<>>, Client)
    BY InOne
  <1>2. Once(a, b, <<>>, <<>>, e)
    BY ONLY <1>1, Once(a, b, c, d, e) DEF Once, Apart
  <1>3. AllOf(a, b, <<>>, <<>>, e)
            = AllOf(a, b, c, d, e) \ (IdsIn(c, Client) \union IdsIn(d, Client))
    BY ONLY <1>1, Once(a, b, c, d, e) DEF Once, AllOf, Apart
  <1> QED
    BY <1>2, <1>3

-----------------------------------------------------------------------------
\* The steps of the calls keep the account.

\* The places are sequences of entries, of the past.
PlacesTyped ==
    /\ session \in Seq(EntryType) /\ hands \in Seq(EntryType)
    /\ steeringQueue \in Seq(EntryType) /\ followUpQueue \in Seq(EntryType)
    /\ pendingNextTurnMessages \in Seq(EntryType)
AllPlaced == AllOf(session, hands, steeringQueue, followUpQueue, pendingNextTurnMessages)
OncePlaced == Once(session, hands, steeringQueue, followUpQueue, pendingNextTurnMessages)

LEMMA PlacesAre ==
    ASSUME Kinded
    PROVE  /\ PlacesTyped /\ PlacedIds = AllPlaced
           /\ Distinct(Placed, Client) <=> OncePlaced
  <1>1. PlacesTyped
    BY MessagesAreEntries DEF PlacesTyped, Kinded, Controlled, Typed, ContentsTyped, LoopTyped
  <1> QED
    BY <1>1, PlacedIs DEF PlacesTyped, PlacedIds, Placed, AllPlaced, OncePlaced

LEMMA PlacesAreNext ==
    ASSUME Kinded'
    PROVE  /\ PlacesTyped' /\ PlacedIds' = AllPlaced'
           /\ Distinct(Placed, Client)' <=> OncePlaced'
  <1>1. PlacesTyped'
    BY MessagesAreEntries DEF PlacesTyped, Kinded, Controlled, Typed, ContentsTyped, LoopTyped
  <1> QED
    BY <1>1, PlacedIs DEF PlacesTyped, PlacedIds, Placed, AllPlaced, OncePlaced

LEMMA AccountedNow ==
    ASSUME Kinded, Accounted
    PROVE  /\ OncePlaced /\ AllPlaced \subseteq sent
           /\ sent \subseteq 1..events
           /\ \A p \in Prompters : Apart(HeldBy(p), AllPlaced) /\ HeldBy(p) \subseteq sent
  BY PlacesAre DEF Accounted, Kinded, KindedUpto, SentOf, Apart

\* Entries that are no messages of clients make no difference.
LEMMA NoClientsAdded ==
    ASSUME NEW s \in Seq(EntryType), NEW t \in Seq(EntryType), IdsIn(t, Client) = {},
           Distinct(t, Client)
    PROVE  SameIn(s, s \o t)
  <1>1. /\ IdsIn(s \o t, Client) = IdsIn(s, Client) \union IdsIn(t, Client)
        /\ Distinct(s \o t, Client)
               <=> /\ Distinct(s, Client) /\ Distinct(t, Client)
                   /\ IdsIn(s, Client) \intersect IdsIn(t, Client) = {}
    BY InConcat
  <1> QED
    BY <1>1 DEF SameIn

LEMMA BashAdded ==
    ASSUME Kinded, Rests \/ Flushes \/ Marks
    PROVE  SameIn(session, session')
  <1>0. session \in Seq(EntryType) /\ PendingOf(events) /\ events \in Nat
    BY DEF Kinded, KindedUpto, Controlled, Typed, ContentsTyped, RestTyped
  <1>1. CASE Rests
    BY <1>1 DEF Rests, SameIn
  <1>2. CASE Flushes
    <2> DEFINE t == pendingBashMessages
               B == MessagesOf({"bash"}, events)
    <2>1. t \in Seq(B) /\ B \subseteq EntryType /\ \A e \in B : e.kind \notin Client
      BY <1>0, MessagesAreEntries DEF PendingOf, MessagesOf, Client
    <2> HIDE DEF B
    <2>2. t \in Seq(EntryType) /\ IdsIn(t, Client) = {} /\ Distinct(t, Client)
      BY <2>1, InNone, SeqMonotonic
    <2> QED
      BY <1>0, <1>2, <2>2, NoClientsAdded DEF Flushes
  <1>3. CASE Marks
    <2>1. PICK e \in EntryType : session' = Append(session, e) /\ e.kind = "compaction"
      BY <1>0, <1>3 DEF Marks, Compaction, EntryType
    <2>2. session' = session \o <<e>> /\ <<e>> \in Seq(EntryType)
      BY <1>0, <2>1, AppendIsConcat
    <2>3. IdsIn(<<e>>, Client) = {} /\ Distinct(<<e>>, Client)
      BY <2>1, InOne DEF Client
    <2> QED
      BY <1>0, <2>2, <2>3, NoClientsAdded
  <1> QED
    BY <1>1, <1>2, <1>3

\* A step that leaves the places as they are, but for the session, and what the
\* calls hold.
LEMMA QuietAccount ==
    ASSUME Kinded, Kinded', Accounted, SameIn(session, session'),
           UNCHANGED <<hands, steeringQueue, followUpQueue, pendingNextTurnMessages>>,
           \A q \in Prompters : HeldBy(q)' = HeldBy(q) /\ prompts'[q].hands = prompts[q].hands,
           sent' = sent
    PROVE  Accounted'
  <1>1. AllPlaced' = AllPlaced /\ OncePlaced'
    BY SessionSame, AccountedNow DEF AllPlaced, OncePlaced
  <1>2. Distinct(Placed, Client)' /\ PlacedIds' = PlacedIds
    BY <1>1, PlacesAre, PlacesAreNext
  <1>3. Apart(sent, {}) /\ {} \in SUBSET PlacedIds
        /\ PlacedIds' = (PlacedIds \ {}) \union {} /\ sent' = (sent \ {}) \union {}
    BY <1>2 DEF Apart
  <1> QED
    BY <1>2, <1>3, LedgerPlaces

\* What a call holds that has not been taken up by before_agent_start.
LEMMA HeldShape ==
    ASSUME Kinded, NEW p \in Prompters, prompts[p].at # "hook"
    PROVE  /\ prompts[p].hands = <<>>
           /\ HeldBy(p) = (IF prompts[p].pre = "no" THEN {} ELSE {prompts[p].message.id})
  BY DEF Kinded, Controlled, Shapes, ShapeOf, HeldBy

LEMMA EmptyInjective == IsInjective(Ids(<<>>))
  BY DEF IsInjective, Ids

\* A call that moves with what it holds.
LEMMA MovedAccount ==
    ASSUME Kinded, Kinded', Accounted, SameIn(session, session'),
           UNCHANGED <<hands, steeringQueue, followUpQueue, pendingNextTurnMessages, sent>>,
           NEW p \in Prompters, prompts[p].at # "hook", prompts'[p].at # "hook",
           prompts'[p].hands = <<>>,
           (prompts'[p].pre = "no") <=> (prompts[p].pre = "no"),
           prompts'[p].pre # "no" => prompts'[p].message = prompts[p].message,
           \A q \in Prompters \ {p} : prompts'[q] = prompts[q]
    PROVE  Accounted'
  <1>1. \A q \in Prompters : HeldBy(q)' = HeldBy(q) /\ prompts'[q].hands = prompts[q].hands
    <2> TAKE q \in Prompters
    <2>1. CASE q = p
      BY <2>1, HeldShape DEF HeldBy
    <2>2. CASE q # p
      BY <2>2 DEF HeldBy
    <2> QED
      BY <2>1, <2>2
  <1> QED
    BY <1>1, QuietAccount

\* The next-turn messages are taken.
LEMMA TakeAccount ==
    ASSUME Kinded, Kinded', Accounted, SameIn(session, session'),
           UNCHANGED <<hands, steeringQueue, followUpQueue, sent>>,
           NEW p \in Prompters, prompts[p].at # "hook", prompts[p].pre # "no", TakeMessages(p)
    PROVE  Accounted'
  <1> DEFINE m == prompts[p].message
             pN == pendingNextTurnMessages
             C == MessagesOf(Client, events)
  <1>1. /\ prompts'[p].at = "hook" /\ prompts'[p].hands = <<m>> \o pN /\ pN' = <<>>
        /\ \A q \in Prompters \ {p} : prompts'[q] = prompts[q]
    <2>1. prompts \in [Prompters -> CallType]
      BY DEF Kinded, Controlled, Typed, ContentsTyped
    <2> QED
      BY <2>1 DEF TakeMessages, Idle
  <1>2. m \in C /\ pN \in Seq(C) /\ HeldBy(p) = {m.id} /\ \A e \in C : e.kind \in Client
    <2>1. m \in MessagesOf({"user"}, events) /\ pN \in Seq(MessagesOf({"custom"}, events))
      BY DEF Kinded, KindedUpto, CallsOf, PendingOf
    <2>2. MessagesOf({"user"}, events) \subseteq C /\ MessagesOf({"custom"}, events) \subseteq C
      BY DEF MessagesOf, Client
    <2>3. pN \in Seq(C)
      BY ONLY <2>1, <2>2, SeqMonotonic
    <2> QED
      BY <2>1, <2>2, <2>3, HeldShape DEF MessagesOf
  <1> HIDE DEF m, pN, C
  <1>3. /\ AllOf(session, hands, steeringQueue, followUpQueue, <<>>) \union IdsIn(pN, Client) = AllPlaced
        /\ Once(session, hands, steeringQueue, followUpQueue, <<>>)
        /\ Apart(AllOf(session, hands, steeringQueue, followUpQueue, <<>>), IdsIn(pN, Client))
        /\ Distinct(pN, Client)
    BY Taken, AccountedNow DEF AllPlaced, OncePlaced, Once, pN
  <1>4. /\ AllPlaced' = AllOf(session, hands, steeringQueue, followUpQueue, <<>>) /\ OncePlaced'
    BY <1>1, <1>3, SessionSame DEF AllPlaced, OncePlaced, pN
  <1>5. /\ IdsIn(<<m>> \o pN, Client) = {m.id} \union IdsIn(pN, Client)
        /\ Distinct(<<m>> \o pN, Client)
        /\ <<m>> \o pN \in Seq(C)
    <2>1. <<m>> \in Seq(C)
      BY <1>2
    <2>2. IdsIn(<<m>>, Client) = {m.id} /\ Distinct(<<m>>, Client)
      BY <1>2, InOne
    <2>3. /\ IdsIn(<<m>> \o pN, Client) = IdsIn(<<m>>, Client) \union IdsIn(pN, Client)
          /\ Distinct(<<m>> \o pN, Client)
                 <=> /\ Distinct(<<m>>, Client) /\ Distinct(pN, Client)
                     /\ IdsIn(<<m>>, Client) \intersect IdsIn(pN, Client) = {}
          /\ <<m>> \o pN \in Seq(C)
      <3> DEFINE v == <<m>>
      <3>1. v \in Seq(C) /\ pN \in Seq(C)
        BY <1>2, <2>1
      <3> HIDE DEF v
      <3>2. v \o pN \in Seq(C)
        BY ONLY <3>1, ConcatTyped
      <3>3. /\ IdsIn(v \o pN, Client) = IdsIn(v, Client) \union IdsIn(pN, Client)
            /\ Distinct(v \o pN, Client)
                   <=> /\ Distinct(v, Client) /\ Distinct(pN, Client)
                       /\ IdsIn(v, Client) \intersect IdsIn(pN, Client) = {}
        BY ONLY <3>1, InConcat
      <3> QED
        BY <3>2, <3>3 DEF v
    <2>4. IdsIn(<<m>>, Client) \intersect IdsIn(pN, Client) = {}
      <3>1. Apart(HeldBy(p), AllPlaced) /\ IdsIn(pN, Client) \subseteq AllPlaced
        BY <1>3, AccountedNow
      <3> QED
        BY <1>2, <2>2, <3>1 DEF Apart
    <2> QED
      BY <1>3, <2>2, <2>3, <2>4
  <1>6. HeldBy(p)' = {m.id} \union IdsIn(pN, Client) /\ IsInjective(Ids(prompts'[p].hands))
    <2>1. /\ IdsIn(<<m>> \o pN, Client) = AllIds(<<m>> \o pN)
          /\ Distinct(<<m>> \o pN, Client) <=> IsInjective(Ids(<<m>> \o pN))
      BY <1>2, <1>5, InAll
    <2> QED
      BY <1>1, <1>5, <2>1 DEF HeldBy
  <1>7. /\ PlacedIds' \union HeldBy(p)' = (PlacedIds \union HeldBy(p)) \union {}
        /\ Apart(HeldBy(p)', PlacedIds')
        /\ Apart(sent, {}) /\ sent' = sent \union {} /\ Distinct(Placed, Client)'
    <2>1. PlacedIds = AllPlaced /\ PlacedIds' = AllPlaced' /\ Distinct(Placed, Client)'
      BY <1>4, PlacesAre, PlacesAreNext
    <2>2. Apart(HeldBy(p), AllPlaced)
      BY AccountedNow
    <2> QED
      BY <1>2, <1>3, <1>4, <1>6, <2>1, <2>2 DEF Apart
  <1> QED
    BY <1>1, <1>6, <1>7, Ledger

LEMMA ReturnAccount ==
    ASSUME Kinded, Kinded', Accounted, NEW p \in Prompters, prompts[p].at # "hook",
           NEW transcript, Return(p, transcript),
           UNCHANGED <<hands, steeringQueue, followUpQueue, sent>>
    PROVE  Accounted'
  <1>1. SameIn(session, session')
    BY CallRests, BashAdded
  <1>2. CASE prompts[p].pre = "no"
    <2>1. UNCHANGED pendingNextTurnMessages /\ prompts' = [prompts EXCEPT ![p] = Idle]
      BY <1>2 DEF Return
    <2>2. prompts'[p] = Idle /\ \A q \in Prompters \ {p} : prompts'[q] = prompts[q]
      BY <2>1 DEF Kinded, Controlled, Typed, ContentsTyped
    <2> QED
      BY <1>1, <1>2, <2>1, <2>2, MovedAccount DEF Idle
  <1>3. CASE prompts[p].pre # "no"
    BY <1>1, <1>3, TakeAccount DEF Return
  <1> QED
    BY <1>2, <1>3

\* A prompt() that rejects takes its messages back.
LEMMA RejectAccount ==
    ASSUME Kinded, Kinded', Accounted, NEW p \in Prompters, NEW transcript, Reject(p, transcript),
           UNCHANGED <<hands, steeringQueue, followUpQueue>>
    PROVE  Accounted'
  <1>1. SameIn(session, session')
    BY CallRests, BashAdded
  <1>2. /\ UNCHANGED pendingNextTurnMessages /\ prompts'[p] = Idle
        /\ \A q \in Prompters \ {p} : prompts'[q] = prompts[q]
    BY DEF Reject, Kinded, Controlled, Typed, ContentsTyped
  <1>3. AllPlaced' = AllPlaced /\ OncePlaced'
    BY <1>1, <1>2, SessionSame, AccountedNow DEF AllPlaced, OncePlaced
  <1>4. Distinct(Placed, Client)' /\ PlacedIds' = PlacedIds
    BY <1>3, PlacesAre, PlacesAreNext
  <1>5. HeldBy(p)' = {} /\ IsInjective(Ids(prompts'[p].hands))
    BY <1>2, EmptyInjective DEF HeldBy, Idle
  <1>6. sent' = sent \ HeldBy(p)
    <2>1. sent' = sent \ (AllIds(prompts[p].hands) \union {prompts[p].message.id})
      BY DEF Reject
    <2>2. 0 \notin sent
      BY AccountedNow DEF Kinded, Controlled, Typed, RestTyped
    <2>3. prompts[p].pre = "no" => prompts[p].message.id = 0
      BY DEF Kinded, Controlled, Shapes, ShapeOf, NoMessage
    <2>4. CASE prompts[p].at = "hook"
      <3>1. prompts[p].pre = "no" /\ HeldBy(p) = AllIds(prompts[p].hands)
        BY <2>4 DEF Kinded, Controlled, Shapes, ShapeOf, HeldBy
      <3> QED
        BY <2>1, <2>2, <2>3, <3>1
    <2>5. CASE prompts[p].at # "hook"
      <3>1. AllIds(prompts[p].hands) = {}
        BY <2>5, HeldShape DEF AllIds
      <3> QED
        BY <2>1, <2>2, <2>3, <2>5, <3>1, HeldShape
    <2> QED
      BY <2>4, <2>5
  <1> QED
    BY <1>2, <1>4, <1>5, <1>6, LedgerDrops

\* Messages move between the places.
LEMMA SameAccount ==
    ASSUME Kinded, Kinded', Accounted, AllPlaced' = AllPlaced, OncePlaced',
           \A q \in Prompters : HeldBy(q)' = HeldBy(q) /\ prompts'[q].hands = prompts[q].hands,
           sent' = sent
    PROVE  Accounted'
  <1>1. Distinct(Placed, Client)' /\ PlacedIds' = PlacedIds
    BY PlacesAre, PlacesAreNext
  <1>2. Apart(sent, {}) /\ {} \in SUBSET PlacedIds
        /\ PlacedIds' = (PlacedIds \ {}) \union {} /\ sent' = (sent \ {}) \union {}
    BY <1>1 DEF Apart
  <1> QED
    BY <1>1, <1>2, LedgerPlaces

\* The loop's hands are empty between runs and before a reply.
LEMMA HandsEmpty ==
    ASSUME Kinded, at \notin {"inject", "tools"}
    PROVE  hands = <<>>
  BY DEF Kinded, KindedUpto, HandsOf

\* A run starts with the first of a queue, or with nothing.
LEMMA StartAccount ==
    ASSUME Kinded, Kinded', Accounted, activeRun = "none", NEW p \in Prompters,
           prompts[p].at # "hook",
           NEW first, NEW poll, StartRun(p, first, poll), AllPlaced' = AllPlaced, OncePlaced',
           sent' = sent
    PROVE  Accounted'
  <1>1. /\ prompts'[p] = [Idle EXCEPT !.at = "run", !.message = prompts[p].message,
                             !.pre = IF prompts[p].pre = "check" THEN "loop" ELSE prompts[p].pre]
        /\ \A q \in Prompters \ {p} : prompts'[q] = prompts[q]
    BY DEF StartRun, Kinded, Controlled, Typed, ContentsTyped
  <1>2. \A q \in Prompters : HeldBy(q)' = HeldBy(q) /\ prompts'[q].hands = prompts[q].hands
    <2> TAKE q \in Prompters
    <2>1. CASE q = p
      <3>1. /\ prompts'[p].at = "run" /\ prompts'[p].message = prompts[p].message
            /\ prompts'[p].hands = <<>>
            /\ (prompts'[p].pre = "no") <=> (prompts[p].pre = "no")
        BY <1>1 DEF Idle
      <3> QED
        BY <2>1, <3>1, HeldShape DEF HeldBy
    <2>2. CASE q # p
      BY <1>1, <2>2 DEF HeldBy
    <2> QED
      BY <2>1, <2>2
  <1> QED
    BY <1>2, SameAccount

LEMMA ContinueAccount ==
    ASSUME Kinded, Kinded', Accounted, NEW p \in Prompters, prompts[p].at # "hook",
           NEW transcript, Continue(p, transcript)
    PROVE  Accounted'
  <1>1. CASE Refused(p, transcript)
    BY <1>1, RejectAccount DEF Refused, agentVars
  <1>2. CASE ~Refused(p, transcript)
    <2>1. /\ activeRun = "none" /\ UNCHANGED <<session, pendingNextTurnMessages, sent>>
          /\ \/ StartRun(p, <<>>, TRUE) /\ UNCHANGED <<steeringQueue, followUpQueue>>
             \/ /\ StartRun(p, FirstOf(steeringQueue), FALSE)
                /\ steeringQueue' = RestOf(steeringQueue) /\ UNCHANGED followUpQueue
             \/ /\ StartRun(p, FirstOf(followUpQueue), TRUE)
                /\ followUpQueue' = RestOf(followUpQueue) /\ UNCHANGED steeringQueue
      BY <1>2 DEF Continue, Refused
    <2>2. hands = <<>> /\ PlacesTyped
      BY <2>1, HandsEmpty, PlacesAre DEF Kinded, Controlled, Typed, LoopTyped
    <2>3. AllPlaced' = AllPlaced /\ OncePlaced'
      <3>1. OncePlaced
        BY AccountedNow
      <3>2. CASE hands' = <<>> /\ UNCHANGED <<steeringQueue, followUpQueue>>
        BY <2>1, <2>2, <3>1, <3>2 DEF AllPlaced, OncePlaced
      <3>3. CASE hands' = FirstOf(steeringQueue)
                 /\ steeringQueue' = RestOf(steeringQueue) /\ UNCHANGED followUpQueue
        BY <2>1, <2>2, <3>1, <3>3, Polled DEF AllPlaced, OncePlaced, PlacesTyped
      <3>4. CASE hands' = FirstOf(followUpQueue)
                 /\ followUpQueue' = RestOf(followUpQueue) /\ UNCHANGED steeringQueue
        BY <2>1, <2>2, <3>1, <3>4, Polled DEF AllPlaced, OncePlaced, PlacesTyped
      <3> QED
        BY <2>1, <3>2, <3>3, <3>4 DEF StartRun
    <2> QED
      BY <2>1, <2>3, StartAccount
  <1> QED
    BY <1>1, <1>2

LEMMA CheckCompactionAccount ==
    ASSUME Kinded, Kinded', Accounted, NEW p \in Prompters, prompts[p].at # "hook",
           NEW m, NEW skipAborted, CheckCompaction(p, m, skipAborted),
           UNCHANGED <<hands, steeringQueue, followUpQueue, sent>>
    PROVE  Accounted'
  <1>1. CASE Return(p, messages)
    BY <1>1, ReturnAccount
  <1>2. CASE \E retry : /\ StartSummary(p, retry)
                        /\ UNCHANGED <<session, pendingBashMessages, pendingNextTurnMessages>>
    <2>1. PICK retry : StartSummary(p, retry)
      BY <1>2
    <2>2. PICK keep \in Cuts :
              prompts' = [prompts EXCEPT ![p].at = "compact", ![p].retry = retry, ![p].keep = keep,
                                         ![p].last = NoMessage]
      BY <2>1 DEF StartSummary
    <2>3. prompts \in [Prompters -> CallType]
      BY DEF Kinded, Controlled, Typed, ContentsTyped
    <2>4. /\ prompts'[p].at = "compact" /\ prompts'[p].pre = prompts[p].pre
          /\ prompts'[p].message = prompts[p].message /\ prompts'[p].hands = prompts[p].hands
          /\ \A q \in Prompters \ {p} : prompts'[q] = prompts[q]
      BY <2>2, <2>3 DEF CallType
    <2>5. SameIn(session, session') /\ prompts[p].hands = <<>>
      BY <1>2, HeldShape DEF SameIn
    <2> QED
      BY <1>2, <2>4, <2>5, MovedAccount
  <1> QED
    BY <1>1, <1>2 DEF CheckCompaction

LEMMA FinishRunAccount ==
    ASSUME Kinded, Kinded', Accounted, FinishRun
    PROVE  Accounted'
  <1>1. UNCHANGED <<hands, steeringQueue, followUpQueue, sent>>
    BY DEF FinishRun
  <1>2. PICK p \in Prompters : prompts[p].at = "run" /\ AfterRun(p)
    BY DEF FinishRun
  <1>3. CASE Return(p, messages)
    BY <1>1, <1>2, <1>3, ReturnAccount
  <1>4. CASE CheckCompaction(p, lastAssistantMessage, TRUE)
    BY <1>1, <1>2, <1>4, CheckCompactionAccount
  <1>5. CASE Paused(p, lastAssistantMessage)
    <2>1. prompts \in [Prompters -> CallType]
      BY DEF Kinded, Controlled, Typed, ContentsTyped
    <2>2. /\ prompts'[p].at = "retry" /\ prompts'[p].pre = prompts[p].pre
          /\ prompts'[p].message = prompts[p].message /\ prompts'[p].hands = prompts[p].hands
          /\ \A q \in Prompters \ {p} : prompts'[q] = prompts[q]
      BY <1>5, <2>1 DEF Paused, CallType
    <2>3. SameIn(session, session') /\ prompts[p].hands = <<>> /\ UNCHANGED pendingNextTurnMessages
      BY <1>2, <1>5, HeldShape DEF SameIn, Paused
    <2> QED
      BY <1>1, <1>2, <2>2, <2>3, MovedAccount
  <1> QED
    BY <1>2, <1>3, <1>4, <1>5 DEF AfterRun, Paused

\* The agent takes the messages of a prompt().
LEMMA SubmitAccount ==
    ASSUME Kinded, Kinded', Accounted, NEW p \in Prompters, Submit(p)
    PROVE  Accounted'
  <1>1. CASE activeRun # "none"
    BY <1>1, RejectAccount DEF Submit
  <1>2. CASE activeRun = "none"
    <2> DEFINE c == prompts[p].hands
    <2>1. /\ prompts[p].at = "hook" /\ StartRun(p, c, TRUE)
          /\ UNCHANGED <<session, pendingNextTurnMessages, steeringQueue, followUpQueue, sent>>
      BY <1>2 DEF Submit
    <2>2. hands = <<>> /\ hands' = c
      BY <1>2, <2>1, HandsEmpty DEF StartRun, Kinded, Controlled, Typed, LoopTyped
    <2>3. HeldBy(p) = IdsIn(c, Client) /\ Distinct(c, Client)
      <3>1. c \in Seq(MessagesOf(Client, events)) /\ IsInjective(Ids(c))
        BY DEF Kinded, KindedUpto, CallsOf, Accounted
      <3>2. \A e \in MessagesOf(Client, events) : e.kind \in Client
        BY DEF MessagesOf
      <3> HIDE DEF c
      <3>3. IdsIn(c, Client) = AllIds(c) /\ Distinct(c, Client)
        BY <3>1, <3>2, InAll
      <3> QED
        BY <2>1, <3>3 DEF HeldBy, c
    <2>4. /\ prompts'[p].at = "run" /\ prompts'[p].pre = "no" /\ prompts'[p].hands = <<>>
          /\ \A q \in Prompters \ {p} : prompts'[q] = prompts[q]
      <3>1. prompts[p].pre = "no" /\ prompts \in [Prompters -> CallType]
        BY <2>1 DEF Kinded, Controlled, Shapes, ShapeOf, Typed, ContentsTyped
      <3> QED
        BY <2>1, <3>1 DEF StartRun, Idle
    <2>5. HeldBy(p)' = {} /\ IsInjective(Ids(prompts'[p].hands))
      BY <2>4, EmptyInjective DEF HeldBy
    <2>6. AllPlaced' = AllPlaced \union HeldBy(p) /\ OncePlaced'
      <3> HIDE DEF c
      <3>1. OncePlaced /\ Apart(HeldBy(p), AllPlaced)
        BY AccountedNow
      <3> QED
        BY <2>1, <2>2, <2>3, <3>1, Given DEF AllPlaced, OncePlaced
    <2>7. /\ PlacedIds' \union HeldBy(p)' = (PlacedIds \union HeldBy(p)) \union {}
          /\ Apart(HeldBy(p)', PlacedIds') /\ Apart(sent, {}) /\ sent' = sent \union {}
          /\ Distinct(Placed, Client)'
      BY <2>1, <2>5, <2>6, PlacesAre, PlacesAreNext DEF Apart
    <2> QED
      BY <2>4, <2>5, <2>7, Ledger
  <1> QED
    BY <1>1, <1>2

LEMMA PromptStepAccount ==
    ASSUME Kinded, Kinded', Accounted, NEW p \in Prompters, PromptStep(p)
    PROVE  Accounted'
  <1>1. CASE Preflight(p)
    <2>1. prompts[p].at # "hook" /\ UNCHANGED <<hands, steeringQueue, followUpQueue, sent>>
      BY <1>1 DEF Preflight, agentVars, historyVars
    <2> QED
      BY <1>1, <2>1, ReturnAccount, CheckCompactionAccount DEF Preflight
  <1>2. CASE Submit(p)
    BY <1>2, SubmitAccount
  <1>3. CASE PauseEnds(p)
    BY <1>3, ContinueAccount DEF PauseEnds
  <1>4. CASE PauseAborted(p)
    BY <1>4, CheckCompactionAccount DEF PauseAborted, agentVars, historyVars
  <1>5. CASE Summarized(p)
    <2>1. prompts \in [Prompters -> CallType]
      BY DEF Kinded, Controlled, Typed, ContentsTyped
    <2>2. /\ prompts[p].at = "compact" /\ prompts'[p].at = "compacted"
          /\ prompts'[p].pre = prompts[p].pre
          /\ prompts'[p].message = prompts[p].message /\ prompts'[p].hands = prompts[p].hands
          /\ \A q \in Prompters \ {p} : prompts'[q] = prompts[q]
          /\ UNCHANGED <<hands, steeringQueue, followUpQueue, pendingNextTurnMessages, sent>>
      BY <1>5, <2>1 DEF Summarized, CallType, agentVars
    <2>3. Marks
      <3>1. prompts[p].keep \in Nat
        BY <2>1 DEF CallType
      <3> QED
        BY <1>5, <3>1 DEF Summarized, Compacted, Marks
    <2>4. SameIn(session, session') /\ prompts[p].hands = <<>>
      BY <2>2, <2>3, BashAdded, HeldShape
    <2> QED
      BY <2>2, <2>4, MovedAccount
  <1>6. CASE SummaryFails(p)
    BY <1>6, ReturnAccount DEF SummaryFails, agentVars, historyVars
  <1>7. CASE Resume(p)
    <2>1. prompts[p].at # "hook"
      BY <1>7 DEF Resume
    <2>2. CASE Continue(p, WithoutLastError) \/ Continue(p, messages)
      BY <2>1, <2>2, ContinueAccount
    <2>3. CASE Return(p, messages) /\ UNCHANGED <<agentVars, sent>>
      BY <2>1, <2>3, ReturnAccount DEF agentVars
    <2> QED
      BY <1>7, <2>2, <2>3 DEF Resume
  <1> QED
    BY <1>1, <1>2, <1>3, <1>4, <1>5, <1>6, <1>7 DEF PromptStep

\* The end of a turn: the loop polls with nothing in its hands.
LEMMA TurnOverAccount ==
    ASSUME Kinded, NEW s \in Seq(EntryType), NEW hadCalls, TurnOver(hadCalls), session' = s,
           UNCHANGED pendingNextTurnMessages,
           Once(s, <<>>, steeringQueue, followUpQueue, pendingNextTurnMessages)
    PROVE  /\ AllPlaced' = AllOf(s, <<>>, steeringQueue, followUpQueue, pendingNextTurnMessages)
           /\ OncePlaced'
  <1>1. PlacesTyped
    BY PlacesAre
  <1>2. CASE steeringQueue # <<>> \/ hadCalls
    <2>1. hands' = FirstOf(steeringQueue) /\ steeringQueue' = RestOf(steeringQueue)
          /\ followUpQueue' = followUpQueue
      BY <1>2 DEF TurnOver
    <2> QED
      BY <1>1, <2>1, Polled DEF AllPlaced, OncePlaced, PlacesTyped
  <1>3. CASE ~(steeringQueue # <<>> \/ hadCalls)
    <2>1. hands' = FirstOf(followUpQueue) /\ steeringQueue' = steeringQueue
          /\ followUpQueue' = RestOf(followUpQueue)
      BY <1>3 DEF TurnOver, RestOf
    <2> QED
      BY <1>1, <2>1, Polled DEF AllPlaced, OncePlaced, PlacesTyped
  <1> QED
    BY <1>2, <1>3

LEMMA RunStepAccount ==
    ASSUME Kinded, Kinded', Accounted, connected, RunStep
    PROVE  Accounted'
  <1>0. PlacesTyped /\ OncePlaced
    BY PlacesAre, AccountedNow
  <1>1. ASSUME AllPlaced' = AllPlaced, OncePlaced', UNCHANGED <<prompts, sent>>
        PROVE  Accounted'
    BY <1>1, SameAccount DEF HeldBy
  <1>2. /\ Once(session \o hands, <<>>, steeringQueue, followUpQueue, pendingNextTurnMessages)
        /\ AllOf(session \o hands, <<>>, steeringQueue, followUpQueue, pendingNextTurnMessages)
               = AllPlaced
        /\ session \o hands \in Seq(EntryType)
    BY <1>0, HandsSaved, ConcatTyped DEF AllPlaced, OncePlaced, PlacesTyped
  <1>3. CASE Inject
    <2>1. /\ session' = session \o hands
          /\ UNCHANGED <<followUpQueue, pendingNextTurnMessages, prompts, sent>>
          /\ \/ hands' = <<>> /\ steeringQueue' = steeringQueue
             \/ hands' = FirstOf(steeringQueue) /\ steeringQueue' = RestOf(steeringQueue)
      BY <1>3 DEF Inject, Emit
    <2>2. AllPlaced' = AllPlaced /\ OncePlaced'
      <3>1. CASE hands' = <<>> /\ steeringQueue' = steeringQueue
        BY <1>2, <2>1, <3>1 DEF AllPlaced, OncePlaced
      <3>2. CASE hands' = FirstOf(steeringQueue) /\ steeringQueue' = RestOf(steeringQueue)
        <4> DEFINE u == session \o hands
        <4>0. /\ Once(u, <<>>, steeringQueue, followUpQueue, pendingNextTurnMessages)
              /\ AllOf(u, <<>>, steeringQueue, followUpQueue, pendingNextTurnMessages) = AllPlaced
              /\ u \in Seq(EntryType) /\ steeringQueue \in Seq(EntryType)
              /\ followUpQueue \in Seq(EntryType) /\ pendingNextTurnMessages \in Seq(EntryType)
          BY <1>0, <1>2 DEF PlacesTyped
        <4> HIDE DEF u
        <4>1. /\ AllOf(u, FirstOf(steeringQueue), RestOf(steeringQueue),
                       followUpQueue, pendingNextTurnMessages) = AllPlaced
              /\ Once(u, FirstOf(steeringQueue), RestOf(steeringQueue),
                      followUpQueue, pendingNextTurnMessages)
          BY ONLY <4>0, Polled
        <4> QED
          BY <2>1, <3>2, <4>1 DEF AllPlaced, OncePlaced, u
      <3> QED
        BY <2>1, <3>1, <3>2
    <2> QED
      BY <1>1, <2>1, <2>2
  <1>4. CASE ToolsEnd
    <2>1. /\ session' = session \o hands /\ TurnOver(TRUE)
          /\ UNCHANGED <<pendingNextTurnMessages, prompts, sent>>
      BY <1>4 DEF ToolsEnd, Emit
    <2>2. AllPlaced' = AllPlaced /\ OncePlaced'
      BY <1>2, <2>1, TurnOverAccount
    <2> QED
      BY <1>1, <2>1, <2>2
  <1>5. ASSUME NEW kind \in Replies, Reply(kind)
        PROVE  Accounted'
    <2> DEFINE m == Message(kind)
               r == Message("result")
    <2>1. /\ at = "reply" /\ session' = session \o <<m>>
          /\ UNCHANGED <<pendingNextTurnMessages, prompts, sent>>
      BY <1>5 DEF Reply, Emit
    <2>2. hands = <<>>
      BY <2>1, HandsEmpty
    <2>3. m \in EntryType /\ m.kind \notin Client /\ r.kind \notin Client
      BY MessageTyped, MessagesAreEntries DEF Kinded, Controlled, Typed, RestTyped, Message, Kinds,
         Client, Replies
    <2> HIDE DEF m, r
    <2>4. SameIn(session, session')
      <3>1. IdsIn(<<m>>, Client) = {} /\ Distinct(<<m>>, Client)
        BY ONLY <2>3, InOne
      <3>2. <<m>> \in Seq(EntryType)
        BY ONLY <2>3
      <3> QED
        BY <1>0, <2>1, <3>1, <3>2, NoClientsAdded DEF PlacesTyped
    <2>5. /\ Once(session', <<>>, steeringQueue, followUpQueue, pendingNextTurnMessages)
          /\ AllOf(session', <<>>, steeringQueue, followUpQueue, pendingNextTurnMessages) = AllPlaced
      BY <1>0, <2>2, <2>4, SessionSame DEF AllPlaced, OncePlaced
    <2>6. AllPlaced' = AllPlaced /\ OncePlaced'
      <3>1. CASE TurnOver(FALSE)
        <4>1. session' \in Seq(EntryType)
          BY PlacesAreNext DEF PlacesTyped
        <4> QED
          BY <2>1, <2>5, <3>1, <4>1, TurnOverAccount
      <3>2. CASE hands' = <<r>> /\ UNCHANGED <<steeringQueue, followUpQueue>>
        <4> DEFINE v == <<r>>
        <4>1. IdsIn(v, Client) = {} /\ Distinct(v, Client)
          BY ONLY <2>3, InOne
        <4> HIDE DEF v
        <4>2. Apart(IdsIn(v, Client),
                    AllOf(session', <<>>, steeringQueue, followUpQueue, pendingNextTurnMessages))
          BY ONLY <4>1 DEF Apart
        <4>3. /\ AllOf(session', v, steeringQueue, followUpQueue, pendingNextTurnMessages)
                     = AllPlaced
              /\ Once(session', v, steeringQueue, followUpQueue, pendingNextTurnMessages)
          <5>1. /\ AllOf(session', v, steeringQueue, followUpQueue, pendingNextTurnMessages)
                       = AllPlaced \union IdsIn(v, Client)
                /\ Once(session', v, steeringQueue, followUpQueue, pendingNextTurnMessages)
            <6> DEFINE a == session'
                       none == <<>>
            <6>1. \A b, c, d, e :
                      /\ AllOf(a, b, c, d, e) = AllOf(a, none, c, d, e) \union IdsIn(b, Client)
                      /\ /\ Once(a, none, c, d, e) /\ Distinct(b, Client)
                         /\ Apart(IdsIn(b, Client), AllOf(a, none, c, d, e))
                         => Once(a, b, c, d, e)
              BY ONLY Given
            <6>2. /\ Once(a, none, steeringQueue, followUpQueue, pendingNextTurnMessages)
                  /\ AllOf(a, none, steeringQueue, followUpQueue, pendingNextTurnMessages)
                         = AllPlaced
              BY ONLY <2>5
            <6>3. Apart(IdsIn(v, Client),
                        AllOf(a, none, steeringQueue, followUpQueue, pendingNextTurnMessages))
              BY ONLY <4>2
            <6> HIDE DEF none
            <6> QED
              BY ONLY <4>1, <6>1, <6>2, <6>3
          <5> QED
            BY ONLY <4>1, <5>1
        <4> QED
          BY <2>1, <3>2, <4>3 DEF AllPlaced, OncePlaced, v
      <3>3. CASE UNCHANGED <<hands, steeringQueue, followUpQueue>>
        BY <2>1, <2>2, <2>5, <3>3 DEF AllPlaced, OncePlaced
      <3> QED
        BY <1>5, <3>1, <3>2, <3>3 DEF Reply, r
    <2> QED
      BY <1>1, <2>1, <2>6
  <1>6. CASE FinishRun
    BY <1>6, FinishRunAccount
  <1> QED
    BY <1>3, <1>4, <1>5, <1>6 DEF RunStep

\* A client hands over a message, or takes those of the queues back.
LEMMA ClientStepAccount ==
    ASSUME Kinded, Kinded', Accounted, ClientStep, ~Compact
    PROVE  Accounted'
  <1> DEFINE n == events + 1
  <1>0. /\ PlacesTyped /\ OncePlaced /\ events \in Nat /\ Apart(sent, {n}) /\ n \notin AllPlaced
        /\ prompts \in [Prompters -> CallType]
    <2>1. events \in Nat /\ prompts \in [Prompters -> CallType]
      BY DEF Kinded, Controlled, Typed, RestTyped, ContentsTyped
    <2>2. n \notin 1..events
      BY <2>1
    <2> QED
      BY <2>1, <2>2, PlacesAre, AccountedNow DEF Apart
  <1>1. ASSUME NEW kind \in Client
        PROVE  /\ Message(kind) \in EntryType /\ Message(kind).kind \in Client
               /\ Message(kind).id = n
    <2>1. kind \in Kinds
      BY DEF Client, Kinds
    <2> QED
      BY <1>0, <1>1, <2>1, MessageTyped, MessagesAreEntries DEF Message
  <1>2. ASSUME AllPlaced' = AllPlaced \union {n}, OncePlaced', prompts' = prompts,
               sent' = sent \union {n}
        PROVE  Accounted'
    <2>1. Distinct(Placed, Client)' /\ PlacedIds' = (PlacedIds \ {}) \union {n}
          /\ {} \in SUBSET PlacedIds /\ sent' = (sent \ {}) \union {n}
      BY <1>2, PlacesAre, PlacesAreNext
    <2>2. \A q \in Prompters : HeldBy(q)' = HeldBy(q) /\ prompts'[q].hands = prompts[q].hands
      BY <1>2 DEF HeldBy
    <2> QED
      BY <1>0, <2>1, <2>2, LedgerPlaces
  <1>3. CASE Steer \/ FollowUp \/ QueueCustom
    <2>0. PICK kind \in Client :
              /\ \/ /\ steeringQueue' = Append(steeringQueue, Message(kind))
                    /\ UNCHANGED followUpQueue
                 \/ /\ followUpQueue' = Append(followUpQueue, Message(kind))
                    /\ UNCHANGED steeringQueue
              /\ sent' = sent \union {n}
              /\ UNCHANGED <<session, hands, pendingNextTurnMessages, prompts>>
      BY <1>3 DEF Steer, FollowUp, QueueCustom, Client
    <2> DEFINE m == Message(kind)
    <2>1. m \in EntryType /\ m.kind \in Client /\ m.id = n
      BY <1>1
    <2>2. /\ \/ steeringQueue' = Added(steeringQueue, m) /\ UNCHANGED followUpQueue
             \/ followUpQueue' = Added(followUpQueue, m) /\ UNCHANGED steeringQueue
          /\ UNCHANGED <<session, hands, pendingNextTurnMessages>>
      BY <2>0 DEF Added
    <2> HIDE DEF m
    <2>3. /\ Once(session, hands, Added(steeringQueue, m), followUpQueue, pendingNextTurnMessages)
          /\ AllOf(session, hands, Added(steeringQueue, m), followUpQueue, pendingNextTurnMessages)
                 = AllPlaced \union {n}
          /\ Once(session, hands, steeringQueue, Added(followUpQueue, m), pendingNextTurnMessages)
          /\ AllOf(session, hands, steeringQueue, Added(followUpQueue, m), pendingNextTurnMessages)
                 = AllPlaced \union {n}
      BY ONLY <1>0, <2>1, Queued DEF AllPlaced, OncePlaced, PlacesTyped
    <2>4. AllPlaced' = AllPlaced \union {n} /\ OncePlaced'
      BY ONLY <2>2, <2>3 DEF AllPlaced, OncePlaced
    <2> QED
      BY <1>2, <2>0, <2>4
  <1>5. CASE NextTurn
    <2> DEFINE m == Message("custom")
    <2>1. m \in EntryType /\ m.kind \in Client /\ m.id = n
      BY <1>1 DEF Client
    <2>2. /\ pendingNextTurnMessages' = Append(pendingNextTurnMessages, m)
          /\ sent' = sent \union {n}
          /\ UNCHANGED <<session, hands, steeringQueue, followUpQueue, prompts>>
      BY <1>5 DEF NextTurn, agentVars
    <2> HIDE DEF m
    <2>3. /\ Once(session, hands, steeringQueue, followUpQueue, Added(pendingNextTurnMessages, m))
          /\ AllOf(session, hands, steeringQueue, followUpQueue, Added(pendingNextTurnMessages, m))
                 = AllPlaced \union {n}
      BY ONLY <1>0, <2>1, Queued DEF AllPlaced, OncePlaced, PlacesTyped
    <2>4. AllPlaced' = AllPlaced \union {n} /\ OncePlaced'
      BY ONLY <2>2, <2>3 DEF AllPlaced, OncePlaced, Added
    <2> QED
      BY <1>2, <2>2, <2>4
  <1>6. CASE ClearQueue
    <2> DEFINE gone == IdsIn(steeringQueue, Client) \union IdsIn(followUpQueue, Client)
    <2>1. /\ steeringQueue' = <<>> /\ followUpQueue' = <<>>
          /\ sent' = sent \ AllIds(steeringQueue \o followUpQueue)
          /\ UNCHANGED <<session, hands, pendingNextTurnMessages, prompts>>
      BY <1>6 DEF ClearQueue
    <2>2. AllIds(steeringQueue \o followUpQueue) = gone
      <3> DEFINE U == MessagesOf(Client, events)
                 w == steeringQueue \o followUpQueue
      <3>1. steeringQueue \in Seq(U) /\ followUpQueue \in Seq(U)
        BY DEF Kinded, KindedUpto, QueuesOf
      <3>2. \A e \in U : e.kind \in Client
        BY DEF MessagesOf, Client
      <3> HIDE DEF U
      <3>3. w \in Seq(U) /\ IdsIn(w, Client) = gone
        BY <3>1, ConcatTyped, InConcat
      <3> HIDE DEF w
      <3>4. IdsIn(w, Client) = AllIds(w)
        BY <3>2, <3>3, InAll
      <3> QED
        BY <3>3, <3>4 DEF w
    <2>3. AllPlaced' = AllPlaced \ gone /\ OncePlaced' /\ gone \subseteq AllPlaced
      BY <1>0, <2>1, Cleared DEF AllPlaced, OncePlaced, AllOf
    <2> HIDE DEF gone
    <2>4. /\ Distinct(Placed, Client)' /\ gone \in SUBSET PlacedIds
          /\ PlacedIds' = (PlacedIds \ gone) \union {} /\ sent' = (sent \ gone) \union {}
          /\ Apart(sent, {})
      BY <2>1, <2>2, <2>3, PlacesAre, PlacesAreNext DEF Apart
    <2>5. \A q \in Prompters : HeldBy(q)' = HeldBy(q) /\ prompts'[q].hands = prompts[q].hands
      BY <2>1 DEF HeldBy
    <2> QED
      BY <2>4, <2>5, LedgerPlaces
  <1>7. CASE RecordBash
    <2>1. UNCHANGED <<hands, steeringQueue, followUpQueue, pendingNextTurnMessages, prompts, sent>>
      BY <1>7 DEF RecordBash, agentVars, historyVars
    <2>2. SameIn(session, session')
      <3> DEFINE m == Message("bash")
      <3>1. m \in EntryType /\ m.kind \notin Client
        BY <1>0, MessageTyped, MessagesAreEntries DEF Message, Kinds, Client
      <3>2. session' = session \/ session' = Append(session, m)
        BY <1>7 DEF RecordBash
      <3> HIDE DEF m
      <3>3. CASE session' = session
        BY <3>3 DEF SameIn
      <3>4. CASE session' = Append(session, m)
        <4>1. session' = session \o <<m>> /\ <<m>> \in Seq(EntryType)
          BY <1>0, <3>1, <3>4, AppendIsConcat DEF PlacesTyped
        <4>2. IdsIn(<<m>>, Client) = {} /\ Distinct(<<m>>, Client)
          BY <3>1, InOne
        <4> QED
          BY <1>0, <4>1, <4>2, NoClientsAdded DEF PlacesTyped
      <3> QED
        BY <3>2, <3>3, <3>4
    <2>3. \A q \in Prompters : HeldBy(q)' = HeldBy(q) /\ prompts'[q].hands = prompts[q].hands
      BY <2>1 DEF HeldBy
    <2> QED
      BY <2>1, <2>2, <2>3, QuietAccount
  <1>8. CASE Abort
    <2>1. /\ AbortRetry /\ SameIn(session, session')
          /\ UNCHANGED <<hands, steeringQueue, followUpQueue, pendingNextTurnMessages, sent>>
      BY <1>8 DEF Abort, AbortRun, SameIn, historyVars
    <2>2. \A q \in Prompters : HeldBy(q)' = HeldBy(q) /\ prompts'[q].hands = prompts[q].hands
      <3> TAKE q \in Prompters
      <3>1. \/ prompts'[q] = prompts[q]
            \/ prompts[q].at = "retry" /\ prompts'[q] = [prompts[q] EXCEPT !.at = "cancelled"]
        BY <2>1, AbortRetryMoves DEF Kinded, Controlled
      <3>2. prompts[q] \in CallType
        BY <1>0
      <3> QED
        BY <3>1, <3>2 DEF HeldBy, CallType
    <2> QED
      BY <2>1, <2>2, QuietAccount
  <1>9. ASSUME NEW p \in Prompters, Prompt(p)
        PROVE  Accounted'
    <2>1. /\ prompts[p].at = "idle" /\ sent' = sent \union {n} /\ Flushes
          /\ UNCHANGED <<hands, steeringQueue, followUpQueue, pendingNextTurnMessages>>
      BY <1>9 DEF Prompt, FlushBash, Flushes, agentVars
    <2>2. /\ prompts'[p].at = "checks" /\ prompts'[p].pre = "check" /\ prompts'[p].hands = <<>>
          /\ prompts'[p].message.id = n
          /\ \A q \in Prompters \ {p} : prompts'[q] = prompts[q]
      BY <1>0, <1>9 DEF Prompt, Idle, Message
    <2>3. AllPlaced' = AllPlaced /\ OncePlaced'
      BY <1>0, <2>1, BashAdded, SessionSame DEF AllPlaced, OncePlaced
    <2>4. HeldBy(p) = {} /\ HeldBy(p)' = {n} /\ IsInjective(Ids(prompts'[p].hands))
      <3>1. prompts[p] = Idle
        BY <2>1 DEF Kinded, Controlled, Shapes, ShapeOf
      <3> QED
        BY <2>2, <3>1, EmptyInjective DEF HeldBy, Idle
    <2>5. /\ PlacedIds' \union HeldBy(p)' = (PlacedIds \union HeldBy(p)) \union {n}
          /\ Apart(HeldBy(p)', PlacedIds') /\ Distinct(Placed, Client)'
      BY <1>0, <2>3, <2>4, PlacesAre, PlacesAreNext DEF Apart
    <2> QED
      BY <1>0, <2>1, <2>2, <2>4, <2>5, Ledger
  <1> QED
    BY <1>3, <1>5, <1>6, <1>7, <1>8, <1>9 DEF ClientStep

LEMMA StepAccount ==
    ASSUME Kinded, Kinded', AccountInv, [Next]_vars
    PROVE  AccountInv'
  <1> SUFFICES ASSUME made'["compact"] = 0
               PROVE  Accounted'
    BY DEF AccountInv
  <1>0. Accounted /\ connected /\ ~Compact /\ manual.at = "idle"
    <2>1. made["compact"] = 0 /\ ~Compact
      BY NoCompactBefore DEF Kinded, Controlled
    <2> QED
      BY <2>1, ListensWithoutCompact DEF AccountInv, Kinded
  <1>1. CASE RunStep
    BY <1>0, <1>1, RunStepAccount
  <1>2. ASSUME NEW p \in Prompters, PromptStep(p)
        PROVE  Accounted'
    BY <1>0, <1>2, PromptStepAccount
  <1>3. ~CompactStep
    BY <1>0 DEF CompactStep, CompactReads, CompactSaves, CompactEnds
  <1>4. CASE ClientStep
    BY <1>0, <1>4, ClientStepAccount
  <1>5. CASE UNCHANGED vars
    BY <1>0, <1>5, SameAccount, AccountedNow DEF vars, agentVars, historyVars, AllPlaced, OncePlaced,
       HeldBy
  <1> QED
    BY <1>1, <1>2, <1>3, <1>4, <1>5 DEF Next, InternalStep

\* The account holds always: the inductive invariant behind MessagesAccountedFor.
THEOREM AccountInvariant == Spec => []AccountInv
  <1>1. Init => AccountInv
    <2> SUFFICES ASSUME Init
                 PROVE  Accounted
      BY DEF AccountInv
    <2>1. Placed = <<>>
      BY DEF Init, Placed
    <2>2. PlacedIds = {} /\ Distinct(Placed, Client)
      BY <2>1, InOne DEF PlacedIds
    <2>3. \A p \in Prompters : HeldBy(p) = {} /\ IsInjective(Ids(prompts[p].hands))
      BY EmptyInjective DEF Init, HeldBy, Idle
    <2> QED
      BY <2>2, <2>3 DEF Init, Accounted
  <1>2. Kinded /\ Kinded' /\ AccountInv /\ [Next]_vars => AccountInv'
    BY StepAccount
  <1> QED
    BY <1>1, <1>2, KindInvariant, PTL DEF Spec

\* A message a client handed over and did not take back is in exactly one place:
\* a prompt() under way, a queue, the loop's hands, or the session.
THEOREM EveryMessagePlaced == Spec => []MessagesAccountedFor
  <1>1. Spec => []AccountInv
    BY AccountInvariant
  <1>2. AccountInv => MessagesAccountedFor
    <2> SUFFICES ASSUME Accounted
                 PROVE  LET ids == {Placed[i].id : i \in FromClients(Placed)}
                        IN /\ sent = ids \union UNION {HeldBy(p) : p \in Prompters}
                           /\ \A i, j \in FromClients(Placed) : Placed[i].id = Placed[j].id => i = j
                           /\ \A p \in Prompters :
                                  /\ HeldBy(p) \intersect ids = {}
                                  /\ \A q \in Prompters \ {p} : HeldBy(p) \intersect HeldBy(q) = {}
                                  /\ IsInjective(Ids(prompts[p].hands))
      BY DEF AccountInv, MessagesAccountedFor, Placed
    <2>1. FromClients(Placed) = IndicesOf(Placed, Client)
      BY DEF FromClients, Client
    <2>2. {Placed[i].id : i \in FromClients(Placed)} = PlacedIds
      BY <2>1 DEF PlacedIds, IdsIn
    <2> QED
      BY <2>1, <2>2 DEF Accounted, Distinct
  <1> QED
    BY <1>1, <1>2, PTL

\* Nothing a client handed over is lost or doubled.
THEOREM MessagesKeptAlways == Spec => []MessagesKept
  <1>1. MessagesAccountedFor /\ BashKeptOnce => MessagesKept
    BY DEF MessagesKept
  <1> QED
    BY <1>1, EveryMessagePlaced, BashKeptAlways, PTL

-----------------------------------------------------------------------------
\* The mirrors of the queues.

\* The ids of a sequence, element by element.
LEMMA IdsOf ==
    ASSUME NEW q \in Seq(MessageType)
    PROVE  /\ Ids(q) \in Seq(Nat) /\ Len(Ids(q)) = Len(q) /\ Len(q) \in Nat
           /\ DOMAIN Ids(q) = 1..Len(q) /\ DOMAIN q = 1..Len(q)
           /\ \A i \in 1..Len(q) : Ids(q)[i] = q[i].id
           /\ AllIds(q) = {Ids(q)[i] : i \in DOMAIN Ids(q)}
  <1>1. Len(q) \in Nat /\ DOMAIN q = 1..Len(q) /\ \A i \in 1..Len(q) : q[i] \in MessageType
    BY LenProperties, ElementOfSeq
  <1>2. \A i \in 1..Len(q) : q[i].id \in Nat
    BY <1>1 DEF MessageType
  <1>3. DOMAIN Ids(q) = 1..Len(q) /\ \A i \in 1..Len(q) : Ids(q)[i] = q[i].id
    BY <1>1 DEF Ids
  <1>4. Ids(q) \in Seq(Nat)
    <2>1. Ids(q) = [i \in 1..Len(q) |-> q[i].id]
      BY <1>1 DEF Ids
    <2> QED
      BY <1>1, <1>2, <2>1, IsASeq
  <1>5. Len(Ids(q)) = Len(q)
    <2> DEFINE w == Ids(q)
    <2>1. w \in Seq(Nat) /\ DOMAIN w = 1..Len(q)
      BY <1>3, <1>4
    <2> HIDE DEF w
    <2>2. DOMAIN w = 1..Len(w) /\ Len(w) \in Nat
      BY <2>1, LenProperties
    <2>3. Len(w) = Len(q)
      BY <1>1, <2>1, <2>2
    <2> QED
      BY <2>3 DEF w
  <1>6. AllIds(q) = {Ids(q)[i] : i \in DOMAIN Ids(q)}
    BY <1>1, <1>3 DEF AllIds
  <1> QED
    BY <1>1, <1>3, <1>4, <1>5, <1>6

LEMMA IdsOfEmpty == Ids(<<>>) = <<>> /\ AllIds(<<>>) = {}
  BY DEF Ids, AllIds

\* One element, and others after it.
LEMMA OneBefore ==
    ASSUME NEW R, NEW f \in Seq(R), Len(f) = 1, NEW s \in Seq(R)
    PROVE  /\ f \o s \in Seq(R) /\ Len(f \o s) = 1 + Len(s) /\ Len(s) \in Nat
           /\ DOMAIN (f \o s) = 1..(1 + Len(s))
           /\ (f \o s)[1] = f[1]
           /\ \A i \in 1..Len(s) : (f \o s)[i + 1] = s[i]
  <1> DEFINE u == f \o s
  <1>1. /\ u \in Seq(R) /\ Len(u) = Len(f) + Len(s) /\ Len(s) \in Nat
        /\ DOMAIN u = 1..(Len(f) + Len(s))
        /\ \A i \in 1..Len(f) : u[i] = f[i]
        /\ \A i \in 1..(Len(f) + Len(s)) : i > Len(f) => u[i] = s[i - Len(f)]
    <2>1. /\ u \in Seq(R) /\ Len(u) = Len(f) + Len(s) /\ Len(s) \in Nat
          /\ DOMAIN u = 1..(Len(f) + Len(s))
          /\ \A i \in 1..Len(f) : u[i] = f[i]
      BY ConcatParts
    <2>2. /\ \A i \in 1..(Len(f) + Len(s)) :
                 i > Len(f) => i - Len(f) \in 1..Len(s) /\ u[i] = s[i - Len(f)]
      BY Zenon, ConcatParts
    <2> QED
      BY Zenon, <2>1, <2>2
  <1> HIDE DEF u
  <1>2. u[1] = f[1]
    <2>1. 1 \in 1..Len(f)
      OBVIOUS
    <2> QED
      BY <1>1, <2>1
  <1>3. \A i \in 1..Len(s) : u[i + 1] = s[i]
    <2> TAKE i \in 1..Len(s)
    <2>1. i + 1 \in 1..(Len(f) + Len(s)) /\ i + 1 > Len(f) /\ i + 1 - Len(f) = i
      BY <1>1
    <2> QED
      BY <1>1, <2>1
  <1> QED
    BY <1>1, <1>2, <1>3 DEF u

LEMMA OneBeforeCat ==
    \A R : \A f, s \in Seq(R) : Len(f) = 1
        => /\ DOMAIN Cat(f, s) = 1..(1 + Len(s)) /\ Cat(f, s)[1] = f[1]
           /\ \A i \in 1..Len(s) : Cat(f, s)[i + 1] = s[i]
  <1> TAKE R
  <1> TAKE f, s \in Seq(R)
  <1> HAVE Len(f) = 1
  <1> QED
    BY OneBefore DEF Cat

LEMMA IdsOfFirst ==
    \A m \in MessageType, q \in Seq(MessageType) : Ids(<<m>> \o q) = <<m.id>> \o Ids(q)
  <1> SUFFICES ASSUME NEW m \in MessageType, NEW q \in Seq(MessageType)
               PROVE  Ids(<<m>> \o q) = <<m.id>> \o Ids(q)
    OBVIOUS
  <1> DEFINE f == <<m>>
             g == <<m.id>>
             u == f \o q
             v == g \o Ids(q)
  <1>1. /\ f \in Seq(MessageType) /\ Len(f) = 1 /\ f[1] = m
        /\ g \in Seq(Nat) /\ Len(g) = 1 /\ g[1] = m.id
    BY DEF MessageType
  <1>2. Ids(q) \in Seq(Nat) /\ Len(Ids(q)) = Len(q) /\ \A i \in 1..Len(q) : Ids(q)[i] = q[i].id
    BY IdsOf
  <1> DEFINE w == Ids(q)
  <1>0. w \in Seq(Nat) /\ Len(w) = Len(q) /\ \A i \in 1..Len(q) : w[i] = q[i].id
    BY <1>2
  <1> HIDE DEF f, g, w
  <1>3. /\ u \in Seq(MessageType) /\ Len(u) = 1 + Len(q) /\ u[1] = m /\ Len(q) \in Nat
        /\ \A i \in 1..Len(q) : u[i + 1] = q[i]
    BY <1>1, OneBefore
  <1>4. /\ g \o w \in Seq(Nat) /\ Len(g \o w) = 1 + Len(q) /\ (g \o w)[1] = m.id
        /\ \A i \in 1..Len(q) : (g \o w)[i + 1] = w[i]
    BY <1>0, <1>1, OneBefore
  <1>5. v \in Seq(Nat) /\ Len(v) = 1 + Len(q) /\ v[1] = m.id
        /\ \A i \in 1..Len(q) : v[i + 1] = w[i]
    BY <1>4 DEF w
  <1> HIDE DEF u, v
  <1>6. Ids(u) \in Seq(Nat) /\ Len(Ids(u)) = Len(u) /\ \A i \in 1..Len(u) : Ids(u)[i] = u[i].id
    BY <1>3, IdsOf
  <1>7. \A i \in 1..(1 + Len(q)) : Ids(u)[i] = v[i]
    <2> TAKE i \in 1..(1 + Len(q))
    <2>1. CASE i = 1
      BY <1>3, <1>5, <1>6, <2>1
    <2>2. CASE i > 1
      <3>1. PICK j \in 1..Len(q) : i = j + 1
        <4>1. i - 1 \in 1..Len(q) /\ i = i - 1 + 1
          BY <1>3, <2>2
        <4> QED
          BY <4>1
      <3> QED
        BY <1>0, <1>3, <1>5, <1>6, <3>1
    <2> QED
      BY <1>3, <2>1, <2>2
  <1>8. Ids(u) = v
    BY <1>3, <1>5, <1>6, <1>7, SeqEqual
  <1> QED
    BY <1>8 DEF u, v, f, g

LEMMA IdsOfAppend ==
    \A q \in Seq(MessageType), m \in MessageType : Ids(Append(q, m)) = Append(Ids(q), m.id)
  <1> SUFFICES ASSUME NEW q \in Seq(MessageType), NEW m \in MessageType
               PROVE  Ids(Append(q, m)) = Append(Ids(q), m.id)
    OBVIOUS
  <1> DEFINE u == Append(q, m)
             w == Ids(q)
             v == Append(w, m.id)
  <1>1. w \in Seq(Nat) /\ Len(w) = Len(q) /\ Len(q) \in Nat /\ \A i \in 1..Len(q) : w[i] = q[i].id
    BY IdsOf
  <1>2. m.id \in Nat
    BY DEF MessageType
  <1> HIDE DEF w
  <1>3. /\ u \in Seq(MessageType) /\ Len(u) = Len(q) + 1 /\ u[Len(q) + 1] = m
        /\ \A i \in 1..Len(q) : u[i] = q[i]
    BY AppendProperties
  <1>4. /\ v \in Seq(Nat) /\ Len(v) = Len(q) + 1 /\ v[Len(q) + 1] = m.id
        /\ \A i \in 1..Len(q) : v[i] = w[i]
    BY <1>1, <1>2, AppendProperties
  <1> HIDE DEF u, v
  <1>5. Ids(u) \in Seq(Nat) /\ Len(Ids(u)) = Len(u) /\ \A i \in 1..Len(u) : Ids(u)[i] = u[i].id
    BY <1>3, IdsOf
  <1>6. \A i \in 1..(Len(q) + 1) : Ids(u)[i] = v[i]
    <2> TAKE i \in 1..(Len(q) + 1)
    <2>1. CASE i = Len(q) + 1
      BY <1>1, <1>3, <1>4, <1>5, <2>1
    <2>2. CASE i \in 1..Len(q)
      BY <1>1, <1>3, <1>4, <1>5, <2>2
    <2> QED
      BY <1>1, <2>1, <2>2
  <1>7. Ids(u) = v
    BY <1>3, <1>4, <1>5, <1>6, SeqEqual
  <1> QED
    BY <1>7 DEF u, v, w

\* All of a sequence is kept, or all but the first.
LEMMA AllKept ==
    \A R, kept : \A s \in Seq(R) : DOMAIN s \subseteq kept => Selected(s, kept) = s
  <1> SUFFICES ASSUME NEW R, NEW s \in Seq(R), NEW kept, DOMAIN s \subseteq kept
               PROVE  Selected(s, kept) = s
    OBVIOUS
  <1>1. Len(s) \in Nat /\ DOMAIN s = 1..Len(s)
    BY LenProperties
  <1>2. 0 \in 0..Len(s) /\ \A i \in DOMAIN s : i \in kept <=> i > 0
    BY <1>1
  <1>3. Selected(s, kept) = SubSeq(s, 0 + 1, Len(s))
    BY <1>2, SelectedFrom
  <1> QED
    BY <1>3, SubSeqFull

\* All but a first element are selected.
LEMMA RestKept ==
    \A R, kept : \A x \in R, s \in Seq(R) :
        1 \notin kept /\ (\A i \in 1..Len(s) : i + 1 \in kept) => Selected(<<x>> \o s, kept) = s
  <1> SUFFICES ASSUME NEW R, NEW x \in R, NEW s \in Seq(R), NEW kept, 1 \notin kept,
                      \A i \in 1..Len(s) : i + 1 \in kept
               PROVE  Selected(<<x>> \o s, kept) = s
    OBVIOUS
  <1> DEFINE f == <<x>>
             u == f \o s
  <1>1. f \in Seq(R) /\ Len(f) = 1 /\ f # <<>>
    OBVIOUS
  <1> HIDE DEF f
  <1>2. /\ u \in Seq(R) /\ Len(u) = 1 + Len(s) /\ Len(s) \in Nat /\ DOMAIN u = 1..(1 + Len(s))
        /\ \A i \in 1..Len(s) : u[i + 1] = s[i]
    BY <1>1, OneBefore
  <1> HIDE DEF u
  <1>3. 1 \in 0..Len(u) /\ \A i \in DOMAIN u : i \in kept <=> i > 1
    <2>1. \A i \in 1..(1 + Len(s)) : i > 1 => i \in kept
      <3> TAKE i \in 1..(1 + Len(s))
      <3>1. i > 1 => i - 1 \in 1..Len(s) /\ i - 1 + 1 = i
        BY <1>2
      <3> QED
        BY <3>1
    <2> QED
      BY <1>2, <2>1
  <1>4. Selected(u, kept) = SubSeq(u, 1 + 1, Len(u))
    BY <1>2, <1>3, SelectedFrom
  <1>5. SubSeq(u, 2, Len(u)) = s
    <2> DEFINE t == SubSeq(u, 2, Len(u))
    <2>1. /\ t \in Seq(R) /\ Len(t) = Len(s) /\ \A i \in 1..Len(s) : t[i] = u[2 + i - 1]
      <3>1. CASE Len(s) = 0
        <4>1. t = <<>>
          BY <1>2, <3>1, SubSeqEmpty
        <4>2. 1..Len(s) = {}
          BY <3>1
        <4>3. <<>> \in Seq(R) /\ Len(<<>>) = 0
          OBVIOUS
        <4> HIDE DEF t
        <4> QED
          BY <3>1, <4>1, <4>2, <4>3
      <3>2. CASE Len(s) # 0
        <4>1. 2 \in 1..(Len(u) + 1) /\ Len(u) \in 2..Len(u) /\ Len(u) - 2 + 1 = Len(s)
              /\ 2 \in Nat /\ Len(u) \in Nat /\ 2 <= Len(u)
          BY <1>2, <3>2
        <4>2. \A i \in 2..Len(u) : u[i] \in R
          BY <1>2, ElementOfSeq
        <4> QED
          BY <4>1, <4>2, SubSeqProperties
      <3> QED
        BY <3>1, <3>2
    <2>2. \A i \in 1..Len(s) : t[i] = s[i]
      <3> TAKE i \in 1..Len(s)
      <3>1. i + 1 \in 1..(1 + Len(s)) /\ i + 1 > 1 /\ i + 1 - 1 = i /\ 2 + i - 1 = i + 1
        BY <1>2
      <3>2. u[i + 1] = s[i]
        BY <1>2, <3>1
      <3> QED
        BY <2>1, <3>1, <3>2
    <2> HIDE DEF t
    <2>3. t = s
      BY <2>1, <2>2, SeqEqual
    <2> QED
      BY <2>3 DEF t
  <1>6. Selected(u, kept) = s
    BY <1>4, <1>5
  <1> QED
    BY <1>6 DEF u, f

\* Texts are taken out of a mirror, or the ids of a queue are selected.
TextsOf(q) == {Text(id) : id \in AllIds(q)}
LEMMA MirrorOfQueue ==
    \A texts, all : \A q \in Seq(MessageType), m \in MessageType :
        /\ Apart(texts, TextsOf(q)) => Without(Ids(q), texts) = Ids(q)
        /\ Apart(texts, TextsOf(q)) /\ Text(m.id) \in texts
               => Without(<<m.id>> \o Ids(q), texts) = Ids(q)
        /\ AllIds(q) \subseteq all
               => /\ Selected(Ids(q), {i \in DOMAIN Ids(q) : Ids(q)[i] \in all}) = Ids(q)
                  /\ m.id \notin all
                         => LET mirror == <<m.id>> \o Ids(q)
                            IN Selected(mirror, {i \in DOMAIN mirror : mirror[i] \in all}) = Ids(q)
  <1> TAKE texts, all
  <1> TAKE q \in Seq(MessageType), m \in MessageType
  <1> DEFINE w == Ids(q)
             f == <<m.id>>
             mirror == f \o w
  <1>1. /\ w \in Seq(Nat) /\ DOMAIN w = 1..Len(w) /\ Len(w) \in Nat
        /\ \A i \in DOMAIN w : w[i] \in AllIds(q)
    <2>1. w \in Seq(Nat) /\ AllIds(q) = {w[i] : i \in DOMAIN w}
      BY IdsOf
    <2> HIDE DEF w
    <2> QED
      BY <2>1, LenProperties
  <1>2. m.id \in Nat /\ f \in Seq(Nat) /\ Len(f) = 1 /\ f[1] = m.id
    BY DEF MessageType
  <1> HIDE DEF w
  <1>3. /\ DOMAIN mirror = 1..(1 + Len(w)) /\ mirror[1] = m.id
        /\ \A i \in 1..Len(w) : i + 1 \in DOMAIN mirror /\ mirror[i + 1] = w[i]
    <2> HIDE DEF f
    <2>1. /\ DOMAIN Cat(f, w) = 1..(1 + Len(w)) /\ Cat(f, w)[1] = f[1]
          /\ \A i \in 1..Len(w) : Cat(f, w)[i + 1] = w[i]
      BY ONLY <1>1, <1>2, OneBeforeCat
    <2> QED
      BY ONLY <1>1, <1>2, <2>1 DEF Cat
  <1>4. \A kept : DOMAIN w \subseteq kept => Selected(w, kept) = w
    BY <1>1, AllKept
  <1>5. \A kept : 1 \notin kept /\ (\A i \in 1..Len(w) : i + 1 \in kept) => Selected(mirror, kept) = w
    BY <1>1, <1>2, RestKept
  <1> HIDE DEF mirror
  <1>6. ASSUME Apart(texts, TextsOf(q))
        PROVE  /\ Without(w, texts) = w
               /\ Text(m.id) \in texts => Without(mirror, texts) = w
    <2>1. \A i \in DOMAIN w : Text(w[i]) \notin texts
      BY <1>1, <1>6 DEF Apart, TextsOf
    <2>2. Without(w, texts) = w
      BY <1>4, <2>1 DEF Without
    <2>3. ASSUME Text(m.id) \in texts
          PROVE  Without(mirror, texts) = w
      <3> DEFINE kept == {i \in DOMAIN mirror :
                              \/ Text(mirror[i]) \notin texts
                              \/ \E j \in 1..(i - 1) : Text(mirror[j]) \in texts}
      <3>1. 1 \notin kept
        BY <1>3, <2>3
      <3>2. \A i \in 1..Len(w) : i + 1 \in kept
        BY <1>1, <1>3, <2>1
      <3> HIDE DEF kept
      <3>3. Selected(mirror, kept) = w
        BY <1>5, <3>1, <3>2
      <3> QED
        BY <3>3 DEF Without, kept
    <2> QED
      BY <2>2, <2>3
  <1>7. ASSUME AllIds(q) \subseteq all
        PROVE  /\ Selected(w, {i \in DOMAIN w : w[i] \in all}) = w
               /\ m.id \notin all
                      => Selected(mirror, {i \in DOMAIN mirror : mirror[i] \in all}) = w
    <2> DEFINE kept == {i \in DOMAIN mirror : mirror[i] \in all}
    <2>1. m.id \notin all => 1 \notin kept
      BY <1>3
    <2>2. \A i \in 1..Len(w) : i + 1 \in kept
      BY <1>1, <1>3, <1>7
    <2> HIDE DEF kept
    <2>3. m.id \notin all => Selected(mirror, kept) = w
      BY <1>5, <2>1, <2>2
    <2>4. Selected(w, {i \in DOMAIN w : w[i] \in all}) = w
      BY <1>1, <1>4, <1>7
    <2> QED
      BY <2>3, <2>4 DEF kept
  <1> QED
    BY <1>6, <1>7 DEF mirror, f, w

\* The user messages of a queue, as messages come and go.
LEMMA UsersOf ==
    \A q \in Seq(MessageType) :
        /\ Users(q) \in Seq(MessageType) /\ AllIds(Users(q)) \subseteq AllIds(q)
        /\ \A m \in MessageType :
               Users(Append(q, m)) = IF m.kind = "user" THEN Append(Users(q), m) ELSE Users(q)
        /\ q # <<>>
               => Users(q) = IF q[1].kind = "user" THEN <<q[1]>> \o Users(RestOf(q))
                                                   ELSE Users(RestOf(q))
  <1> TAKE q \in Seq(MessageType)
  <1>1. Users(q) \in Seq(MessageType)
    BY OfKindType DEF Users
  <1>2. AllIds(Users(q)) \subseteq AllIds(q)
    <2> DEFINE K == {m \in MessageType : m.id \in AllIds(q)}
               u == Users(q)
    <2>1. \A i \in DOMAIN q : q[i] \in K
      BY LenProperties, ElementOfSeq DEF AllIds
    <2> HIDE DEF K
    <2>2. u \in Seq(K)
      BY <2>1, SelectedType DEF Users, OfKind
    <2> HIDE DEF u
    <2>3. \A i \in DOMAIN u : u[i] \in K
      BY <2>2, LenProperties, ElementOfSeq
    <2> QED
      BY <2>3 DEF AllIds, K, u
  <1>3. ASSUME NEW m \in MessageType
        PROVE  Users(Append(q, m)) = IF m.kind = "user" THEN Append(Users(q), m) ELSE Users(q)
    <2> DEFINE u == Users(q)
    <2>1. Users(Append(q, m)) = u \o (IF m.kind = "user" THEN <<m>> ELSE <<>>)
      BY OfKindAppend DEF Users
    <2> HIDE DEF u
    <2> QED
      BY <1>1, <2>1, AppendIsConcat, ConcatEmptySeq DEF u
  <1>4. ASSUME q # <<>>
        PROVE  Users(q) = IF q[1].kind = "user" THEN <<q[1]>> \o Users(RestOf(q))
                                                ELSE Users(RestOf(q))
    <2> DEFINE e == q[1]
               f == <<e>>
               r == RestOf(q)
    <2>1. e \in MessageType /\ r \in Seq(MessageType) /\ Cat(f, r) = q
      BY <1>4, QueueParts DEF Cat
    <2>2. f \in Seq(MessageType) /\ \A i \in DOMAIN f : f[i].kind = e.kind
      BY <2>1
    <2> HIDE DEF e, f, r
    <2>3. Users(q) = Cat(Users(f), Users(r))
      BY <2>1, <2>2, OfKindOfCat, Zenon DEF Users
    <2>5. Users(r) \in Seq(MessageType)
      BY <2>1, OfKindType DEF Users
    <2>4. Users(f) = IF e.kind = "user" THEN f ELSE <<>>
      BY <2>2, OfKindAll, OfKindNone DEF Users
    <2> QED
      BY <2>3, <2>4, <2>5, ConcatEmptySeq DEF Cat, e, f, r
  <1> QED
    BY <1>1, <1>2, <1>3, <1>4

\* The mirrors are the user messages of the queues, or one of them has the
\* message the loop is about to emit before these.
SteersQueued == Ids(Users(steeringQueue))
FollowUpsQueued == Ids(Users(followUpQueue))
MirrorsQueues == steeringMessages = SteersQueued /\ followUpMessages = FollowUpsQueued
Ahead(m) ==
    /\ m.kind = "user" /\ hands = <<m>>
    /\ \/ /\ steeringMessages = <<m.id>> \o SteersQueued /\ followUpMessages = FollowUpsQueued
       \/ /\ steeringMessages = SteersQueued /\ followUpMessages = <<m.id>> \o FollowUpsQueued
MirrorsHands == at = "inject" /\ \E m \in MessageType : Ahead(m)
MirrorInv == made["compact"] = 0 => MirrorsQueues \/ MirrorsHands

\* The texts of the messages: none is empty, and no two are equal.
TextsDiffer == \A m, n \in Nat \ {0} : Text(m) # 0 /\ (Text(m) = Text(n) => m = n)

\* No id is in two of the queues and the loop's hands.
LEMMA QueuesApart ==
    ASSUME Kinded, Accounted
    PROVE  /\ AllIds(steeringQueue) \subseteq Nat \ {0} /\ AllIds(followUpQueue) \subseteq Nat \ {0}
           /\ at = "inject" => /\ AllIds(hands) \subseteq Nat \ {0}
                               /\ Apart(AllIds(hands), AllIds(steeringQueue))
                               /\ Apart(AllIds(hands), AllIds(followUpQueue))
  <1>1. OncePlaced
    BY AccountedNow
  <1>2. ASSUME NEW s \in Seq(MessagesOf(Client, events))
        PROVE  IdsIn(s, Client) = AllIds(s) /\ AllIds(s) \subseteq Nat \ {0}
    <2>1. \A m \in MessagesOf(Client, events) : m.kind \in Client /\ m.id \in Nat \ {0}
      BY DEF MessagesOf, MessageType
    <2>2. \A i \in DOMAIN s : s[i] \in MessagesOf(Client, events)
      BY LenProperties, ElementOfSeq
    <2> QED
      BY <2>1, <2>2, InAll DEF AllIds
  <1>3. /\ steeringQueue \in Seq(MessagesOf(Client, events))
        /\ followUpQueue \in Seq(MessagesOf(Client, events))
        /\ at = "inject" => hands \in Seq(MessagesOf(Client, events))
    BY DEF Kinded, KindedUpto, QueuesOf, HandsOf
  <1> QED
    BY <1>1, <1>2, <1>3 DEF OncePlaced, Once

\* What the loop emits is not shown as pending any more.
LEMMA EmitMirrors ==
    ASSUME TextsDiffer, Kinded, Accounted, MirrorsQueues \/ MirrorsHands, connected,
           at = "inject", Emit(hands)
    PROVE  steeringMessages' = SteersQueued /\ followUpMessages' = FollowUpsQueued
  <1> DEFINE started == {Text(hands[i].id) : i \in IndicesOf(hands, {"user"})} \ {0}
             steered == Texts(steeringMessages)
             us == Users(steeringQueue)
             uf == Users(followUpQueue)
  <1>1. /\ steeringMessages' = Without(steeringMessages, started)
        /\ followUpMessages' = Without(followUpMessages, started \ steered)
    BY DEF Emit
  <1>2. /\ us \in Seq(MessageType) /\ AllIds(us) \subseteq AllIds(steeringQueue)
        /\ uf \in Seq(MessageType) /\ AllIds(uf) \subseteq AllIds(followUpQueue)
    BY UsersOf DEF Kinded, Controlled, Typed, LoopTyped
  <1>3. SteersQueued = Ids(us) /\ FollowUpsQueued = Ids(uf)
    BY DEF SteersQueued, FollowUpsQueued
  <1> HIDE DEF us, uf
  <1>4. /\ Apart(started, TextsOf(us)) /\ Apart(started, TextsOf(uf))
        /\ Apart(started \ steered, TextsOf(uf))
    <2>1. started \subseteq TextsOf(hands)
      BY DEF TextsOf, AllIds, IndicesOf
    <2>2. \A a, b \in SUBSET (Nat \ {0}) :
              Apart(a, b) => Apart({Text(id) : id \in a}, {Text(id) : id \in b})
      BY DEF Apart, TextsDiffer
    <2>3. /\ AllIds(hands) \in SUBSET (Nat \ {0})
          /\ AllIds(us) \in SUBSET (Nat \ {0}) /\ Apart(AllIds(hands), AllIds(us))
          /\ AllIds(uf) \in SUBSET (Nat \ {0}) /\ Apart(AllIds(hands), AllIds(uf))
      BY <1>2, QueuesApart DEF Apart
    <2>4. Apart(TextsOf(hands), TextsOf(us)) /\ Apart(TextsOf(hands), TextsOf(uf))
      BY ONLY <2>2, <2>3 DEF TextsOf
    <2> HIDE DEF started, steered
    <2> QED
      BY <2>1, <2>4 DEF Apart
  <1>5. CASE MirrorsQueues
    <2>1. PICK m \in MessageType : TRUE
      <3>1. Message("user") \in MessageType
        BY MessageTyped DEF Kinds, Kinded, Controlled, Typed, RestTyped
      <3> QED
        BY <3>1
    <2> HIDE DEF started, steered
    <2> QED
      BY <1>1, <1>2, <1>3, <1>4, <1>5, <2>1, MirrorOfQueue DEF MirrorsQueues
  <1>6. CASE MirrorsHands
    <2>1. PICK m \in MessageType : Ahead(m)
      BY <1>6 DEF MirrorsHands
    <2>2. Text(m.id) \in started
      <3>1. DOMAIN hands = {1} /\ hands[1] = m /\ m.kind = "user"
        BY <2>1 DEF Ahead
      <3>2. m.id \in AllIds(hands)
        BY <3>1 DEF AllIds
      <3>3. Text(m.id) # 0
        BY <3>2, QueuesApart DEF TextsDiffer
      <3> QED
        BY <3>1, <3>3 DEF IndicesOf
    <2>3. CASE steeringMessages = <<m.id>> \o Ids(us) /\ followUpMessages = Ids(uf)
      <3> HIDE DEF started, steered
      <3> QED
        BY <1>1, <1>2, <1>3, <1>4, <2>2, <2>3, MirrorOfQueue
    <2>4. CASE steeringMessages = Ids(us) /\ followUpMessages = <<m.id>> \o Ids(uf)
      <3>1. steered = TextsOf(us)
        BY <1>2, <2>4, IdsOf DEF TextsOf, Texts
      <3> HIDE DEF started, steered
      <3>2. Text(m.id) \in started \ steered
        BY <1>4, <2>2, <3>1 DEF Apart
      <3> QED
        BY <1>1, <1>2, <1>3, <1>4, <2>4, <3>2, MirrorOfQueue
    <2> QED
      BY <1>3, <2>1, <2>3, <2>4 DEF Ahead
  <1> QED
    BY <1>5, <1>6

\* What is polled is the first of a queue: a message of a user, which its mirror
\* shows, or a custom message, which it does not show.
LEMMA PolledMirrors ==
    ASSUME Kinded, steeringMessages' = SteersQueued, followUpMessages' = FollowUpsQueued,
           hands' # <<>> => at' = "inject",
           \/ UNCHANGED <<steeringQueue, followUpQueue>>
           \/ /\ hands' = FirstOf(steeringQueue) /\ steeringQueue' = RestOf(steeringQueue)
              /\ UNCHANGED followUpQueue
           \/ /\ hands' = FirstOf(followUpQueue) /\ followUpQueue' = RestOf(followUpQueue)
              /\ UNCHANGED steeringQueue
    PROVE  MirrorsQueues' \/ MirrorsHands'
  <1>1. steeringQueue \in Seq(MessageType) /\ followUpQueue \in Seq(MessageType)
    BY DEF Kinded, Controlled, Typed, LoopTyped
  <1>2. ASSUME NEW q \in Seq(MessageType), hands' = FirstOf(q)
        PROVE  \/ Ids(Users(q)) = Ids(Users(RestOf(q)))
               \/ \E m \in MessageType :
                      /\ m.kind = "user" /\ hands' = <<m>> /\ at' = "inject"
                      /\ Ids(Users(q)) = <<m.id>> \o Ids(Users(RestOf(q)))
    <2>1. CASE q = <<>>
      BY <2>1 DEF RestOf
    <2>2. CASE q # <<>>
      <3> DEFINE m == q[1]
                 u == Users(RestOf(q))
      <3>1. m \in MessageType /\ FirstOf(q) = <<m>> /\ RestOf(q) \in Seq(MessageType)
        BY <2>2, QueueParts
      <3>2. u \in Seq(MessageType) /\ Users(q) = IF m.kind = "user" THEN <<m>> \o u ELSE u
        BY <2>2, <3>1, UsersOf
      <3> HIDE DEF m, u
      <3>3. Ids(<<m>> \o u) = <<m.id>> \o Ids(u)
        BY <3>1, <3>2, IdsOfFirst
      <3>4. hands' = <<m>> /\ at' = "inject"
        BY <1>2, <3>1
      <3> QED
        BY <3>1, <3>2, <3>3, <3>4 DEF u
    <2> QED
      BY <2>1, <2>2
  <1>3. CASE UNCHANGED <<steeringQueue, followUpQueue>>
    BY <1>3 DEF MirrorsQueues, SteersQueued, FollowUpsQueued
  <1>4. CASE /\ hands' = FirstOf(steeringQueue) /\ steeringQueue' = RestOf(steeringQueue)
             /\ UNCHANGED followUpQueue
    BY <1>1, <1>2, <1>4 DEF MirrorsQueues, MirrorsHands, Ahead, SteersQueued, FollowUpsQueued
  <1>5. CASE /\ hands' = FirstOf(followUpQueue) /\ followUpQueue' = RestOf(followUpQueue)
             /\ UNCHANGED steeringQueue
    BY <1>1, <1>2, <1>5 DEF MirrorsQueues, MirrorsHands, Ahead, SteersQueued, FollowUpsQueued
  <1> QED
    BY <1>3, <1>4, <1>5

\* A turn is over: the first of one queue is taken, or nothing.
LEMMA TurnOverMirrors ==
    ASSUME Kinded, NEW hadCalls, TurnOver(hadCalls),
           steeringMessages' = SteersQueued, followUpMessages' = FollowUpsQueued
    PROVE  MirrorsQueues' \/ MirrorsHands'
  <1>1. hands' # <<>> => at' = "inject"
    BY DEF TurnOver
  <1>2. CASE steeringQueue # <<>> \/ hadCalls
    <2>1. hands' = FirstOf(steeringQueue) /\ steeringQueue' = RestOf(steeringQueue)
          /\ UNCHANGED followUpQueue
      BY <1>2 DEF TurnOver
    <2> QED
      BY <1>1, <2>1, PolledMirrors
  <1>3. CASE ~(steeringQueue # <<>> \/ hadCalls)
    <2>1. hands' = FirstOf(followUpQueue) /\ followUpQueue' = RestOf(followUpQueue)
          /\ UNCHANGED steeringQueue
      BY <1>3 DEF TurnOver, RestOf
    <2> QED
      BY <1>1, <2>1, PolledMirrors
  <1> QED
    BY <1>2, <1>3

LEMMA RunStepMirrors ==
    ASSUME TextsDiffer, Kinded, Accounted, connected, MirrorsQueues \/ MirrorsHands, RunStep
    PROVE  MirrorsQueues' \/ MirrorsHands'
  <1>1. CASE Inject
    <2>1. /\ at = "inject" /\ Emit(hands) /\ UNCHANGED followUpQueue
          /\ hands' # <<>> => at' = "inject"
          /\ \/ UNCHANGED steeringQueue
             \/ hands' = FirstOf(steeringQueue) /\ steeringQueue' = RestOf(steeringQueue)
      BY <1>1 DEF Inject
    <2>2. steeringMessages' = SteersQueued /\ followUpMessages' = FollowUpsQueued
      BY <2>1, EmitMirrors
    <2> QED
      BY <2>1, <2>2, PolledMirrors
  <1>2. ASSUME NEW ms, Emit(ms), \A i \in DOMAIN ms : ms[i].kind # "user", MirrorsQueues
        PROVE  steeringMessages' = SteersQueued /\ followUpMessages' = FollowUpsQueued
    <2> DEFINE started == {Text(ms[i].id) : i \in IndicesOf(ms, {"user"})} \ {0}
               steered == Texts(steeringMessages)
    <2>1. started = {}
      BY <1>2 DEF IndicesOf
    <2>2. /\ steeringMessages' = Without(steeringMessages, started)
          /\ followUpMessages' = Without(followUpMessages, started \ steered)
      BY <1>2 DEF Emit
    <2> HIDE DEF started, steered
    <2>3. steeringMessages \in Seq(Nat) /\ followUpMessages \in Seq(Nat)
      BY DEF Kinded, Controlled, Typed, MirrorsTyped
    <2>4. \A s \in Seq(Nat) : Without(s, {}) = s
      <3> TAKE s \in Seq(Nat)
      <3> QED
        BY AllKept DEF Without
    <2>5. started \ steered = {}
      BY <2>1
    <2> QED
      BY <1>2, <2>1, <2>2, <2>3, <2>4, <2>5 DEF MirrorsQueues
  <1>3. CASE ToolsEnd
    <2>1. at = "tools" /\ Emit(hands) /\ TurnOver(TRUE)
      BY <1>3 DEF ToolsEnd
    <2>2. PICK m \in MessagesOf({"result"}, events) : hands = <<m>>
      BY <2>1 DEF Kinded, KindedUpto, HandsOf
    <2>3. \A i \in DOMAIN hands : hands[i].kind # "user"
      BY <2>2 DEF MessagesOf
    <2>4. steeringMessages' = SteersQueued /\ followUpMessages' = FollowUpsQueued
      BY <1>2, <2>1, <2>3 DEF MirrorsHands
    <2> QED
      BY <2>1, <2>4, TurnOverMirrors
  <1>4. ASSUME NEW kind \in Replies, Reply(kind)
        PROVE  MirrorsQueues' \/ MirrorsHands'
    <2>1. at = "reply" /\ Emit(<<Message(kind)>>)
      BY <1>4 DEF Reply
    <2>2. \A i \in DOMAIN <<Message(kind)>> : <<Message(kind)>>[i].kind # "user"
      BY DEF Message, Replies
    <2>3. steeringMessages' = SteersQueued /\ followUpMessages' = FollowUpsQueued
      BY <1>2, <2>1, <2>2 DEF MirrorsHands
    <2>4. CASE TurnOver(FALSE)
      BY <2>3, <2>4, TurnOverMirrors
    <2>5. CASE UNCHANGED <<steeringQueue, followUpQueue>>
      BY <2>3, <2>5 DEF MirrorsQueues, SteersQueued, FollowUpsQueued
    <2> QED
      BY <1>4, <2>4, <2>5 DEF Reply
  <1>5. CASE FinishRun
    BY <1>5 DEF FinishRun, queueVars, MirrorsQueues, MirrorsHands, SteersQueued, FollowUpsQueued, Ahead
  <1> QED
    BY <1>1, <1>3, <1>4, <1>5 DEF RunStep

LEMMA PromptStepMirrors ==
    ASSUME Kinded, MirrorsQueues \/ MirrorsHands, NEW p \in Prompters, PromptStep(p)
    PROVE  MirrorsQueues' \/ MirrorsHands'
  <1>1. UNCHANGED queueVars
    BY DEF PromptStep, Preflight, Submit, PauseEnds, PauseAborted, Summarized, SummaryFails, Resume
  <1>2. CASE UNCHANGED <<at, hands, steeringQueue, followUpQueue>>
    BY <1>1, <1>2 DEF queueVars, MirrorsQueues, MirrorsHands,
                          SteersQueued, FollowUpsQueued, Ahead
  <1>3. ASSUME activeRun = "none", hands' # <<>> => at' = "inject",
               \/ UNCHANGED <<steeringQueue, followUpQueue>>
               \/ /\ hands' = FirstOf(steeringQueue) /\ steeringQueue' = RestOf(steeringQueue)
                  /\ UNCHANGED followUpQueue
               \/ /\ hands' = FirstOf(followUpQueue) /\ followUpQueue' = RestOf(followUpQueue)
                  /\ UNCHANGED steeringQueue
        PROVE  MirrorsQueues' \/ MirrorsHands'
    <2>1. at = "off"
      BY <1>3 DEF Kinded, Controlled, Typed, LoopTyped
    <2>2. steeringMessages' = SteersQueued /\ followUpMessages' = FollowUpsQueued
      BY <1>1, <2>1 DEF MirrorsQueues, MirrorsHands, queueVars
    <2> QED
      BY <1>3, <2>2, PolledMirrors
  <1>4. ASSUME NEW transcript, Continue(p, transcript)
        PROVE  MirrorsQueues' \/ MirrorsHands'
    <2>1. CASE Refused(p, transcript)
      BY <1>2, <2>1 DEF Refused, agentVars
    <2>2. CASE ContinuedWithNothing(p, transcript)
      BY <1>3, <2>2 DEF ContinuedWithNothing, Continued, StartRun
    <2>3. CASE ContinuedWithSteering(p, transcript)
      BY <1>3, <2>3 DEF ContinuedWithSteering, Continued, StartRun
    <2>4. CASE ContinuedWithFollowUp(p, transcript)
      BY <1>3, <2>4 DEF ContinuedWithFollowUp, Continued, StartRun
    <2> QED
      BY <1>4, <2>1, <2>2, <2>3, <2>4, ContinueCases DEF Kinded, Controlled, Typed
  <1>5. CASE Preflight(p) \/ PauseAborted(p) \/ Summarized(p) \/ SummaryFails(p)
    BY <1>2, <1>5 DEF Preflight, PauseAborted, Summarized, SummaryFails, agentVars
  <1>6. CASE Submit(p)
    <2>1. CASE activeRun = "none"
      BY <1>3, <1>6, <2>1 DEF Submit, StartRun
    <2>2. CASE activeRun # "none"
      BY <1>2, <1>6, <2>2 DEF Submit
    <2> QED
      BY <2>1, <2>2
  <1>7. CASE PauseEnds(p)
    BY <1>4, <1>7 DEF PauseEnds
  <1>8. CASE Resume(p)
    BY <1>2, <1>4, <1>8 DEF Resume, agentVars
  <1> QED
    BY <1>5, <1>6, <1>7, <1>8 DEF PromptStep

LEMMA NoUsers == Ids(Users(<<>>)) = <<>>
  BY OfKindEmpty, IdsOfEmpty DEF Users

LEMMA ClientStepMirrors ==
    ASSUME Kinded, MirrorsQueues \/ MirrorsHands, ClientStep, ~Compact
    PROVE  MirrorsQueues' \/ MirrorsHands'
  <1>0. /\ Message("user") \in MessageType /\ events \in Nat
        /\ steeringQueue \in Seq(MessageType) /\ followUpQueue \in Seq(MessageType)
    BY MessageTyped DEF Kinds, Kinded, Controlled, Typed, RestTyped, LoopTyped, Message
  <1>1. CASE Abort \/ NextTurn \/ RecordBash \/ \E p \in Prompters : Prompt(p)
    <2>1. UNCHANGED <<at, hands, steeringQueue, followUpQueue, queueVars>>
      BY <1>1 DEF Abort, NextTurn, RecordBash, Prompt, agentVars
    <2> QED
      BY <2>1 DEF queueVars, MirrorsQueues, MirrorsHands, SteersQueued, FollowUpsQueued, Ahead
  <1>2. ASSUME NEW q \in Seq(MessageType), NEW m \in MessageType, NEW kind \in Client
        PROVE  IF kind = "user"
               THEN /\ Ids(Users(Append(q, Message(kind)))) = Append(Ids(Users(q)), events + 1)
                    /\ Append(<<m.id>> \o Ids(Users(q)), events + 1)
                           = <<m.id>> \o Append(Ids(Users(q)), events + 1)
               ELSE Users(Append(q, Message(kind))) = Users(q)
    <2> DEFINE x == Message(kind)
               u == Users(q)
               w == Ids(u)
               n == events + 1
    <2>1. x \in MessageType /\ x.id = n /\ x.kind = kind
      BY <1>0, MessageTyped DEF Kinds, Client, Message
    <2> HIDE DEF x
    <2>2. u \in Seq(MessageType) /\ Users(Append(q, x)) = IF kind = "user" THEN Append(u, x) ELSE u
      BY <2>1, UsersOf
    <2> HIDE DEF u
    <2>3. Ids(Append(u, x)) = Append(w, n) /\ w \in Seq(Nat) /\ n \in Nat
      BY <1>0, <2>1, <2>2, IdsOf, IdsOfAppend
    <2>4. <<m.id>> \in Seq(Nat)
      BY DEF MessageType
    <2> HIDE DEF w, n
    <2>5. \A s, v \in Seq(Nat), e \in Nat : s \o Append(v, e) = Append(s \o v, e)
      BY ONLY ConcatOfAppend
    <2>6. <<m.id>> \o Append(w, n) = Append(<<m.id>> \o w, n)
      BY ONLY <2>3, <2>4, <2>5
    <2> QED
      BY <2>2, <2>3, <2>6 DEF x, u, w, n
  <1>3. CASE Steer
    <2>1. /\ UNCHANGED <<at, hands, followUpQueue, followUpMessages>>
          /\ steeringQueue' = Append(steeringQueue, Message("user"))
          /\ steeringMessages' = Append(steeringMessages, events + 1)
      BY <1>3 DEF Steer
    <2>2. SteersQueued' = Append(SteersQueued, events + 1) /\ FollowUpsQueued' = FollowUpsQueued
      BY <1>0, <1>2, <2>1 DEF SteersQueued, FollowUpsQueued, Client
    <2>3. ASSUME NEW m \in MessageType
          PROVE  Append(<<m.id>> \o SteersQueued, events + 1) = <<m.id>> \o SteersQueued'
      BY <1>0, <1>2, <2>2 DEF SteersQueued, Client
    <2> QED
      BY <2>1, <2>2, <2>3 DEF MirrorsQueues, MirrorsHands, Ahead
  <1>4. CASE FollowUp
    <2>1. /\ UNCHANGED <<at, hands, steeringQueue, steeringMessages>>
          /\ followUpQueue' = Append(followUpQueue, Message("user"))
          /\ followUpMessages' = Append(followUpMessages, events + 1)
      BY <1>4 DEF FollowUp
    <2>2. FollowUpsQueued' = Append(FollowUpsQueued, events + 1) /\ SteersQueued' = SteersQueued
      BY <1>0, <1>2, <2>1 DEF SteersQueued, FollowUpsQueued, Client
    <2>3. ASSUME NEW m \in MessageType
          PROVE  Append(<<m.id>> \o FollowUpsQueued, events + 1) = <<m.id>> \o FollowUpsQueued'
      BY <1>0, <1>2, <2>2 DEF FollowUpsQueued, Client
    <2> QED
      BY <2>1, <2>2, <2>3 DEF MirrorsQueues, MirrorsHands, Ahead
  <1>6. CASE QueueCustom
    <2>1. UNCHANGED <<at, hands, queueVars, SteersQueued, FollowUpsQueued>>
      BY <1>0, <1>2, <1>6 DEF QueueCustom, SteersQueued, FollowUpsQueued, Client
    <2> QED
      BY <2>1 DEF queueVars, MirrorsQueues, MirrorsHands, Ahead
  <1>5. CASE ClearQueue
    BY <1>5, NoUsers DEF ClearQueue, MirrorsQueues, SteersQueued, FollowUpsQueued
  <1> QED
    BY <1>1, <1>3, <1>4, <1>5, <1>6 DEF ClientStep

\* What the client is shown as pending is what the queues of the agent hold, in
\* their order, up to what the loop is about to emit, if no two texts are equal
\* and none is empty.
THEOREM MirrorShowsQueueAlways == TextsDiffer => (Spec => []MirrorShowsQueue)
  <1> SUFFICES ASSUME TextsDiffer
               PROVE  Spec => []MirrorShowsQueue
    OBVIOUS
  <1>1. Init => MirrorInv
    BY NoUsers DEF Init, MirrorInv, MirrorsQueues, SteersQueued, FollowUpsQueued
  <1>2. ASSUME Kinded, AccountInv, MirrorInv, [Next]_vars
        PROVE  MirrorInv'
    <2> SUFFICES ASSUME made'["compact"] = 0
                 PROVE  MirrorsQueues' \/ MirrorsHands'
      BY DEF MirrorInv
    <2>1. made["compact"] = 0 /\ ~Compact
      BY <1>2, NoCompactBefore DEF Kinded, Controlled
    <2>2. /\ Accounted /\ connected /\ manual.at = "idle"
          /\ MirrorsQueues \/ MirrorsHands
      BY <1>2, <2>1, ListensWithoutCompact DEF AccountInv, Kinded, MirrorInv
    <2>3. CASE RunStep
      BY <1>2, <2>2, <2>3, RunStepMirrors
    <2>4. ASSUME NEW p \in Prompters, PromptStep(p)
          PROVE  MirrorsQueues' \/ MirrorsHands'
      BY <1>2, <2>2, <2>4, PromptStepMirrors
    <2>5. ~CompactStep
      BY <2>2 DEF CompactStep, CompactReads, CompactSaves, CompactEnds
    <2>6. CASE ClientStep
      BY <1>2, <2>1, <2>2, <2>6, ClientStepMirrors
    <2>7. CASE UNCHANGED vars
      BY <2>2, <2>7 DEF vars, agentVars, queueVars, MirrorsQueues, MirrorsHands,
                        SteersQueued, FollowUpsQueued, Ahead
    <2> QED
      BY <1>2, <2>3, <2>4, <2>5, <2>6, <2>7 DEF Next, InternalStep
  <1>3. ASSUME Kinded, AccountInv, MirrorInv
        PROVE  MirrorShowsQueue
    <2> SUFFICES ASSUME made["compact"] = 0
                 PROVE  MirrorShowsQueue
      BY DEF MirrorShowsQueue
    <2>0. Accounted /\ (MirrorsQueues \/ MirrorsHands)
      BY <1>3 DEF AccountInv, MirrorInv
    <2>1. /\ steeringQueue \in Seq(MessageType) /\ followUpQueue \in Seq(MessageType)
          /\ hands \in Seq(MessageType)
      BY <1>3 DEF Kinded, Controlled, Typed, LoopTyped
    <2> DEFINE us == Users(steeringQueue)
               uf == Users(followUpQueue)
               mirrored(mirror, queue) ==
                   Selected(mirror, {i \in DOMAIN mirror : mirror[i] \in AllIds(queue)})
               shown == {steeringMessages[i] : i \in DOMAIN steeringMessages}
                        \union {followUpMessages[i] : i \in DOMAIN followUpMessages}
    <2>2. AllIds(steeringQueue \o followUpQueue \o hands)
              = AllIds(steeringQueue) \union AllIds(followUpQueue) \union AllIds(hands)
      <3>1. \A s, t \in Seq(MessageType) : AllIds(s \o t) = AllIds(s) \union AllIds(t)
        <4> TAKE s, t \in Seq(MessageType)
        <4>1. \A u \in Seq(MessageType) : IdsIn(u, Kinds) = AllIds(u)
          <5>1. \A m \in MessageType : m.kind \in Kinds
            BY DEF MessageType
          <5> QED
            BY <5>1, InAll
        <4>2. s \o t \in Seq(MessageType) /\ IdsIn(s \o t, Kinds) = IdsIn(s, Kinds) \union IdsIn(t, Kinds)
          BY ConcatTyped, InConcat
        <4> QED
          BY <4>1, <4>2
      <3> DEFINE u == steeringQueue \o followUpQueue
      <3>2. u \in Seq(MessageType) /\ AllIds(u) = AllIds(steeringQueue) \union AllIds(followUpQueue)
        BY <2>1, <3>1, ConcatTyped
      <3> HIDE DEF u
      <3>3. AllIds(u \o hands) = AllIds(u) \union AllIds(hands)
        BY <2>1, <3>1, <3>2
      <3> QED
        BY <3>2, <3>3 DEF u
    <2>5. /\ us \in Seq(MessageType) /\ AllIds(us) \subseteq AllIds(steeringQueue)
          /\ uf \in Seq(MessageType) /\ AllIds(uf) \subseteq AllIds(followUpQueue)
          /\ SteersQueued = Ids(us) /\ FollowUpsQueued = Ids(uf)
      BY <2>1, UsersOf DEF SteersQueued, FollowUpsQueued
    <2> HIDE DEF us, uf
    <2>3. /\ mirrored(steeringMessages, steeringQueue) = Ids(us)
          /\ mirrored(followUpMessages, followUpQueue) = Ids(uf)
          /\ shown \subseteq AllIds(steeringQueue) \union AllIds(followUpQueue) \union AllIds(hands)
      <3>1. CASE MirrorsQueues
        <4>1. PICK m \in MessageType : TRUE
          <5>1. Message("user") \in MessageType
            BY <1>3, MessageTyped DEF Kinds, Kinded, Controlled, Typed, RestTyped
          <5> QED
            BY <5>1
        <4>2. steeringMessages = Ids(us) /\ followUpMessages = Ids(uf)
          BY <2>5, <3>1 DEF MirrorsQueues
        <4>3. /\ mirrored(Ids(us), steeringQueue) = Ids(us)
              /\ mirrored(Ids(uf), followUpQueue) = Ids(uf)
          BY <2>5, <4>1, MirrorOfQueue
        <4>4. shown \subseteq AllIds(steeringQueue) \union AllIds(followUpQueue)
          BY <2>5, <4>2, IdsOf
        <4> QED
          BY <4>2, <4>3, <4>4
      <3>2. CASE MirrorsHands
        <4>1. PICK m \in MessageType : Ahead(m)
          BY <3>2 DEF MirrorsHands
        <4>2. AllIds(hands) = {m.id}
          <5>1. DOMAIN hands = {1} /\ hands[1] = m
            BY <4>1 DEF Ahead
          <5> QED
            BY <5>1 DEF AllIds
        <4>3. m.id \notin AllIds(steeringQueue) /\ m.id \notin AllIds(followUpQueue)
          BY <1>3, <2>0, <3>2, <4>2, QueuesApart DEF Apart, MirrorsHands
        <4>4. /\ mirrored(Ids(us), steeringQueue) = Ids(us)
              /\ mirrored(Ids(uf), followUpQueue) = Ids(uf)
              /\ mirrored(<<m.id>> \o Ids(us), steeringQueue) = Ids(us)
              /\ mirrored(<<m.id>> \o Ids(uf), followUpQueue) = Ids(uf)
          BY <2>5, <4>3, MirrorOfQueue
        <4>5. \A q \in Seq(MessageType) :
                  LET s == <<m.id>> \o Ids(q)
                  IN {s[i] : i \in DOMAIN s} \subseteq AllIds(q) \union {m.id}
          <5> SUFFICES ASSUME NEW q \in Seq(MessageType)
                       PROVE  LET s == <<m.id>> \o Ids(q)
                              IN \A i \in DOMAIN s : s[i] \in AllIds(q) \union {m.id}
            OBVIOUS
          <5> DEFINE f == <<m.id>>
                     w == Ids(q)
                     s == f \o w
          <5>1. f \in Seq(Nat) /\ Len(f) = 1 /\ f[1] = m.id
            BY DEF MessageType
          <5>2. w \in Seq(Nat) /\ \A i \in 1..Len(w) : w[i] \in AllIds(q)
            <6>1. w \in Seq(Nat) /\ AllIds(q) = {w[i] : i \in DOMAIN w}
              BY IdsOf
            <6> HIDE DEF w
            <6> QED
              BY <6>1, LenProperties
          <5> HIDE DEF f, w
          <5>3. /\ DOMAIN s = 1..(1 + Len(w)) /\ Len(w) \in Nat /\ s[1] = m.id
                /\ \A i \in 1..Len(w) : s[i + 1] = w[i]
            BY <5>1, <5>2, OneBefore
          <5> HIDE DEF s
          <5>4. \A i \in DOMAIN s : s[i] \in AllIds(q) \union {m.id}
            <6> TAKE i \in DOMAIN s
            <6>1. CASE i = 1
              BY <5>3, <6>1
            <6>2. CASE i # 1
              <7>1. PICK j \in 1..Len(w) : i = j + 1
                <8>1. i - 1 \in 1..Len(w) /\ i = i - 1 + 1
                  BY <5>3, <6>2
                <8> QED
                  BY <8>1
              <7> QED
                BY <5>2, <5>3, <7>1
            <6> QED
              BY <6>1, <6>2
          <5> QED
            BY <5>4 DEF s, f, w
        <4>6. \A q \in Seq(MessageType) :
                  {Ids(q)[i] : i \in DOMAIN Ids(q)} \subseteq AllIds(q) \union {m.id}
          BY IdsOf
        <4>7. shown \subseteq AllIds(us) \union AllIds(uf) \union {m.id}
          <5>1. steeringMessages \in {Ids(us), <<m.id>> \o Ids(us)}
                /\ followUpMessages \in {Ids(uf), <<m.id>> \o Ids(uf)}
            BY <2>5, <4>1 DEF Ahead
          <5>2. {steeringMessages[i] : i \in DOMAIN steeringMessages} \subseteq AllIds(us) \union {m.id}
            BY ONLY <2>5, <4>5, <4>6, <5>1
          <5>3. {followUpMessages[i] : i \in DOMAIN followUpMessages} \subseteq AllIds(uf) \union {m.id}
            BY ONLY <2>5, <4>5, <4>6, <5>1
          <5> QED
            BY ONLY <5>2, <5>3
        <4> HIDE DEF shown
        <4> QED
          BY <2>5, <4>1, <4>2, <4>4, <4>7 DEF Ahead
      <3> QED
        BY <2>0, <3>1, <3>2
    <2> HIDE DEF mirrored, shown
    <2>4. shown \subseteq AllIds(steeringQueue \o followUpQueue \o hands)
      BY <2>2, <2>3
    <2> QED
      BY <2>3, <2>4 DEF MirrorShowsQueue, mirrored, shown, us, uf
  <1>4. Kinded /\ AccountInv /\ MirrorInv /\ [Next]_vars => MirrorInv'
    BY <1>2
  <1>5. Kinded /\ AccountInv /\ MirrorInv => MirrorShowsQueue
    BY <1>3
  <1> QED
    BY <1>1, <1>4, <1>5, KindInvariant, AccountInvariant, PTL DEF Spec

-----------------------------------------------------------------------------
\* Parts of a session that grows.

\* A part of a sequence.
LEMMA PartTyped ==
    ASSUME NEW R, NEW s \in Seq(R), NEW a \in Nat \ {0}, NEW b \in Int, b <= Len(s)
    PROVE  SubSeq(s, a, b) \in Seq(R)
  <1>1. Len(s) \in Nat /\ \A i \in 1..Len(s) : s[i] \in R
    BY LenProperties, ElementOfSeq
  <1>2. \A i \in a..b : s[i] \in R
    BY <1>1
  <1>3. a \in Int
    OBVIOUS
  <1> QED
    BY <1>2, <1>3, SubSeqProperties

LEMMA PartOfFirst ==
    ASSUME NEW R, NEW s \in Seq(R), NEW t \in Seq(R), NEW a \in Nat \ {0}, NEW b \in Int, b <= Len(s)
    PROVE  SubSeq(s \o t, a, b) = SubSeq(s, a, b)
  <1>1. Len(s) \in Nat
    BY LenProperties
  <1>2. CASE b < a
    BY <1>2, SubSeqEmpty
  <1>3. CASE a <= b
    <2>1. a \in 1..Len(s) /\ b \in 1..Len(s)
      BY <1>1, <1>3
    <2> QED
      BY <2>1, SubSeqOfConcat1
  <1> QED
    BY <1>2, <1>3

LEMMA PartFromFirst ==
    ASSUME NEW R, NEW s \in Seq(R), NEW t \in Seq(R), NEW a \in 1..(Len(s) + 1)
    PROVE  SubSeq(s \o t, a, Len(s \o t)) = SubSeq(s, a, Len(s)) \o t
  <1> DEFINE u == s \o t
             k == Len(s)
             n == Len(s) + Len(t)
  <1>1. u \in Seq(R) /\ Len(u) = n /\ k \in Nat /\ Len(t) \in Nat
    BY ConcatParts
  <1>2. SubSeq(u, a, k) = SubSeq(s, a, k)
    BY <1>1, PartOfFirst
  <1>3. SubSeq(u, k + 1, n) = t
    <2>1. CASE Len(t) = 0
      <3>1. t = <<>>
        BY <2>1, EmptySeq
      <3>2. n < k + 1 /\ n \in Int /\ k + 1 \in Int
        BY <1>1, <2>1
      <3> QED
        BY <3>1, <3>2, SubSeqEmpty
    <2>2. CASE Len(t) # 0
      <3>1. k + 1 \in (Len(s) + 1)..(Len(s) + Len(t)) /\ n \in (Len(s) + 1)..(Len(s) + Len(t))
            /\ k + 1 - Len(s) = 1 /\ n - Len(s) = Len(t)
        BY <1>1, <2>2
      <3>2. SubSeq(u, k + 1, n) = SubSeq(t, k + 1 - Len(s), n - Len(s))
        BY <3>1, SubSeqOfConcat2
      <3>3. SubSeq(t, 1, Len(t)) = t
        BY SubSeqFull
      <3> QED
        BY <3>1, <3>2, <3>3
    <2> QED
      BY <2>1, <2>2
  <1>4. SubSeq(u, a, k) \o SubSeq(u, k + 1, n) = SubSeq(u, a, n)
    <2>1. a \in 1..(Len(u) + 1) /\ k \in (a - 1)..Len(u) /\ n \in k..Len(u)
      BY <1>1
    <2> HIDE DEF u, k, n
    <2> QED
      BY <1>1, <2>1, ConcatAdjacentSubSeq
  <1>5. SubSeq(u, a, n) = SubSeq(s, a, k) \o t
    <2> HIDE DEF u, k, n
    <2> QED
      BY <1>2, <1>3, <1>4
  <1> QED
    BY <1>1, <1>5

\* The context of a session to which messages are appended is its context and
\* the messages.
LEMMA ContextGrows ==
    ASSUME NEW s \in Seq(EntryType), NEW t \in Seq(MessageType)
    PROVE  Context(s \o t) = Context(s) \o t
  <1> DEFINE u == s \o t
  <1>1. t \in Seq(EntryType)
    BY MessagesAreEntries
  <1>2. /\ u \in Seq(EntryType) /\ Len(u) = Len(s) + Len(t) /\ Len(s) \in Nat /\ Len(t) \in Nat
        /\ DOMAIN s = 1..Len(s) /\ DOMAIN u = 1..(Len(s) + Len(t))
        /\ \A i \in 1..Len(s) : u[i] = s[i]
        /\ \A i \in 1..(Len(s) + Len(t)) :
               i > Len(s) => i - Len(s) \in 1..Len(t) /\ u[i] = t[i - Len(s)]
    BY <1>1, ConcatParts
  <1>3. \A i \in 1..Len(t) : t[i].kind # "compaction"
    <2>1. \A m \in MessageType : m.kind # "compaction"
      BY DEF MessageType, Kinds, Replies
    <2>2. \A i \in 1..Len(t) : t[i] \in MessageType
      BY ElementOfSeq
    <2> QED
      BY <2>1, <2>2
  <1>4. Compactions(u) = Compactions(s)
    <2> HIDE DEF u
    <2>1. \A i \in 1..(Len(s) + Len(t)) : i > Len(s) => u[i].kind # "compaction"
      BY <1>2, <1>3
    <2>2. \A i \in 1..Len(s) : i \in 1..(Len(s) + Len(t))
      BY <1>2
    <2>3. \A i \in 1..(Len(s) + Len(t)) : i > Len(s) \/ i \in 1..Len(s)
      BY <1>2
    <2> QED
      BY <1>2, <2>1, <2>2, <2>3 DEF Compactions, IndicesOf
  <1>5. CASE Compactions(s) = {}
    BY <1>2, <1>4, <1>5, ContextIs
  <1>6. CASE Compactions(s) # {}
    <2> DEFINE c == LatestCompaction(s)
               k == s[c].keep
               a == <<[kind |-> "summary", id |-> s[c].id]>>
               b == OfKind(SubSeq(s, k, c - 1), Kinds)
               d == SubSeq(s, c + 1, Len(s))
    <2>1. c \in Compactions(s) /\ c = LatestCompaction(u) /\ \A i \in Compactions(s) : i <= c
      BY <1>4, <1>6, LatestOfSome DEF LatestCompaction
    <2>2. c \in DOMAIN s /\ s[c].kind = "compaction"
          /\ \A i \in DOMAIN s : i > c => s[i].kind # "compaction"
      <3> HIDE DEF c
      <3> QED
        BY <1>2, <2>1 DEF Compactions, IndicesOf
    <2>3. Context(s) = Shown(s, c) /\ Context(u) = Shown(u, c)
      BY <1>2, <1>4, <1>6, <2>1, ContextIs
    <2> HIDE DEF c
    <2>4. a \in Seq(MessageType) /\ b \in Seq(MessageType) /\ d \in Seq(MessageType)
      BY <2>2, ShownParts
    <2>5. c \in 1..Len(s) /\ u[c] = s[c]
      BY <1>2, <2>2
    <2>6. k \in Nat \ {0}
      <3>1. s[c] \in EntryType
        BY <2>5, ElementOfSeq
      <3> QED
        BY <2>2, <3>1 DEF EntryType, MessageType, Kinds, Replies
    <2> HIDE DEF k
    <2>7. SubSeq(u, k, c - 1) = SubSeq(s, k, c - 1)
      <3>1. c - 1 \in Int /\ c - 1 <= Len(s)
        BY <1>2, <2>5
      <3> QED
        BY <1>1, <2>6, <3>1, PartOfFirst
    <2>8. SubSeq(u, c + 1, Len(u)) = d \o t
      <3>1. c + 1 \in 1..(Len(s) + 1)
        BY <1>2, <2>5
      <3> QED
        BY <1>1, <3>1, PartFromFirst
    <2>9. Shown(s, c) = (a \o b) \o d /\ Shown(u, c) = (a \o b) \o (d \o t)
      BY <2>5, <2>7, <2>8 DEF Shown, k
    <2> HIDE DEF a, b, d
    <2>10. (a \o b) \o (d \o t) = ((a \o b) \o d) \o t
      <3> DEFINE v == a \o b
      <3>1. v \in Seq(MessageType)
        BY <2>4, ConcatTyped
      <3> HIDE DEF v
      <3>2. v \o (d \o t) = (v \o d) \o t
        <4>1. Cat(Cat(v, d), t) = Cat(v, Cat(d, t))
          BY ONLY <2>4, <3>1, t \in Seq(MessageType), GroupingOfCat
        <4> QED
          BY ONLY <4>1 DEF Cat
      <3> QED
        BY <3>2 DEF v
    <2> QED
      BY <2>3, <2>9, <2>10
  <1> QED
    BY <1>5, <1>6

\* The last of a concatenation.
LEMMA LastOfConcat ==
    \A R : \A s, t \in Seq(R) : /\ t # <<>> => LastKind(s \o t) = LastKind(t) /\ s \o t # <<>>
                                /\ t = <<>> => s \o t = s
  <1> SUFFICES ASSUME NEW R, NEW s \in Seq(R), NEW t \in Seq(R)
               PROVE  /\ t # <<>> => LastKind(s \o t) = LastKind(t) /\ s \o t # <<>>
                      /\ t = <<>> => s \o t = s
    OBVIOUS
  <1>1. CASE t = <<>>
    BY <1>1, ConcatEmptySeq
  <1>2. CASE t # <<>>
    <2>1. PICK u \in Seq(R), e \in R : t = Append(u, e)
      BY <1>2, SequenceEmptyOrAppend
    <2> DEFINE w == s \o u
    <2>2. s \o t = Append(w, e) /\ w \in Seq(R)
      BY <2>1, ConcatOfAppend
    <2> HIDE DEF w
    <2>3. LastKind(Append(w, e)) = e.kind /\ Append(w, e) # <<>>
      BY <2>2, LastKindAppend
    <2>4. LastKind(Append(u, e)) = e.kind
      BY LastKindAppend
    <2> QED
      BY <1>2, <2>1, <2>2, <2>3, <2>4
  <1> QED
    BY <1>1, <1>2

\* When the last one is of some kinds, it is the last of those kinds.
LEMMA LastOfKind ==
    ASSUME NEW R, NEW s \in Seq(R), s # <<>>, NEW K, LastKind(s) \in K
    PROVE  OfKind(s, K) # <<>> /\ LastKind(OfKind(s, K)) = LastKind(s)
  <1> DEFINE e == s[Len(s)]
             f == Front(s)
  <1>1. f \in Seq(R) /\ e \in R /\ s = Append(f, e)
    BY FrontProperties
  <1>2. e.kind \in K
    BY DEF LastKind
  <1>3. LastKind(s) = e.kind
    BY DEF LastKind
  <1> HIDE DEF e, f
  <1>4. OfKind(s, K) = OfKind(f, K) \o <<e>>
    BY <1>1, <1>2, OfKindAppend
  <1> DEFINE w == OfKind(f, K)
  <1>5. w \in Seq(R) /\ w \o <<e>> = Append(w, e)
    <2>1. w \in Seq(R)
      BY <1>1, OfKindType
    <2> HIDE DEF w
    <2> QED
      BY <1>1, <2>1, LastKindAppend
  <1> HIDE DEF w
  <1>6. LastKind(Append(w, e)) = e.kind /\ Append(w, e) # <<>>
    BY <1>1, <1>5, LastKindAppend
  <1> QED
    BY <1>3, <1>4, <1>5, <1>6 DEF w

LEMMA OfKindTwiceAppend ==
    \A R, K, M : \A v \in Seq(R), e \in R :
        M \subseteq K /\ OfKind(OfKind(v, K), M) = OfKind(v, M)
        => OfKind(OfKind(Append(v, e), K), M) = OfKind(Append(v, e), M)
  <1> SUFFICES ASSUME NEW R, NEW K, NEW M, NEW v \in Seq(R), NEW e \in R, M \subseteq K,
                      OfKind(OfKind(v, K), M) = OfKind(v, M)
               PROVE  OfKind(OfKind(Append(v, e), K), M) = OfKind(Append(v, e), M)
    OBVIOUS
  <1> DEFINE a == OfKind(v, K)
             last == IF e.kind \in M THEN <<e>> ELSE <<>>
  <1>1. a \in Seq(R) /\ OfKind(a, M) = OfKind(v, M) /\ OfKind(v, M) \in Seq(R)
    BY OfKindType
  <1>2. OfKind(Append(v, e), M) = OfKind(v, M) \o last
    BY OfKindAppend
  <1>3. OfKind(Append(v, e), K) = a \o (IF e.kind \in K THEN <<e>> ELSE <<>>)
    BY OfKindAppend
  <1> HIDE DEF a
  <1>4. CASE e.kind \in K
    <2>1. OfKind(Append(v, e), K) = Append(a, e)
      <3>1. OfKind(Append(v, e), K) = a \o <<e>>
        BY <1>3, <1>4
      <3>2. a \o <<e>> = Append(a, e)
        BY <1>1, LastKindAppend
      <3> QED
        BY <3>1, <3>2
    <2>2. OfKind(Append(a, e), M) = OfKind(a, M) \o last
      BY <1>1, OfKindAppend
    <2> HIDE DEF last
    <2> QED
      BY <1>1, <1>2, <2>1, <2>2
  <1>5. CASE e.kind \notin K
    <2>1. OfKind(Append(v, e), K) = a
      <3>1. OfKind(Append(v, e), K) = a \o <<>>
        BY <1>3, <1>5
      <3> QED
        BY <1>1, <3>1, ConcatEmptySeq
    <2>2. OfKind(Append(v, e), M) = OfKind(v, M)
      <3>1. last = <<>>
        BY <1>5
      <3> HIDE DEF last
      <3> QED
        BY <1>1, <1>2, <3>1, ConcatEmptySeq
    <2> QED
      BY <1>1, <2>1, <2>2
  <1> QED
    BY <1>4, <1>5

\* Of what is of some kinds, and of fewer of them.
LEMMA OfKindTwice ==
    ASSUME NEW R, NEW s \in Seq(R), NEW K, NEW M, M \subseteq K
    PROVE  OfKind(OfKind(s, K), M) = OfKind(s, M)
  <1> DEFINE S == {n \in Nat : \A u \in Seq(R) : Len(u) = n
                      => OfKind(OfKind(u, K), M) = OfKind(u, M)}
  <1>1. 0 \in S
    <2> SUFFICES ASSUME NEW u \in Seq(R), Len(u) = 0
                 PROVE  OfKind(OfKind(u, K), M) = OfKind(u, M)
      OBVIOUS
    <2>1. u = <<>>
      BY EmptySeq
    <2>2. OfKind(<<>>, K) = <<>> /\ OfKind(<<>>, M) = <<>>
      BY OfKindEmpty
    <2> QED
      BY <2>1, <2>2
  <1>2. ASSUME NEW n \in Nat, n \in S
        PROVE  n + 1 \in S
    <2> SUFFICES ASSUME NEW u \in Seq(R), Len(u) = n + 1
                 PROVE  OfKind(OfKind(u, K), M) = OfKind(u, M)
      OBVIOUS
    <2>1. u # <<>>
      BY EmptySeq
    <2>2. PICK v \in Seq(R), e \in R : u = Append(v, e)
      BY <2>1, SequenceEmptyOrAppend
    <2>3. Len(v) = n
      BY <2>2, AppendProperties, LenProperties
    <2>4. OfKind(OfKind(v, K), M) = OfKind(v, M)
      BY <1>2, <2>3
    <2>5. OfKind(OfKind(Append(v, e), K), M) = OfKind(Append(v, e), M)
      BY <2>4, OfKindTwiceAppend
    <2> QED
      BY <2>2, <2>5
  <1>3. Len(s) \in S
    <2> HIDE DEF S
    <2>1. Nat \subseteq S
      BY <1>1, <1>2, NatSetInduction
    <2> QED
      BY <2>1, LenProperties
  <1> QED
    BY <1>3

-----------------------------------------------------------------------------
\* The transcript and the context of the session.

Bad == Errors \union Overflows

\* What lasts is what is no failed reply.
LEMMA LastingKinds ==
    /\ Lasting = Kinds \ Bad /\ Lasting \subseteq Kinds
    /\ Bad \subseteq Replies /\ Bad \subseteq Kinds
    /\ Replies \subseteq Kinds /\ "summary" \in Lasting \ Replies
    /\ "compaction" \notin Kinds /\ "none" \notin Kinds
    /\ Client \subseteq Lasting \ Replies /\ "result" \in Lasting \ Replies
    /\ "bash" \in Lasting \ Replies
    /\ \A kind \in Kinds : kind \notin Replies => kind \in Lasting
    /\ \A kind \in Replies : kind \notin Bad => kind \in Lasting
  BY DEF Lasting, Bad, Kinds, Replies, Errors, Overflows, Client

\* Of what lasts, a reply is not the last.
Open(s) == LastKind(OfKind(s, Lasting)) \notin Replies

\* Entries after which a session stays open.
Quiet(Q) == \A e \in Q : e.kind \notin Replies \/ e.kind \in Bad

LEMMA OpenGrows ==
    ASSUME NEW R, NEW s \in Seq(R), NEW Q \in SUBSET R, NEW t \in Seq(Q), Quiet(Q), Open(s)
    PROVE  Open(s \o t)
  <1>1. t \in Seq(R)
    BY SeqMonotonic
  <1> DEFINE a == OfKind(s, Lasting)
             b == OfKind(t, Lasting)
  <1>2. OfKind(s \o t, Lasting) = a \o b
    BY <1>1, OfKindConcat
  <1>3. a \in Seq(R) /\ b \in Seq(R)
    BY <1>1, OfKindType
  <1>4. b \in Seq({e \in Q : e.kind \in Lasting})
    BY OfKindType
  <1>5. LastKind(a) \notin Replies
    BY DEF Open
  <1> HIDE DEF a, b
  <1>6. CASE b = <<>>
    <2>1. a \o b = a
      BY <1>3, <1>6, LastOfConcat
    <2> QED
      BY <1>2, <1>5, <2>1 DEF Open
  <1>7. CASE b # <<>>
    <2>1. LastKind(a \o b) = LastKind(b)
      BY <1>3, <1>7, LastOfConcat
    <2>2. b[Len(b)] \in {e \in Q : e.kind \in Lasting}
      BY <1>4, <1>7, FrontProperties
    <2>3. b[Len(b)].kind \notin Replies
      BY <2>2, LastingKinds DEF Quiet
    <2> QED
      BY <1>2, <1>7, <2>1, <2>3 DEF Open, LastKind
  <1> QED
    BY <1>6, <1>7

\* After messages that last and are no replies, a session is open.
LEMMA OpenAfter ==
    ASSUME NEW R, NEW s \in Seq(R), NEW Q \in SUBSET R, NEW t \in Seq(Q), t # <<>>,
           \A e \in Q : e.kind \in Lasting \ Replies
    PROVE  Open(s \o t)
  <1>1. t \in Seq(R)
    BY SeqMonotonic
  <1>2. \A i \in DOMAIN t : t[i].kind \in Lasting
    BY LenProperties, ElementOfSeq
  <1>3. OfKind(t, Lasting) = t
    BY <1>2, OfKindAll
  <1> DEFINE a == OfKind(s, Lasting)
  <1>4. OfKind(s \o t, Lasting) = a \o t
    BY <1>1, <1>3, OfKindConcat
  <1>5. a \in Seq(R)
    BY OfKindType
  <1> HIDE DEF a
  <1>6. LastKind(a \o t) = LastKind(t)
    BY <1>1, <1>5, LastOfConcat
  <1>7. t[Len(t)] \in Q
    BY FrontProperties
  <1> QED
    BY <1>4, <1>6, <1>7 DEF Open, LastKind

\* Compactions keep from a message before them.
WellKept(s) == \A c \in Compactions(s) : s[c].keep < c /\ s[s[c].keep].kind \in Kinds

LEMMA EmptyConcat ==
    \A R : \A a, b \in Seq(R) : a \o b = <<>> => a = <<>>
  <1> SUFFICES ASSUME NEW R, NEW a \in Seq(R), NEW b \in Seq(R), a \o b = <<>>
               PROVE  a = <<>>
    OBVIOUS
  <1>1. Len(a \o b) = Len(a) + Len(b) /\ Len(a) \in Nat /\ Len(b) \in Nat
    BY ConcatProperties, LenProperties
  <1>2. Len(a) = 0
    BY <1>1
  <1> QED
    BY <1>2, EmptySeq

\* What lasts of a session with compactions and of its context.
LEMMA LastingParts ==
    ASSUME NEW s \in Seq(EntryType), WellKept(s), Compactions(s) # {}
    PROVE  \E k \in 1..Len(s), x \in Seq(EntryType), m \in EntryType :
               /\ m.kind = "summary"
               /\ s[k].kind \in Kinds
               /\ OfKind(Context(s), Lasting) = <<m>> \o x
               /\ OfKind(s, Lasting) = OfKind(SubSeq(s, 1, k - 1), Lasting) \o x
               /\ x = <<>> => s[k].kind \in Bad
  <1> DEFINE c == LatestCompaction(s)
             k == s[c].keep
             m == [kind |-> "summary", id |-> s[c].id]
             before == SubSeq(s, 1, k - 1)
             kept == SubSeq(s, k, c - 1)
             after == SubSeq(s, c + 1, Len(s))
             K == OfKind(kept, Lasting)
             A == OfKind(after, Lasting)
  <1>1. c \in Compactions(s) /\ \A i \in Compactions(s) : i <= c
    BY LatestOfSome
  <1>2. /\ c \in 1..Len(s) /\ Len(s) \in Nat /\ DOMAIN s = 1..Len(s) /\ s[c].kind = "compaction"
        /\ \A i \in DOMAIN s : i > c => s[i].kind # "compaction"
    <2>0. Len(s) \in Nat /\ DOMAIN s = 1..Len(s)
      BY LenProperties
    <2> HIDE DEF c
    <2> QED
      BY <1>1, <2>0 DEF Compactions, IndicesOf
  <1>3. Context(s) = Shown(s, c)
    BY ContextIs
  <1>4. k < c /\ s[k].kind \in Kinds
    BY <1>1 DEF WellKept
  <1> HIDE DEF c
  <1>5. k \in Nat \ {0}
    <2>1. s[c] \in EntryType
      BY <1>2, ElementOfSeq
    <2> QED
      BY <1>2, <2>1 DEF EntryType, MessageType, Kinds, Replies
  <1>6. /\ <<m>> \in Seq(MessageType) /\ kept \in Seq(EntryType)
        /\ OfKind(kept, Kinds) \in Seq(MessageType) /\ after \in Seq(MessageType)
    BY <1>2, ShownParts
  <1>7. Shown(s, c) = <<m>> \o OfKind(kept, Kinds) \o after
    BY DEF Shown
  <1> HIDE DEF k
  <1>8. k \in 1..Len(s) /\ k - 1 \in Int /\ k - 1 <= Len(s) /\ k \in 1..(c - 1)
    BY <1>2, <1>4, <1>5
  <1>9. before \in Seq(EntryType)
    BY <1>8, PartTyped
  <1>10. m \in EntryType /\ m.kind = "summary"
    <2>1. m \in MessageType
      <3>1. s[c] \in EntryType
        BY <1>2, ElementOfSeq
      <3>2. s[c].id \in Nat
        BY <3>1 DEF EntryType, MessageType
      <3> QED
        BY <3>2 DEF MessageType, Kinds
    <2> QED
      BY <2>1, MessagesAreEntries
  <1>11. s = ((before \o kept) \o <<s[c]>>) \o after
    <2>1. SubSeq(s, 1, k - 1) \o SubSeq(s, k - 1 + 1, c - 1) = SubSeq(s, 1, c - 1)
      <3>1. 1 \in 1..(Len(s) + 1) /\ k - 1 \in (1 - 1)..Len(s) /\ c - 1 \in (k - 1)..Len(s)
        BY <1>2, <1>8
      <3> QED
        BY <3>1, ConcatAdjacentSubSeq
    <2>2. SubSeq(s, 1, c) = SubSeq(s, 1, c - 1) \o <<s[c]>>
      <3>1. 1 \in 1..Len(s) /\ c \in 1..Len(s)
        BY <1>2
      <3> QED
        BY <3>1, SubSeqRecursiveSecond
    <2>3. SubSeq(s, 1, c) \o SubSeq(s, c + 1, Len(s)) = SubSeq(s, 1, Len(s))
      <3>1. 1 \in 1..(Len(s) + 1) /\ c \in (1 - 1)..Len(s) /\ Len(s) \in c..Len(s)
        BY <1>2
      <3> QED
        BY <3>1, ConcatAdjacentSubSeq
    <2>4. SubSeq(s, 1, Len(s)) = s /\ k - 1 + 1 = k
      BY <1>8, SubSeqFull
    <2> QED
      BY <2>1, <2>2, <2>3, <2>4
  <1>12. <<s[c]>> \in Seq(EntryType) /\ OfKind(<<s[c]>>, Lasting) = <<>>
    <2> DEFINE f == <<s[c]>>
    <2>1. f \in Seq(EntryType)
      BY <1>2, ElementOfSeq
    <2>2. \A i \in DOMAIN f : f[i].kind \notin Lasting
      BY <1>2, LastingKinds
    <2> HIDE DEF f
    <2>3. OfKind(f, Lasting) = <<>>
      BY <2>1, <2>2, OfKindNone
    <2> QED
      BY <2>1, <2>3 DEF f
  <1>13. OfKind(<<m>>, Lasting) = <<m>> /\ <<m>> \in Seq(EntryType) /\ after \in Seq(EntryType)
    <2> DEFINE f == <<m>>
    <2>1. f \in Seq(EntryType) /\ after \in Seq(EntryType)
      BY <1>6, MessagesAreEntries
    <2>2. \A i \in DOMAIN f : f[i].kind \in Lasting
      BY LastingKinds
    <2> HIDE DEF f, after
    <2>3. OfKind(f, Lasting) = f
      BY <2>1, <2>2, OfKindAll
    <2> QED
      BY <2>1, <2>3 DEF f
  <1>14. OfKind(OfKind(kept, Kinds), Lasting) = K
    BY <1>6, LastingKinds, OfKindTwice
  <1>15. \A a, b \in Seq(EntryType) :
             OfKind(Cat(a, b), Lasting) = Cat(OfKind(a, Lasting), OfKind(b, Lasting))
    BY ONLY OfKindOfCat
  <1>16. \A a, b \in Seq(EntryType) : Cat(a, b) \in Seq(EntryType)
    BY ONLY ConcatTyped DEF Cat
  <1>18. \A a \in Seq(EntryType) : OfKind(a, Lasting) \in Seq(EntryType) /\ Cat(a, <<>>) = a
    BY OfKindType, ConcatEmptySeq DEF Cat
  <1> DEFINE f == <<m>>
             g == <<s[c]>>
             n == OfKind(kept, Kinds)
             B == OfKind(before, Lasting)
             x == K \o A
  <1>19. n \in Seq(EntryType) /\ f \in Seq(EntryType) /\ g \in Seq(EntryType)
         /\ OfKind(g, Lasting) = <<>> /\ OfKind(f, Lasting) = f /\ OfKind(n, Lasting) = K
         /\ Context(s) = (f \o n) \o after /\ s = ((before \o kept) \o g) \o after
    BY <1>3, <1>6, <1>7, <1>11, <1>12, <1>13, <1>14, MessagesAreEntries
  <1>20. K \in Seq(EntryType) /\ A \in Seq(EntryType) /\ B \in Seq(EntryType) /\ x \in Seq(EntryType)
         /\ OfKind(after, Lasting) = A /\ OfKind(before, Lasting) = B /\ OfKind(kept, Lasting) = K
    BY <1>6, <1>9, <1>13, <1>16, <1>18 DEF Cat
  <1>21. \E j \in 1..(c - 1) : s[j].kind \in Kinds /\ j = k
    BY <1>4, <1>8
  <1> HIDE DEF f, g, n, before, kept, after, K, A, B, m, x
  <1>22. OfKind(Context(s), Lasting) = f \o x
    <2>1. Context(s) = Cat(Cat(f, n), after) /\ x = Cat(K, A)
      BY ONLY <1>19 DEF Cat, x
    <2>2. Cat(f, n) \in Seq(EntryType) /\ OfKind(Cat(f, n), Lasting) = Cat(f, K)
      BY ONLY <1>15, <1>16, <1>19
    <2>3. OfKind(Cat(Cat(f, n), after), Lasting) = Cat(Cat(f, K), A)
      BY ONLY <1>13, <1>15, <1>20, <2>2
    <2>4. Cat(Cat(f, K), A) = Cat(f, Cat(K, A))
      BY ONLY <1>19, <1>20, GroupingOfCat
    <2>5. OfKind(Context(s), Lasting) = Cat(f, x)
      BY ONLY <2>1, <2>3, <2>4
    <2> QED
      BY ONLY <2>5 DEF Cat
  <1>23. OfKind(s, Lasting) = B \o x
    <2>1. s = Cat(Cat(Cat(before, kept), g), after) /\ x = Cat(K, A)
      BY ONLY <1>19 DEF Cat, x
    <2>2. Cat(before, kept) \in Seq(EntryType) /\ OfKind(Cat(before, kept), Lasting) = Cat(B, K)
      BY ONLY <1>6, <1>9, <1>15, <1>16, <1>20
    <2>3. /\ Cat(Cat(before, kept), g) \in Seq(EntryType)
          /\ OfKind(Cat(Cat(before, kept), g), Lasting) = Cat(Cat(B, K), <<>>)
      BY ONLY <1>15, <1>16, <1>19, <2>2
    <2>4. OfKind(Cat(Cat(Cat(before, kept), g), after), Lasting) = Cat(Cat(Cat(B, K), <<>>), A)
      BY ONLY <1>13, <1>15, <1>20, <2>3
    <2>5. Cat(Cat(B, K), <<>>) = Cat(B, K)
      BY ONLY <1>16, <1>18, <1>20
    <2>6. Cat(Cat(B, K), A) = Cat(B, Cat(K, A))
      BY ONLY <1>20, GroupingOfCat
    <2>7. OfKind(s, Lasting) = Cat(B, x)
      BY ONLY <2>1, <2>4, <2>5, <2>6
    <2> QED
      BY ONLY <2>7 DEF Cat
  <1>24. x = <<>> => s[k].kind \in Bad
    <2> SUFFICES ASSUME x = <<>>, s[k].kind \notin Bad
                 PROVE  FALSE
      OBVIOUS
    <2>1. K = <<>>
      <3>1. \A a, b \in Seq(EntryType) : a \o b = <<>> => a = <<>>
        BY EmptyConcat
      <3>2. K \in Seq(EntryType) /\ A \in Seq(EntryType) /\ K \o A = <<>>
        BY <1>20 DEF x
      <3> QED
        BY ONLY <3>1, <3>2
    <2>2. s[k].kind \in Lasting
      BY <1>4, LastingKinds
    <2>3. kept = <<s[k]>> \o SubSeq(s, k + 1, c - 1)
      <3>1. k \in 1..Len(s) /\ c - 1 \in k..Len(s)
        BY <1>2, <1>8
      <3> QED
        BY <3>1, SubSeqRecursiveFirst DEF kept
    <2> DEFINE h == <<s[k]>>
               r == SubSeq(s, k + 1, c - 1)
    <2>4. h \in Seq(EntryType) /\ h # <<>> /\ r \in Seq(EntryType) /\ kept = h \o r
      <3>1. s[k] \in EntryType
        BY <1>8, ElementOfSeq
      <3>2. k + 1 \in Nat \ {0} /\ c - 1 \in Int /\ c - 1 <= Len(s)
        BY <1>2, <1>8
      <3> QED
        BY <2>3, <3>1, <3>2, PartTyped
    <2>5. \A i \in DOMAIN h : h[i].kind \in Lasting
      BY <2>2
    <2> HIDE DEF h, r
    <2>6. OfKind(h, Lasting) = h
      BY <2>4, <2>5, OfKindAll
    <2> DEFINE w == OfKind(r, Lasting)
    <2>7. OfKind(Cat(h, r), Lasting) = Cat(OfKind(h, Lasting), w)
      BY ONLY <1>15, <2>4
    <2>8. w \in Seq(EntryType)
      BY ONLY <1>18, <2>4
    <2> HIDE DEF w
    <2>9. K = h \o w
      <3>1. kept = Cat(h, r)
        BY ONLY <2>4 DEF Cat
      <3>2. K = Cat(h, w)
        BY ONLY <1>20, <2>6, <2>7, <3>1
      <3> QED
        BY ONLY <3>2 DEF Cat
    <2>10. \A a, b \in Seq(EntryType) : a \o b = <<>> => a = <<>>
      BY EmptyConcat
    <2> QED
      BY ONLY <2>1, <2>4, <2>8, <2>9, <2>10
  <1> QED
    <2>1. m.kind = "summary" /\ m \in EntryType
      BY <1>10 DEF m
    <2>2. OfKind(Context(s), Lasting) = <<m>> \o x
      BY <1>22 DEF f
    <2>3. OfKind(s, Lasting) = OfKind(SubSeq(s, 1, k - 1), Lasting) \o x
      BY <1>23 DEF B, before
    <2> HIDE DEF x
    <2> QED
      BY <1>4, <1>8, <1>20, <1>24, <2>1, <2>2, <2>3

\* A session that is open has an open context.
LEMMA OpenContext ==
    ASSUME NEW s \in Seq(EntryType), WellKept(s), Open(s)
    PROVE  Open(Context(s))
  <1>1. CASE Compactions(s) = {}
    BY <1>1, ContextIs
  <1>2. CASE Compactions(s) # {}
    <2>1. PICK k \in 1..Len(s), x \in Seq(EntryType), m \in EntryType :
              /\ m.kind = "summary"
              /\ OfKind(Context(s), Lasting) = <<m>> \o x
              /\ OfKind(s, Lasting) = OfKind(SubSeq(s, 1, k - 1), Lasting) \o x
      BY <1>2, LastingParts
    <2> DEFINE f == <<m>>
               b == OfKind(SubSeq(s, 1, k - 1), Lasting)
    <2>2. f \in Seq(EntryType) /\ LastKind(f) = "summary" /\ f # <<>>
      BY <2>1 DEF LastKind
    <2>3. b \in Seq(EntryType)
      <3>1. SubSeq(s, 1, k - 1) \in Seq(EntryType)
        <4>1. 1 \in Nat \ {0} /\ k - 1 \in Int /\ k - 1 <= Len(s)
          BY LenProperties
        <4> QED
          BY <4>1, PartTyped
      <3> QED
        BY <3>1, OfKindType
    <2>4. OfKind(Context(s), Lasting) = f \o x /\ OfKind(s, Lasting) = b \o x
      BY <2>1
    <2> HIDE DEF f, b
    <2>5. CASE x = <<>>
      <3>1. f \o x = f
        BY <2>2, <2>5, LastOfConcat
      <3> QED
        BY <2>2, <2>4, <3>1, LastingKinds DEF Open
    <2>6. CASE x # <<>>
      <3>1. LastKind(f \o x) = LastKind(x) /\ LastKind(b \o x) = LastKind(x)
        BY <2>2, <2>3, <2>6, LastOfConcat
      <3> QED
        BY <2>4, <3>1 DEF Open
    <2> QED
      BY <2>5, <2>6
  <1> QED
    BY <1>1, <1>2

\* A reply that does not last is saved in a session that is open.
BadAfterOpen(s) == \A i \in DOMAIN s : s[i].kind \in Bad => Open(SubSeq(s, 1, i))

\* A session with an open context is open.
LEMMA OpenSession ==
    ASSUME NEW s \in Seq(EntryType), WellKept(s), BadAfterOpen(s), Open(Context(s))
    PROVE  Open(s)
  <1>1. CASE Compactions(s) = {}
    BY <1>1, ContextIs
  <1>2. CASE Compactions(s) # {}
    <2>1. PICK k \in 1..Len(s), x \in Seq(EntryType), m \in EntryType :
              /\ m.kind = "summary"
              /\ OfKind(Context(s), Lasting) = <<m>> \o x
              /\ OfKind(s, Lasting) = OfKind(SubSeq(s, 1, k - 1), Lasting) \o x
              /\ x = <<>> => s[k].kind \in Bad
      BY <1>2, LastingParts
    <2> DEFINE f == <<m>>
               before == SubSeq(s, 1, k - 1)
               b == OfKind(before, Lasting)
    <2>0. Len(s) \in Nat /\ DOMAIN s = 1..Len(s)
      BY LenProperties
    <2>2. f \in Seq(EntryType)
      BY <2>1
    <2>3. before \in Seq(EntryType)
      <3>1. 1 \in Nat \ {0} /\ k - 1 \in Int /\ k - 1 <= Len(s)
        BY <2>0
      <3> QED
        BY <3>1, PartTyped
    <2>4. b \in Seq(EntryType)
      BY <2>3, OfKindType
    <2>5. OfKind(Context(s), Lasting) = f \o x /\ OfKind(s, Lasting) = b \o x
      BY <2>1
    <2>6. CASE x = <<>>
      <3>1. Open(SubSeq(s, 1, k)) /\ s[k].kind \notin Lasting /\ s[k] \in EntryType
        BY <2>0, <2>1, <2>6, LastingKinds, ElementOfSeq DEF BadAfterOpen
      <3>2. SubSeq(s, 1, k) = before \o <<s[k]>>
        <4>1. 1 \in 1..Len(s) /\ k \in 1..Len(s)
          BY <2>0
        <4> QED
          BY <4>1, SubSeqRecursiveSecond
      <3>3. SubSeq(s, 1, k) = Append(before, s[k])
        <4> HIDE DEF before
        <4>1. before \o <<s[k]>> = Append(before, s[k])
          BY <2>3, <3>1, LastKindAppend
        <4> QED
          BY <3>2, <4>1
      <3> HIDE DEF before
      <3>4. OfKind(Append(before, s[k]), Lasting) = b \o <<>>
        BY <2>3, <3>1, OfKindAppend
      <3> HIDE DEF b
      <3>5. Open(s) <=> LastKind(b \o x) \notin Replies
        BY <2>5 DEF Open
      <3> QED
        BY <2>6, <3>1, <3>3, <3>4, <3>5 DEF Open
    <2>7. CASE x # <<>>
      <3> HIDE DEF f, b, before
      <3>1. LastKind(f \o x) = LastKind(x) /\ LastKind(b \o x) = LastKind(x)
        BY <2>2, <2>4, <2>7, LastOfConcat
      <3> QED
        BY <2>5, <3>1 DEF Open
    <2> QED
      BY <2>6, <2>7
  <1> QED
    BY <1>1, <1>2

\* Appending messages of which none is a reply that does not last.
LEMMA BadAfterOpenGrows ==
    ASSUME NEW R, NEW s \in Seq(R), NEW t \in Seq(R), BadAfterOpen(s),
           \A i \in DOMAIN t : t[i].kind \in Bad => Len(t) = 1 /\ Open(s \o t)
    PROVE  BadAfterOpen(s \o t)
  <1> DEFINE u == s \o t
  <1>1. /\ u \in Seq(R) /\ Len(u) = Len(s) + Len(t) /\ DOMAIN u = 1..(Len(s) + Len(t))
        /\ Len(s) \in Nat /\ Len(t) \in Nat
        /\ DOMAIN s = 1..Len(s) /\ DOMAIN t = 1..Len(t)
        /\ \A i \in 1..Len(s) : u[i] = s[i]
        /\ \A i \in 1..(Len(s) + Len(t)) :
               i > Len(s) => i - Len(s) \in 1..Len(t) /\ u[i] = t[i - Len(s)]
    BY ConcatParts
  <1>2. ASSUME NEW i \in DOMAIN u, u[i].kind \in Bad
        PROVE  Open(SubSeq(u, 1, i))
    <2>1. CASE i <= Len(s)
      <3>1. SubSeq(u, 1, i) = SubSeq(s, 1, i)
        <4>1. 1 \in Nat \ {0} /\ i \in Int
          BY <1>1, <1>2
        <4> QED
          BY <2>1, <4>1, PartOfFirst
      <3> HIDE DEF u
      <3>2. i \in DOMAIN s /\ s[i].kind \in Bad
        BY <1>1, <1>2, <2>1
      <3> QED
        BY <3>1, <3>2 DEF BadAfterOpen
    <2>2. CASE i > Len(s)
      <3> HIDE DEF u
      <3>1. i - Len(s) \in DOMAIN t /\ t[i - Len(s)].kind \in Bad
        BY <1>1, <1>2, <2>2
      <3>2. Len(t) = 1 /\ Open(u)
        BY <3>1 DEF u
      <3>3. i = Len(u)
        BY <1>1, <1>2, <2>2, <3>2
      <3>4. SubSeq(u, 1, Len(u)) = u
        BY <1>1, SubSeqFull
      <3> QED
        BY <3>2, <3>3, <3>4
    <2> QED
      BY <1>1, <1>2, <2>1, <2>2
  <1> QED
    BY <1>2 DEF BadAfterOpen

\* The compactions that were made keep what they kept.
LEMMA WellKeptGrows ==
    ASSUME NEW s \in Seq(EntryType), NEW t \in Seq(EntryType), WellKept(s),
           \A i \in DOMAIN t : t[i].kind = "compaction" =>
               t[i].keep \in 1..Len(s) /\ s[t[i].keep].kind \in Kinds
    PROVE  WellKept(s \o t)
  <1> DEFINE u == s \o t
  <1>1. /\ u \in Seq(EntryType) /\ DOMAIN u = 1..(Len(s) + Len(t))
        /\ Len(s) \in Nat /\ Len(t) \in Nat
        /\ DOMAIN s = 1..Len(s) /\ DOMAIN t = 1..Len(t)
        /\ \A i \in 1..Len(s) : u[i] = s[i]
        /\ \A i \in 1..(Len(s) + Len(t)) :
               i > Len(s) => i - Len(s) \in 1..Len(t) /\ u[i] = t[i - Len(s)]
    BY ConcatParts
  <1> HIDE DEF u
  <1>2. ASSUME NEW c \in DOMAIN u, u[c].kind = "compaction"
        PROVE  u[c].keep < c /\ u[u[c].keep].kind \in Kinds
    <2>1. CASE c <= Len(s)
      <3>1. c \in Compactions(s) /\ u[c] = s[c]
        BY <1>1, <1>2, <2>1 DEF Compactions, IndicesOf
      <3>2. s[c].keep < c /\ s[s[c].keep].kind \in Kinds
        BY <3>1 DEF WellKept
      <3>3. s[c].keep \in Nat \ {0}
        <4>1. s[c] \in EntryType /\ s[c].kind = "compaction"
          BY <1>1, <1>2, <2>1, ElementOfSeq
        <4> QED
          BY <4>1 DEF EntryType, MessageType, Kinds, Replies
      <3>4. s[c].keep \in 1..Len(s)
        BY <1>1, <2>1, <3>2, <3>3
      <3> QED
        BY <1>1, <3>1, <3>2, <3>4
    <2>2. CASE c > Len(s)
      <3>1. c - Len(s) \in DOMAIN t /\ u[c] = t[c - Len(s)]
        BY <1>1, <1>2, <2>2
      <3>2. u[c].keep \in 1..Len(s) /\ s[u[c].keep].kind \in Kinds
        BY <1>2, <3>1
      <3> QED
        BY <1>1, <2>2, <3>2
    <2> QED
      BY <1>1, <1>2, <2>1, <2>2
  <1> QED
    BY <1>2 DEF WellKept, Compactions, IndicesOf, u

\* What is in the transcript but for replies that do not last is what the context
\* of the session has.
Agrees(t, s) == OfKind(t, Lasting) = OfKind(Context(s), Lasting)

\* Transcript and session grow by the same messages.
LEMMA AgreesGrows ==
    ASSUME NEW s \in Seq(EntryType), NEW t \in Seq(MessageType), NEW u \in Seq(MessageType),
           Agrees(t, s)
    PROVE  Agrees(t \o u, s \o u)
  <1> DEFINE c == Context(s)
  <1>1. Context(s \o u) = c \o u
    BY ContextGrows
  <1>2. c \in Seq(MessageType)
    BY ContextType
  <1> HIDE DEF c
  <1>3. OfKind(t \o u, Lasting) = OfKind(t, Lasting) \o OfKind(u, Lasting)
    BY OfKindConcat
  <1>4. OfKind(c \o u, Lasting) = OfKind(c, Lasting) \o OfKind(u, Lasting)
    <2>1. OfKind(Cat(c, u), Lasting) = Cat(OfKind(c, Lasting), OfKind(u, Lasting))
      BY <1>2, OfKindOfCat
    <2> QED
      BY ONLY <2>1 DEF Cat
  <1>5. OfKind(t, Lasting) = OfKind(c, Lasting)
    BY DEF Agrees, c
  <1> QED
    BY <1>1, <1>3, <1>4, <1>5 DEF Agrees

\* A reply that does not last is taken out of the transcript.
LEMMA AgreesDropped ==
    ASSUME NEW s, NEW t \in Seq(MessageType), t # <<>>, LastKind(t) \in Bad, Agrees(t, s)
    PROVE  Agrees(Front(t), s)
  <1>1. t[Len(t)].kind \notin Lasting
    BY LastingKinds DEF LastKind
  <1>2. OfKind(Front(t), Lasting) = OfKind(t, Lasting)
    BY <1>1, OfKindFront
  <1> QED
    BY <1>2 DEF Agrees

\* When the transcript agrees with an open session, its last reply does not last.
LEMMA OpenDrop ==
    ASSUME NEW s \in Seq(EntryType), NEW t \in Seq(MessageType), Agrees(t, s),
           WellKept(s), Open(s), LastKind(t) \in Replies
    PROVE  LastKind(t) \in Bad
  <1>1. SUFFICES ASSUME LastKind(t) \in Lasting
                 PROVE  FALSE
    BY LastingKinds
  <1>2. t # <<>>
    BY LastingKinds DEF LastKind
  <1>3. LastKind(OfKind(t, Lasting)) = LastKind(t)
    BY <1>1, <1>2, LastOfKind
  <1>4. Open(Context(s))
    BY OpenContext
  <1> QED
    BY <1>3, <1>4 DEF Open, Agrees

\* A transcript that a request can follow agrees with an open session.
LEMMA OpenFollows ==
    ASSUME NEW s \in Seq(EntryType), NEW t \in Seq(MessageType), Agrees(t, s),
           WellKept(s), BadAfterOpen(s), t # <<>>, LastKind(t) \notin Replies
    PROVE  Open(s)
  <1>1. LastKind(t) \in Lasting
    <2>1. t[Len(t)] \in MessageType
      BY FrontProperties
    <2> QED
      BY <2>1, LastingKinds DEF LastKind, MessageType
  <1>2. LastKind(OfKind(t, Lasting)) = LastKind(t)
    BY <1>1, LastOfKind
  <1>3. Open(Context(s))
    BY <1>2 DEF Open, Agrees
  <1> QED
    BY <1>3, OpenSession

-----------------------------------------------------------------------------
\* What a step keeps of the cuts that were decided on.

KeepsFrom == \A q \in Prompters : prompts'[q].keep \in {0, prompts[q].keep} \union Cuts

LEMMA SetKeeps ==
    ASSUME Typed, NEW p \in Prompters, NEW call, call.keep \in {0, prompts[p].keep} \union Cuts,
           prompts' = [prompts EXCEPT ![p] = call]
    PROVE  KeepsFrom
  <1>1. prompts'[p] = call /\ \A q \in Prompters \ {p} : prompts'[q] = prompts[q]
    BY DEF Typed, ContentsTyped
  <1> HIDE DEF Cuts
  <1> QED
    BY <1>1 DEF KeepsFrom

LEMMA CallKeeps ==
    ASSUME Typed, NEW p \in Prompters
    PROVE  /\ TakeMessages(p) => KeepsFrom
           /\ \A transcript : Return(p, transcript) => KeepsFrom
           /\ \A transcript : Reject(p, transcript) => KeepsFrom
           /\ \A first, poll : StartRun(p, first, poll) => KeepsFrom
           /\ UNCHANGED prompts => KeepsFrom
  <1>1. Idle.keep = 0
    BY DEF Idle
  <1>2. prompts' = [prompts EXCEPT ![p] = Idle] => KeepsFrom
    BY <1>1, SetKeeps
  <1>3. TakeMessages(p) => KeepsFrom
    <2> SUFFICES ASSUME TakeMessages(p)
                 PROVE  KeepsFrom
      OBVIOUS
    <2> DEFINE call == [Idle EXCEPT !.at = "hook",
                                    !.hands = <<prompts[p].message>> \o pendingNextTurnMessages]
    <2>1. call.keep = 0 /\ prompts' = [prompts EXCEPT ![p] = call]
      BY DEF TakeMessages, Idle
    <2> HIDE DEF call
    <2> QED
      BY <2>1, SetKeeps
  <1>4. ASSUME NEW transcript, Return(p, transcript)
        PROVE  KeepsFrom
    BY <1>2, <1>3, <1>4 DEF Return
  <1>5. ASSUME NEW transcript, Reject(p, transcript)
        PROVE  KeepsFrom
    BY <1>2, <1>5 DEF Reject
  <1>6. ASSUME NEW first, NEW poll, StartRun(p, first, poll)
        PROVE  KeepsFrom
    <2> DEFINE call == [Idle EXCEPT !.at = "run", !.message = prompts[p].message,
                            !.pre = IF prompts[p].pre = "check" THEN "loop" ELSE prompts[p].pre]
    <2>1. call.keep = 0 /\ prompts' = [prompts EXCEPT ![p] = call]
      BY <1>6 DEF StartRun, Idle
    <2> HIDE DEF call
    <2> QED
      BY <2>1, SetKeeps
  <1> QED
    BY <1>3, <1>4, <1>5, <1>6 DEF KeepsFrom

LEMMA ContinueKeeps ==
    ASSUME Typed, NEW p \in Prompters, NEW transcript, Continue(p, transcript)
    PROVE  KeepsFrom
  BY CallKeeps, ContinueCases DEF Typed, Refused, ContinuedWithNothing, ContinuedWithSteering,
     ContinuedWithFollowUp

LEMMA StartSummaryKeeps ==
    ASSUME Typed, NEW p \in Prompters, NEW retry, StartSummary(p, retry)
    PROVE  KeepsFrom
  <1>1. PICK keep \in Cuts :
            prompts' = [prompts EXCEPT ![p].at = "compact", ![p].retry = retry,
                                       ![p].keep = keep, ![p].last = NoMessage]
    BY DEF StartSummary
  <1> HIDE DEF Cuts
  <1>2. prompts[p] \in CallType
    BY Carried DEF Typed
  <1>3. prompts'[p].keep = keep /\ \A q \in Prompters \ {p} : prompts'[q] = prompts[q]
    BY <1>1, <1>2 DEF Typed, ContentsTyped, CallType
  <1> QED
    BY <1>3 DEF KeepsFrom

LEMMA CheckKeeps ==
    ASSUME Typed, NEW p \in Prompters, NEW m, NEW skipAborted,
           CheckCompaction(p, m, skipAborted)
    PROVE  KeepsFrom
  BY CallKeeps, StartSummaryKeeps DEF CheckCompaction

LEMMA PausedKeeps ==
    ASSUME Typed, NEW p \in Prompters, NEW m, Paused(p, m)
    PROVE  KeepsFrom
  <1> DEFINE call == [prompts[p] EXCEPT !.at = "retry", !.last = m]
  <1>1. prompts[p] \in CallType
    BY Carried DEF Typed
  <1>2. prompts' = [prompts EXCEPT ![p] = call] /\ call.keep = prompts[p].keep
    BY <1>1 DEF Paused, Typed, ContentsTyped, CallType
  <1> HIDE DEF call
  <1> QED
    BY <1>2, SetKeeps

LEMMA AbortKeeps ==
    ASSUME Typed, AbortRetry
    PROVE  KeepsFrom
  <1>1. ASSUME NEW q \in Prompters
        PROVE  prompts'[q].keep = prompts[q].keep
    <2>1. prompts[q] \in CallType
      BY Carried DEF Typed
    <2> QED
      BY <2>1 DEF AbortRetry, CallType
  <1> QED
    BY <1>1 DEF KeepsFrom

LEMMA PromptStepKeeps ==
    ASSUME Typed, NEW p \in Prompters, PromptStep(p)
    PROVE  KeepsFrom
  <1>1. CASE Preflight(p) \/ PauseAborted(p) \/ SummaryFails(p)
    BY <1>1, CallKeeps, CheckKeeps DEF Preflight, PauseAborted, SummaryFails
  <1>2. CASE Submit(p)
    BY <1>2, CallKeeps DEF Submit
  <1>3. CASE PauseEnds(p)
    BY <1>3, ContinueKeeps DEF PauseEnds
  <1>4. CASE Summarized(p)
    <2> DEFINE call == [prompts[p] EXCEPT !.at = "compacted", !.keep = 0]
    <2>1. prompts[p] \in CallType
      BY Carried DEF Typed
    <2>2. prompts' = [prompts EXCEPT ![p] = call] /\ call.keep = 0
      BY <1>4, <2>1 DEF Summarized, Typed, ContentsTyped, CallType
    <2> HIDE DEF call
    <2> QED
      BY <2>2, SetKeeps
  <1>5. CASE Resume(p)
    BY <1>5, CallKeeps, ContinueKeeps DEF Resume
  <1> QED
    BY <1>1, <1>2, <1>3, <1>4, <1>5 DEF PromptStep

LEMMA StepKeeps ==
    ASSUME Typed, [Next]_vars
    PROVE  KeepsFrom
  <1>1. UNCHANGED prompts => KeepsFrom
    BY DEF KeepsFrom
  <1>2. CASE RunStep
    <2>1. CASE FinishRun
      <3>1. PICK p \in Prompters : AfterRun(p)
        BY <2>1 DEF FinishRun
      <3> QED
        BY <3>1, CallKeeps, CheckKeeps, PausedKeeps DEF AfterRun, Paused
    <2> QED
      BY <1>1, <1>2, <2>1 DEF RunStep, Inject, ToolsEnd, Reply
  <1>3. ASSUME NEW p \in Prompters, PromptStep(p)
        PROVE  KeepsFrom
    BY <1>3, PromptStepKeeps
  <1>4. CASE CompactStep
    BY <1>1, <1>4 DEF CompactStep, CompactReads, CompactSaves, CompactEnds
  <1>5. CASE ClientStep
    <2>1. ASSUME NEW p \in Prompters, Prompt(p)
          PROVE  KeepsFrom
      <3> DEFINE shown == messages \o pendingBashMessages
                 lastOf == IF Holds(shown, Replies) THEN shown[Max(IndicesOf(shown, Replies))]
                           ELSE NoMessage
                 call == [Idle EXCEPT !.at = "checks", !.pre = "check",
                                      !.message = Message("user"), !.last = lastOf]
      <3>1. prompts' = [prompts EXCEPT ![p] = call]
        BY <2>1 DEF Prompt
      <3> HIDE DEF lastOf
      <3>2. call.keep = 0
        BY DEF Idle
      <3> HIDE DEF call
      <3> QED
        BY <3>1, <3>2, SetKeeps
    <2>2. CASE Compact \/ Abort
      BY <2>2, AbortKeeps DEF Compact, Abort, AbortRun
    <2> QED
      BY <1>1, <1>5, <2>1, <2>2 DEF ClientStep, Steer, FollowUp, QueueCustom, NextTurn, ClearQueue, RecordBash
  <1>6. CASE UNCHANGED vars
    BY <1>1, <1>6 DEF vars
  <1> QED
    BY <1>2, <1>3, <1>4, <1>5, <1>6 DEF Next, InternalStep

-----------------------------------------------------------------------------
\* A session without compact() stays sound: its compactions keep from a message,
\* and a reply that does not last is saved after something that is no reply.

Sound == WellKept(session) /\ BadAfterOpen(session)
CutsKept ==
    \A p \in Prompters : prompts[p].keep # 0 =>
        prompts[p].keep \in 1..Len(session) /\ session[prompts[p].keep].kind \in Kinds

\* Entries that are no replies, and keep from a message.
QuietEntries ==
    {e \in EntryType :
        /\ e.kind \notin Replies
        /\ e.kind = "compaction" =>
               e.keep \in 1..Len(session) /\ session[e.keep].kind \in Kinds}
Quietly == \E t \in Seq(QuietEntries) : session' = session \o t

LEMMA QuietMessages ==
    ASSUME NEW n, NEW kinds, kinds \intersect Replies = {}
    PROVE  Seq(MessagesOf(kinds, n)) \subseteq Seq(QuietEntries)
  <1>1. MessagesOf(kinds, n) \subseteq QuietEntries
    <2> SUFFICES ASSUME NEW m \in MessagesOf(kinds, n)
                 PROVE  m \in QuietEntries
      OBVIOUS
    <2>1. m \in MessageType /\ m.kind \in kinds
      BY DEF MessagesOf
    <2>2. m.kind \notin Replies
      BY <2>1
    <2>3. m.kind # "compaction"
      BY <2>1, LastingKinds DEF MessageType
    <2>4. m \in EntryType
      BY <2>1 DEF EntryType
    <2> QED
      BY <2>2, <2>3, <2>4 DEF QuietEntries
  <1> QED
    BY <1>1, SeqMonotonic

LEMMA QuietlyKeeps ==
    ASSUME session \in Seq(EntryType), Quietly
    PROVE  /\ Open(session) => Open(session')
           /\ Sound => Sound'
           /\ Len(session) <= Len(session') /\ Len(session') \in Nat /\ Len(session) \in Nat
           /\ \A i \in 1..Len(session) : session'[i] = session[i]
  <1>1. PICK t \in Seq(QuietEntries) : session' = session \o t
    BY DEF Quietly
  <1> DEFINE Q == QuietEntries
  <1>2. Q \in SUBSET EntryType /\ Quiet(Q) /\ t \in Seq(Q)
    BY DEF QuietEntries, Quiet
  <1>3. t \in Seq(EntryType)
    BY <1>2, SeqMonotonic
  <1>4. \A i \in DOMAIN t : t[i] \in QuietEntries
    BY LenProperties, ElementOfSeq
  <1>5. \A i \in DOMAIN t : t[i].kind \notin Replies
    BY <1>4 DEF QuietEntries
  <1>6. \A i \in DOMAIN t : t[i].kind = "compaction" =>
            t[i].keep \in 1..Len(session) /\ session[t[i].keep].kind \in Kinds
    BY <1>4 DEF QuietEntries
  <1> HIDE DEF Q
  <1>7. Open(session) => Open(session \o t)
    BY <1>2, OpenGrows
  <1>8. WellKept(session) => WellKept(session \o t)
    BY <1>3, <1>6, WellKeptGrows
  <1>9. BadAfterOpen(session) => BadAfterOpen(session \o t)
    <2>1. \A i \in DOMAIN t : t[i].kind \notin Bad
      BY <1>5, LastingKinds
    <2> QED
      BY <1>3, <2>1, BadAfterOpenGrows
  <1>10. /\ Len(session \o t) = Len(session) + Len(t)
         /\ Len(session) \in Nat /\ Len(t) \in Nat
         /\ \A i \in 1..Len(session) : (session \o t)[i] = session[i]
    BY <1>3, ConcatParts
  <1> QED
    BY <1>1, <1>7, <1>8, <1>9, <1>10 DEF Sound

LEMMA QuietSteps ==
    ASSUME Kinded, [Next]_vars, made["compact"] = 0, ~Compact, CutsKept,
           ~\E kind \in Replies : Reply(kind)
    PROVE  Quietly
  <1>0. /\ session \in Seq(EntryType) /\ events \in Nat /\ PendingOf(events) /\ HandsOf(events)
        /\ connected /\ manual.at = "idle"
        /\ Client \intersect Replies = {} /\ {"bash"} \intersect Replies = {}
        /\ {"result"} \intersect Replies = {}
    BY ListensWithoutCompact, LastingKinds
       DEF Kinded, KindedUpto, Controlled, Typed, RestTyped, ContentsTyped
  <1>1. Rests => Quietly
    <2>1. session \o <<>> = session /\ <<>> \in Seq(QuietEntries)
      BY <1>0, ConcatEmptySeq
    <2> QED
      BY <2>1 DEF Rests, Quietly
  <1>2. Flushes => Quietly
    <2>1. pendingBashMessages \in Seq(QuietEntries)
      BY <1>0, QuietMessages DEF PendingOf
    <2> QED
      BY <2>1 DEF Flushes, Quietly
  <1>3. CASE RunStep
    <2>1. CASE Inject
      <3>1. hands \in Seq(QuietEntries)
        BY <1>0, <2>1, QuietMessages DEF HandsOf, Inject
      <3> QED
        BY <1>0, <2>1, <3>1 DEF Inject, Emit, Quietly
    <2>2. CASE ToolsEnd
      <3>1. PICK m \in MessagesOf({"result"}, events) : hands = <<m>>
        BY <1>0, <2>2 DEF HandsOf, ToolsEnd
      <3>2. hands \in Seq(MessagesOf({"result"}, events))
        BY <3>1
      <3>3. hands \in Seq(QuietEntries)
        BY <1>0, <3>2, QuietMessages
      <3> QED
        BY <1>0, <2>2, <3>3 DEF ToolsEnd, Emit, Quietly
    <2>3. CASE FinishRun
      BY <1>1, <1>2, <2>3, FinishRunRests
    <2> QED
      BY <1>3, <2>1, <2>2, <2>3 DEF RunStep
  <1>4. ASSUME NEW p \in Prompters, PromptStep(p)
        PROVE  Quietly
    <2>1. CASE Summarized(p)
      <3> DEFINE e == Compaction(prompts[p].keep)
      <3>1. prompts[p].keep # 0 /\ session' = Append(session, e)
        BY <2>1 DEF Summarized, Compacted
      <3>2. prompts[p].keep \in 1..Len(session) /\ session[prompts[p].keep].kind \in Kinds
        BY <3>1 DEF CutsKept
      <3>3. prompts[p].keep \in Nat \ {0}
        BY <3>1, Carried DEF Kinded, Controlled, Typed, CallType
      <3>4. e \in QuietEntries
        BY <1>0, <3>2, <3>3 DEF Compaction, QuietEntries, EntryType, Replies
      <3>5. e \in EntryType
        BY <3>4 DEF QuietEntries
      <3> HIDE DEF e
      <3>6. Append(session, e) = session \o <<e>> /\ <<e>> \in Seq(QuietEntries)
        BY <1>0, <3>4, <3>5, LastKindAppend
      <3> QED
        BY <3>1, <3>6 DEF Quietly
    <2>2. CASE Preflight(p) \/ PauseAborted(p) \/ SummaryFails(p)
      BY <1>1, <1>2, <2>2, CallRests, CheckRests DEF Preflight, PauseAborted, SummaryFails
    <2>3. CASE Submit(p)
      BY <1>1, <1>2, <2>3, CallRests DEF Submit, Rests
    <2>4. CASE PauseEnds(p)
      BY <1>1, <1>2, <2>4, CallRests DEF PauseEnds
    <2>5. CASE Resume(p)
      BY <1>1, <1>2, <2>5, CallRests DEF Resume
    <2> QED
      BY <1>4, <2>1, <2>2, <2>3, <2>4, <2>5 DEF PromptStep
  <1>5. CASE CompactStep
    BY <1>0, <1>5 DEF CompactStep, CompactReads, CompactSaves, CompactEnds
  <1>6. CASE ClientStep
    <2>1. CASE RecordBash
      <3>1. CASE Rests
        BY <1>1, <3>1
      <3>2. CASE session' = Append(session, Message("bash"))
        <4> DEFINE m == Message("bash")
        <4>1. m \in MessagesOf({"bash"}, events + 1) /\ m \in EntryType
          BY <1>0, NewMessageKinds, LastingKinds DEF Kinds, EntriesOf
        <4> HIDE DEF m
        <4>2. <<m>> \in Seq(MessagesOf({"bash"}, events + 1))
          BY <4>1
        <4>3. <<m>> \in Seq(QuietEntries)
          BY <1>0, <4>2, QuietMessages
        <4>4. Append(session, m) = session \o <<m>>
          BY <1>0, <4>1, LastKindAppend
        <4> QED
          BY <3>2, <4>3, <4>4 DEF Quietly, m
      <3>3. CASE session' = session
        <4>1. session \o <<>> = session /\ <<>> \in Seq(QuietEntries)
          BY <1>0, ConcatEmptySeq
        <4> QED
          BY <3>3, <4>1 DEF Quietly
      <3> QED
        BY <2>1, <3>2, <3>3 DEF RecordBash
    <2> QED
      BY <1>1, <1>2, <1>6, <2>1, ClientStepRests
  <1>7. CASE UNCHANGED vars
    BY <1>1, <1>7 DEF vars, bashVars, Rests
  <1> QED
    BY <1>3, <1>4, <1>5, <1>6, <1>7 DEF Next, InternalStep

\* A cut keeps from a message of the session.
LEMMA CutsAreMessages ==
    ASSUME session \in Seq(EntryType), NEW keep \in Cuts, keep # 0
    PROVE  keep \in 1..Len(session) /\ session[keep].kind \in Kinds
  <1>1. keep \in CutPoints(session)
    BY CutsType
  <1>2. keep \in DOMAIN session /\ session[keep].kind # "compaction"
    BY <1>1 DEF CutPoints
  <1>3. keep \in 1..Len(session)
    BY <1>2, LenProperties
  <1>4. session[keep] \in EntryType
    BY <1>3, ElementOfSeq
  <1>5. session[keep].kind \in Kinds
    BY <1>2, <1>4 DEF EntryType, MessageType
  <1> QED
    BY <1>3, <1>5

-----------------------------------------------------------------------------
\* Where a session without compact() is open.

OpenAt ==
    /\ at = "reply" \/ (at = "inject" /\ hands = <<>>) => Open(session)
    /\ at = "end" /\ lastAssistantMessage.kind \in Bad => Open(session)
OpenInv == made["compact"] = 0 => Sound /\ CutsKept /\ OpenAt

Trusted == ~missed /\ (made["compact"] = 0 \/ ~overlapped)
AgreeInv == Trusted => Agrees(messages, session)

\* A reply is saved in an open session.
LEMMA ReplyGrows ==
    ASSUME Kinded, made["compact"] = 0, NEW kind \in Replies, Reply(kind), Open(session)
    PROVE  /\ kind \in Bad => Open(session')
           /\ Sound => Sound'
           /\ Len(session) <= Len(session') /\ Len(session') \in Nat /\ Len(session) \in Nat
           /\ \A i \in 1..Len(session) : session'[i] = session[i]
  <1> DEFINE m == Message(kind)
             t == <<m>>
  <1>0. connected /\ session \in Seq(EntryType) /\ events \in Nat
    BY ListensWithoutCompact DEF Kinded, Controlled, Typed, RestTyped, ContentsTyped
  <1>1. m \in EntryType /\ m.kind = kind
    BY <1>0, LastingKinds DEF Message, EntryType, MessageType
  <1>2. session' = session \o <<m>>
    BY <1>0 DEF Reply, Emit
  <1> HIDE DEF m
  <1>3. /\ t \in Seq(EntryType) /\ t \in Seq({m}) /\ DOMAIN t = {1} /\ t[1] = m /\ Len(t) = 1
        /\ session' = session \o t
    BY <1>1, <1>2
  <1> HIDE DEF t
  <1>4. ASSUME kind \in Bad
        PROVE  Open(session \o t)
    <2>1. {m} \in SUBSET EntryType /\ Quiet({m})
      BY <1>1, <1>4 DEF Quiet
    <2> QED
      BY <1>0, <1>3, <2>1, OpenGrows
  <1>5. WellKept(session) => WellKept(session \o t)
    <2>1. \A i \in DOMAIN t : t[i].kind # "compaction"
      BY <1>1, <1>3, LastingKinds
    <2> QED
      BY <1>0, <1>3, <2>1, WellKeptGrows
  <1>6. BadAfterOpen(session) => BadAfterOpen(session \o t)
    <2>1. \A i \in DOMAIN t : t[i].kind \in Bad => Len(t) = 1 /\ Open(session \o t)
      BY <1>1, <1>3, <1>4
    <2> QED
      BY <1>0, <1>3, <2>1, BadAfterOpenGrows
  <1>7. /\ Len(session \o t) = Len(session) + Len(t)
        /\ Len(session) \in Nat /\ Len(t) \in Nat
        /\ \A i \in 1..Len(session) : (session \o t)[i] = session[i]
    <2>1. session \in Seq(EntryType) /\ t \in Seq(EntryType)
      BY <1>0, <1>3
    <2> QED
      BY ONLY <2>1, ConcatParts
  <1> QED
    BY <1>3, <1>4, <1>5, <1>6, <1>7 DEF Sound

\* A step keeps the session sound, and open unless a reply is saved.
LEMMA SoundKept ==
    ASSUME Kinded, [Next]_vars, made["compact"] = 0, ~Compact, Sound, CutsKept, OpenAt
    PROVE  /\ Sound' /\ CutsKept'
           /\ (~\E kind \in Replies : Reply(kind)) /\ Open(session) => Open(session')
  <1>0. session \in Seq(EntryType) /\ Typed
    BY DEF Kinded, Controlled, Typed, ContentsTyped
  <1>1. /\ Sound'
        /\ Len(session) <= Len(session') /\ Len(session') \in Nat /\ Len(session) \in Nat
        /\ \A i \in 1..Len(session) : session'[i] = session[i]
        /\ (~\E kind \in Replies : Reply(kind)) /\ Open(session) => Open(session')
    <2>1. ASSUME NEW kind \in Replies, Reply(kind)
          PROVE  /\ Sound'
                 /\ Len(session) <= Len(session') /\ Len(session') \in Nat /\ Len(session) \in Nat
                 /\ \A i \in 1..Len(session) : session'[i] = session[i]
      <3>1. Open(session)
        BY <2>1 DEF Reply, OpenAt
      <3> QED
        BY <2>1, <3>1, ReplyGrows
    <2>2. CASE ~\E kind \in Replies : Reply(kind)
      <3>1. Quietly
        BY <2>2, QuietSteps
      <3> QED
        BY <1>0, <3>1, QuietlyKeeps
    <2> QED
      BY <2>1, <2>2
  <1>2. ASSUME NEW q \in Prompters, prompts'[q].keep # 0
        PROVE  prompts'[q].keep \in 1..Len(session) /\ session[prompts'[q].keep].kind \in Kinds
    <2>1. prompts'[q].keep \in {0, prompts[q].keep} \union Cuts
      BY <1>0, StepKeeps DEF KeepsFrom
    <2>2. CASE prompts'[q].keep \in Cuts
      BY <1>0, <1>2, <2>2, CutsAreMessages
    <2>3. CASE prompts'[q].keep = prompts[q].keep
      BY <1>2, <2>3 DEF CutsKept
    <2> QED
      BY <1>2, <2>1, <2>2, <2>3
  <1>3. CutsKept'
    <2> SUFFICES ASSUME NEW q \in Prompters, prompts'[q].keep # 0
                 PROVE  prompts'[q].keep \in 1..Len(session')
                        /\ session'[prompts'[q].keep].kind \in Kinds
      BY DEF CutsKept
    <2> DEFINE k == prompts'[q].keep
    <2>1. k \in 1..Len(session) /\ session[k].kind \in Kinds
      BY <1>2
    <2> HIDE DEF k
    <2>2. k \in 1..Len(session') /\ session'[k] = session[k]
      BY <1>1, <2>1
    <2> QED
      BY <2>1, <2>2 DEF k
  <1> QED
    BY <1>1, <1>3

\* An error is taken out of the transcript.
LEMMA ErrorDropped ==
    ASSUME messages \in Seq(MessageType), NEW s, Agrees(messages, s)
    PROVE  Agrees(WithoutLastError, s) /\ WithoutLastError \in Seq(MessageType)
  <1>1. CASE LastKind(messages) \in Errors
    <2>1. messages # <<>> /\ LastKind(messages) \in Bad
      BY <1>1 DEF LastKind, Errors, Bad
    <2>2. Agrees(Front(messages), s) /\ Front(messages) \in Seq(MessageType)
      BY <2>1, AgreesDropped, FrontProperties
    <2> QED
      BY <1>1, <2>2 DEF WithoutLastError
  <1>2. CASE LastKind(messages) \notin Errors
    BY <1>2 DEF WithoutLastError
  <1> QED
    BY <1>1, <1>2

\* continue() begins a request only where the session is open.
LEMMA ContinueOpen ==
    ASSUME Kinded, Sound, OpenAt, Open(session) => Open(session'),
           UNCHANGED lastAssistantMessage, NEW p \in Prompters,
           NEW transcript \in Seq(MessageType), Agrees(transcript, session),
           Continue(p, transcript)
    PROVE  OpenAt'
  <1>0. Typed /\ LoopTyped /\ session \in Seq(EntryType)
    BY DEF Kinded, Controlled, Typed, ContentsTyped
  <1>1. CASE Refused(p, transcript)
    BY <1>1 DEF Refused, agentVars, OpenAt
  <1>2. CASE ContinuedWithNothing(p, transcript)
    <2>1. at' = "inject" /\ session' = session /\ transcript # <<>>
          /\ LastKind(transcript) \notin Replies
      BY <1>2 DEF ContinuedWithNothing, Continued, StartRun
    <2>2. Open(session)
      BY <1>0, <2>1, OpenFollows DEF Sound
    <2> QED
      BY <2>1, <2>2 DEF OpenAt
  <1>3. ASSUME NEW q, FirstOf(q) # <<>>, NEW poll, StartRun(p, FirstOf(q), poll)
        PROVE  OpenAt'
    <2>1. at' = "inject" /\ hands' # <<>>
      BY <1>3 DEF StartRun
    <2> QED
      BY <2>1 DEF OpenAt
  <1>4. \A q : q # <<>> => FirstOf(q) # <<>>
    BY DEF FirstOf
  <1>5. CASE ContinuedWithSteering(p, transcript)
    BY <1>3, <1>4, <1>5 DEF ContinuedWithSteering
  <1>6. CASE ContinuedWithFollowUp(p, transcript)
    BY <1>3, <1>4, <1>6 DEF ContinuedWithFollowUp
  <1> QED
    BY <1>0, <1>1, <1>2, <1>5, <1>6, ContinueCases

\* A step leaves the session open where it must be.
LEMMA OpenKept ==
    ASSUME Kinded, [Next]_vars, made["compact"] = 0, ~Compact, Sound, CutsKept, OpenAt, AgreeInv
    PROVE  OpenAt'
  <1>0. /\ connected /\ manual.at = "idle" /\ ~missed
        /\ session \in Seq(EntryType) /\ messages \in Seq(MessageType) /\ ContentsTyped
        /\ HandsOf(events) /\ CallsOf(events) /\ events \in Nat /\ QueuesOf(events)
    BY ListensWithoutCompact DEF Kinded, KindedUpto, Controlled, Typed, ContentsTyped, RestTyped
  <1>1. Agrees(messages, session)
    BY <1>0 DEF AgreeInv, Trusted
  <1>2. ASSUME NEW kind \in Replies, Reply(kind)
        PROVE  OpenAt'
    <2>1. Open(session)
      BY <1>2 DEF Reply, OpenAt
    <2>2. kind \in Bad => Open(session')
      BY <1>2, <2>1, ReplyGrows
    <2>3. lastAssistantMessage'.kind = kind
      BY <1>0, <1>2 DEF Reply, Message
    <2>4. at' \in {"tools", "end"} \/ (at' = "inject" /\ hands' # <<>>)
      <3>1. CASE TurnOver(FALSE)
        BY <3>1 DEF TurnOver
      <3>2. CASE at' \in {"tools", "end"}
        BY <3>2
      <3> QED
        BY <1>2, <3>1, <3>2 DEF Reply
    <2> QED
      BY <2>2, <2>3, <2>4 DEF OpenAt
  <1>3. CASE ~\E kind \in Replies : Reply(kind)
    <2>1. Open(session) => Open(session')
      BY <1>3, SoundKept
    <2>2. ASSUME UNCHANGED <<at, hands, lastAssistantMessage>>
          PROVE  OpenAt'
      BY <2>1, <2>2 DEF OpenAt
    <2>3. ASSUME NEW kinds, NEW t \in Seq(MessagesOf(kinds, events)), t # <<>>,
                 kinds \subseteq Lasting \ Replies, session' = session \o t
          PROVE  Open(session')
      <3> DEFINE Q == MessagesOf(kinds, events)
      <3>1. Q \in SUBSET EntryType /\ \A e \in Q : e.kind \in Lasting \ Replies
        BY <2>3 DEF MessagesOf, EntryType
      <3>2. t \in Seq(Q)
        BY <2>3
      <3> HIDE DEF Q
      <3> QED
        BY <1>0, <2>3, <3>1, <3>2, OpenAfter
    <2>4. CASE RunStep
      <3>1. CASE Inject
        <4>1. at = "inject" /\ session' = session \o hands /\ at' # "end"
              /\ hands \in Seq(MessagesOf(Client, events))
          BY <1>0, <3>1 DEF Inject, Emit, HandsOf
        <4>2. CASE hands = <<>>
          <5>1. Open(session)
            BY <4>1, <4>2 DEF OpenAt
          <5> QED
            BY <2>1, <4>1, <5>1 DEF OpenAt
        <4>3. CASE hands # <<>>
          <5>1. Open(session')
            BY <2>3, <4>1, <4>3, LastingKinds
          <5> QED
            BY <4>1, <5>1 DEF OpenAt
        <4> QED
          BY <4>2, <4>3
      <3>2. CASE ToolsEnd
        <4>1. PICK m \in MessagesOf({"result"}, events) : hands = <<m>>
          BY <1>0, <3>2 DEF HandsOf, ToolsEnd
        <4>2. hands \in Seq(MessagesOf({"result"}, events)) /\ hands # <<>>
          BY <4>1
        <4>3. session' = session \o hands /\ at' # "end"
          BY <1>0, <3>2 DEF ToolsEnd, Emit, TurnOver
        <4>4. Open(session')
          BY <2>3, <4>2, <4>3, LastingKinds
        <4> QED
          BY <4>3, <4>4 DEF OpenAt
      <3>3. CASE FinishRun
        BY <3>3 DEF FinishRun, OpenAt
      <3> QED
        BY <1>3, <2>4, <3>1, <3>2, <3>3 DEF RunStep
    <2>5. ASSUME NEW p \in Prompters, PromptStep(p)
          PROVE  OpenAt'
      <3>1. UNCHANGED lastAssistantMessage
        BY <2>5 DEF PromptStep, Preflight, Submit, PauseEnds, PauseAborted, Summarized,
                    SummaryFails, Resume
      <3>2. CASE Preflight(p) \/ PauseAborted(p) \/ Summarized(p) \/ SummaryFails(p)
        <4>1. UNCHANGED agentVars
          BY <3>2 DEF Preflight, PauseAborted, Summarized, SummaryFails
        <4> QED
          BY <2>2, <3>1, <4>1 DEF agentVars
      <3>3. CASE Submit(p)
        <4>1. CASE StartRun(p, prompts[p].hands, TRUE)
          <5>1. prompts[p].hands # <<>>
            BY <1>0, <3>3 DEF CallsOf, Submit
          <5>2. at' = "inject" /\ hands' # <<>>
            BY <4>1, <5>1 DEF StartRun
          <5> QED
            BY <5>2 DEF OpenAt
        <4>2. CASE UNCHANGED <<at, hands>>
          BY <2>2, <3>1, <4>2
        <4> QED
          BY <3>3, <4>1, <4>2 DEF Submit
      <3>4. ASSUME Continue(p, messages)
            PROVE  OpenAt'
        BY <1>0, <1>1, <2>1, <3>1, <3>4, ContinueOpen
      <3>5. ASSUME Continue(p, WithoutLastError)
            PROVE  OpenAt'
        BY <1>0, <1>1, <2>1, <3>1, <3>5, ContinueOpen, ErrorDropped
      <3>6. CASE PauseEnds(p)
        BY <3>4, <3>6 DEF PauseEnds
      <3>7. CASE Resume(p)
        <4>1. CASE UNCHANGED agentVars
          BY <2>2, <3>1, <4>1 DEF agentVars
        <4> QED
          BY <3>4, <3>5, <3>7, <4>1 DEF Resume
      <3> QED
        BY <2>5, <3>2, <3>3, <3>6, <3>7 DEF PromptStep
    <2>6. CASE CompactStep
      BY <2>2, <2>6 DEF CompactStep, CompactReads, CompactSaves, CompactEnds, agentVars
    <2>7. CASE ClientStep
      <3>1. UNCHANGED <<at, hands, lastAssistantMessage>>
        BY <2>7 DEF ClientStep, Compact, Abort, Steer, FollowUp, QueueCustom, NextTurn, ClearQueue,
                    RecordBash, Prompt, agentVars
      <3> QED
        BY <2>2, <3>1
    <2>8. CASE UNCHANGED vars
      BY <2>2, <2>8 DEF vars, agentVars
    <2> QED
      BY <2>4, <2>5, <2>6, <2>7, <2>8 DEF Next, InternalStep
  <1> QED
    BY <1>2, <1>3

-----------------------------------------------------------------------------
\* The reply that a check is about is the last of the transcript.

EndInv == ~overlapped /\ ~missed /\ at = "end" => LastKind(messages) = lastAssistantMessage.kind
ChecksInv ==
    \A p \in Prompters :
        prompts[p].at = "checks" /\ LastKind(messages) \in Replies
            => prompts[p].last.kind = LastKind(messages)

\* A call that goes on is not checked again, and ends no run.
LEMMA PromptStepMoves ==
    ASSUME Controlled, NEW p \in Prompters, PromptStep(p)
    PROVE  /\ Moves(p, {"idle", "hook", "run", "compact", "compacted"})
           /\ at' \in {at, "inject"}
  <1>1. \A small : Moves(p, small) /\ small \subseteq {"idle", "hook", "run", "compact", "compacted"}
            => Moves(p, {"idle", "hook", "run", "compact", "compacted"})
    BY DEF Moves
  <1>2. CASE Preflight(p)
    <2>1. Moves(p, {"idle", "hook", "compact"})
      BY <1>2, ReturnMoves, CheckCompactionMoves DEF Preflight, Controlled, Moves
    <2> QED
      BY <1>1, <1>2, <2>1 DEF Preflight, agentVars
  <1>3. CASE Submit(p)
    <2>1. CASE activeRun = "none"
      <3>1. Moves(p, {"run"}) /\ at' = "inject"
        BY <1>3, <2>1, StartRunMoves DEF Submit, Controlled, StartRun
      <3> QED
        BY <1>1, <3>1
    <2>2. CASE activeRun # "none"
      <3>1. Moves(p, {"idle"}) /\ at' = at
        BY <1>3, <2>2, RejectMoves DEF Submit, Controlled
      <3> QED
        BY <1>1, <3>1
    <2> QED
      BY <2>1, <2>2
  <1>4. ASSUME NEW transcript, Continue(p, transcript)
        PROVE  Moves(p, {"idle", "hook", "run", "compact", "compacted"}) /\ at' \in {at, "inject"}
    <2>1. \/ Moves(p, {"idle"}) /\ UNCHANGED <<activeRun, at>>
          \/ Moves(p, {"run"}) /\ activeRun = "none" /\ activeRun' = "live" /\ at' = "inject"
      BY <1>4, ContinueMoves DEF Controlled
    <2> QED
      BY <1>1, <2>1
  <1>5. CASE PauseEnds(p)
    BY <1>4, <1>5 DEF PauseEnds
  <1>6. CASE PauseAborted(p)
    <2>1. Moves(p, {"idle", "hook", "compact"})
      BY <1>6, CheckCompactionMoves DEF PauseAborted, Controlled
    <2> QED
      BY <1>1, <1>6, <2>1 DEF PauseAborted, agentVars
  <1>7. CASE Summarized(p)
    <2> DEFINE call == [prompts[p] EXCEPT !.at = "compacted", !.keep = 0]
    <2>1. prompts[p] \in CallType /\ ShapeOf(prompts[p]) /\ prompts[p].at = "compact"
      BY <1>7, Carried DEF Typed, Shapes, Controlled, Summarized
    <2>2. prompts' = [prompts EXCEPT ![p] = call]
      BY <1>7 DEF Summarized, Controlled, Typed, ContentsTyped
    <2>3. call \in CallType
      BY <2>1 DEF CallType
    <2>4. ShapeOf(call) /\ call.at \in {"compacted"}
      BY <2>1 DEF ShapeOf, CallType
    <2> HIDE DEF call
    <2>5. Moves(p, {"compacted"})
      BY <2>2, <2>3, <2>4, MovesTo DEF Controlled
    <2> QED
      BY <1>1, <1>7, <2>5 DEF Summarized, agentVars
  <1>8. CASE SummaryFails(p)
    <2>1. Moves(p, {"idle", "hook"})
      BY <1>8, ReturnMoves DEF SummaryFails, Controlled
    <2> QED
      BY <1>1, <1>8, <2>1 DEF SummaryFails, agentVars
  <1>9. CASE Resume(p)
    <2>1. CASE Return(p, messages) /\ UNCHANGED agentVars
      <3>1. Moves(p, {"idle", "hook"})
        BY <2>1, ReturnMoves DEF Controlled
      <3> QED
        BY <1>1, <2>1, <3>1 DEF agentVars
    <2> QED
      BY <1>4, <1>9, <2>1 DEF Resume
  <1> QED
    BY <1>2, <1>3, <1>5, <1>6, <1>7, <1>8, <1>9 DEF PromptStep

LEMMA StepEnd ==
    ASSUME Kinded, EndInv, [Next]_vars
    PROVE  EndInv'
  <1> SUFFICES ASSUME ~overlapped', ~missed', at' = "end"
               PROVE  LastKind(messages') = lastAssistantMessage'.kind
    BY DEF EndInv
  <1>0. /\ ~overlapped /\ Controlled /\ messages \in Seq(MessageType) /\ events \in Nat
        /\ connected \in BOOLEAN /\ missed \in BOOLEAN
    BY OverlapStays DEF Kinded, Controlled, Typed, ContentsTyped, RestTyped
  <1>1. ASSUME UNCHANGED <<messages, missed, lastAssistantMessage, at>>
        PROVE  LastKind(messages') = lastAssistantMessage'.kind
    BY <1>0, <1>1 DEF EndInv
  <1>2. CASE RunStep
    <2>1. CASE Inject \/ ToolsEnd \/ FinishRun
      BY <2>1 DEF Inject, ToolsEnd, FinishRun, TurnOver
    <2>2. ASSUME NEW kind \in Replies, Reply(kind)
          PROVE  LastKind(messages') = lastAssistantMessage'.kind
      <3> DEFINE m == Message(kind)
      <3>1. m \in MessageType
        BY <1>0, LastingKinds DEF Message, MessageType
      <3>2. connected
        BY <1>0, <2>2 DEF Reply, Emit
      <3>3. messages' = messages \o <<m>> /\ lastAssistantMessage' = m
        BY <2>2, <3>2 DEF Reply, Emit
      <3> HIDE DEF m
      <3>4. LastKind(messages \o <<m>>) = m.kind
        BY <1>0, <3>1, LastKindAppend
      <3> QED
        BY <3>3, <3>4
    <2> QED
      BY <1>2, <2>1, <2>2 DEF RunStep
  <1>3. ASSUME NEW p \in Prompters, PromptStep(p)
        PROVE  FALSE
    <2>1. prompts[p].at \notin {"idle", "run"}
      BY <1>3 DEF PromptStep, Preflight, Submit, PauseEnds, PauseAborted, Summarized,
                  SummaryFails, Resume
    <2>2. at = "off"
      BY <1>0, <2>1, CallAlone
    <2> QED
      BY <1>0, <1>3, <2>2, PromptStepMoves
  <1>4. CASE CompactStep
    <2>1. CASE CompactReads \/ CompactEnds
      BY <1>1, <2>1 DEF CompactReads, CompactEnds, agentVars, historyVars
    <2>2. CASE CompactSaves
      <3>1. manual.at = "summary" /\ at = "end"
        BY <2>2 DEF CompactSaves, agentVars
      <3>2. activeRun # "none"
        BY <1>0, <3>1, LoopActive
      <3> QED
        BY <1>0, <3>1, <3>2 DEF Controlled, Alone
    <2> QED
      BY <1>4, <2>1, <2>2 DEF CompactStep
  <1>5. CASE ClientStep
    <2>1. at = "end"
      BY <1>5 DEF ClientStep, Compact, Abort, Steer, FollowUp, QueueCustom, NextTurn, ClearQueue,
                  RecordBash, Prompt, agentVars
    <2>2. activeRun # "none"
      BY <1>0, <2>1, LoopActive
    <2>3. UNCHANGED <<messages, missed, lastAssistantMessage, at>>
      BY <1>5, <2>2 DEF ClientStep, Compact, Abort, Steer, FollowUp, QueueCustom, NextTurn, ClearQueue,
                  RecordBash, Deferred, Prompt, agentVars, historyVars
    <2> QED
      BY <1>1, <2>3
  <1>6. CASE UNCHANGED vars
    BY <1>1, <1>6 DEF vars, agentVars, historyVars
  <1> QED
    BY <1>2, <1>3, <1>4, <1>5, <1>6 DEF Next, InternalStep

\* The last reply of a transcript that ends with a reply.
LEMMA LastReply ==
    ASSUME NEW s \in Seq(MessageType), LastKind(s) \in Replies
    PROVE  Holds(s, Replies) /\ s[Max(IndicesOf(s, Replies))].kind = LastKind(s)
  <1> DEFINE S == IndicesOf(s, Replies)
  <1>1. s # <<>>
    BY LastingKinds DEF LastKind
  <1>2. Len(s) \in Nat \ {0} /\ DOMAIN s = 1..Len(s) /\ s[Len(s)].kind \in Replies
    BY <1>1, FrontProperties, LenProperties DEF LastKind
  <1>3. Len(s) \in S /\ S \subseteq 1..Len(s)
    BY <1>2 DEF IndicesOf
  <1> HIDE DEF S
  <1>4. Max(S) \in S /\ \A i \in S : i <= Max(S)
    BY <1>2, <1>3, GreatestAndLeast
  <1> DEFINE last == Max(S)
             n == Len(s)
  <1>5. last \in 1..n /\ n <= last /\ n \in Nat
    BY <1>2, <1>3, <1>4
  <1> HIDE DEF last, n
  <1>6. last = n
    BY <1>5
  <1> QED
    BY <1>1, <1>2, <1>3, <1>6 DEF Holds, LastKind, S, last, n

LEMMA StepChecks ==
    ASSUME Kinded, ChecksInv, [Next]_vars
    PROVE  ChecksInv'
  <1>0. Controlled /\ Typed /\ Shapes /\ ContentsTyped
    BY DEF Kinded, Controlled, Typed
  <1>1. ASSUME UNCHANGED <<messages, prompts>>
        PROVE  ChecksInv'
    BY <1>1 DEF ChecksInv
  <1>2. ASSUME ~Checking, \A q \in Prompters : prompts'[q].at = "checks" => prompts[q].at = "checks"
        PROVE  ChecksInv'
    BY <1>2 DEF ChecksInv, Checking
  <1>3. CASE RunStep
    <2>1. \A q \in Prompters : prompts'[q].at = "checks" => prompts[q].at = "checks"
      <3>1. CASE FinishRun
        <4>1. PICK p \in Prompters : AfterRun(p) /\ prompts[p].at = "run"
          BY <3>1 DEF FinishRun
        <4>2. Moves(p, {"idle", "hook", "compact", "retry"})
          BY <1>0, <4>1, AfterRunMoves
        <4> QED
          BY <4>2 DEF Moves
      <3>2. CASE UNCHANGED prompts
        BY <3>2
      <3> QED
        BY <1>3, <3>1, <3>2 DEF RunStep, Inject, ToolsEnd, Reply
    <2> QED
      BY <1>2, <1>3, <2>1 DEF RunStep
  <1>4. ASSUME NEW p \in Prompters, PromptStep(p)
        PROVE  ChecksInv'
    <2>1. /\ prompts'[p].at # "checks"
          /\ \A q \in Prompters \ {p} : prompts'[q] = prompts[q]
      BY <1>0, <1>4, PromptStepMoves DEF Moves
    <2>2. CASE ~Checking
      BY <1>2, <2>1, <2>2
    <2>3. CASE prompts[p].at = "checks"
      <3>1. \A q \in Prompters : prompts'[q].at # "checks"
        BY <1>0, <2>1, <2>3 DEF Controlled, OneAt
      <3> QED
        BY <3>1 DEF ChecksInv
    <2> QED
      BY <1>4, <2>2, <2>3 DEF PromptStep, Preflight
  <1>5. CASE CompactStep
    BY <1>2, <1>5 DEF CompactStep, CompactReads, CompactSaves, CompactEnds
  <1>6. CASE ClientStep
    <2>0. ~Checking
      BY <1>6 DEF ClientStep
    <2>1. ASSUME NEW p \in Prompters, Prompt(p)
          PROVE  ChecksInv'
      <3> DEFINE shown == messages \o pendingBashMessages
                 lastOf == IF Holds(shown, Replies) THEN shown[Max(IndicesOf(shown, Replies))]
                           ELSE NoMessage
                 call == [Idle EXCEPT !.at = "checks", !.pre = "check",
                                      !.message = Message("user"), !.last = lastOf]
      <3>1. prompts' = [prompts EXCEPT ![p] = call] /\ messages' = shown
        BY <2>1 DEF Prompt, FlushBash
      <3>2. shown \in Seq(MessageType)
        BY <1>0, ConcatTyped DEF ContentsTyped
      <3> HIDE DEF shown
      <3>3. LastKind(shown) \in Replies => lastOf.kind = LastKind(shown)
        BY <3>2, LastReply
      <3> HIDE DEF lastOf
      <3>4. call.last = lastOf
        BY DEF Idle
      <3> HIDE DEF call
      <3>5. prompts'[p] = call /\ \A q \in Prompters \ {p} : prompts'[q] = prompts[q]
        BY <1>0, <3>1 DEF ContentsTyped
      <3>6. \A q \in Prompters \ {p} : prompts'[q].at # "checks"
        BY <2>0, <3>5 DEF Checking
      <3> QED
        BY <3>1, <3>3, <3>4, <3>5, <3>6 DEF ChecksInv
    <2>2. CASE Compact \/ Abort
      <3>1. AbortRetry
        BY <2>2 DEF Compact, Abort, AbortRun
      <3>2. \A q \in Prompters : prompts'[q].at = "checks" => prompts[q].at = "checks"
        BY <1>0, <3>1, AbortRetryPlaces
      <3> QED
        BY <1>2, <2>0, <3>2
    <2>3. CASE UNCHANGED prompts
      BY <1>2, <2>0, <2>3
    <2> QED
      BY <1>6, <2>1, <2>2, <2>3 DEF ClientStep, Steer, FollowUp, QueueCustom, NextTurn, ClearQueue, RecordBash
  <1>7. CASE UNCHANGED vars
    BY <1>1, <1>7 DEF vars
  <1> QED
    BY <1>3, <1>4, <1>5, <1>6, <1>7 DEF Next, InternalStep

-----------------------------------------------------------------------------
\* The transcript agrees with the session.

LEMMA FlushAgrees ==
    ASSUME ContentsTyped, NEW transcript \in Seq(MessageType), Agrees(transcript, session),
           FlushBash(transcript)
    PROVE  Agrees(messages', session')
  <1>1. session \in Seq(EntryType) /\ pendingBashMessages \in Seq(MessageType)
    BY DEF ContentsTyped
  <1>2. Agrees(transcript \o pendingBashMessages, session \o pendingBashMessages)
    BY <1>1, AgreesGrows
  <1> QED
    BY <1>2 DEF FlushBash

LEMMA ReturnAgrees ==
    ASSUME ContentsTyped, NEW transcript \in Seq(MessageType), Agrees(transcript, session),
           NEW p, Return(p, transcript)
    PROVE  Agrees(messages', session')
  <1>1. CASE messages' = transcript /\ UNCHANGED <<session, pendingBashMessages>>
    BY <1>1
  <1>2. CASE FlushBash(transcript)
    BY <1>2, FlushAgrees
  <1> QED
    BY <1>1, <1>2 DEF Return

LEMMA ContinueAgrees ==
    ASSUME ContentsTyped, NEW transcript \in Seq(MessageType), Agrees(transcript, session),
           NEW p, Continue(p, transcript)
    PROVE  Agrees(messages', session')
  <1>1. CASE Reject(p, transcript)
    BY <1>1, FlushAgrees DEF Reject
  <1>2. CASE messages' = transcript /\ UNCHANGED session
    BY <1>2
  <1> QED
    BY <1>1, <1>2 DEF Continue

\* The last reply may be taken out of the transcript when it does not last.
Droppable == LastKind(messages) \in Replies => LastKind(messages) \in Bad

LEMMA DroppedAgrees ==
    ASSUME ContentsTyped, Agrees(messages, session), Droppable
    PROVE  Agrees(WithoutLastReply, session)
  <1>1. CASE LastKind(messages) \in Replies
    <2>1. messages # <<>> /\ LastKind(messages) \in Bad /\ messages \in Seq(MessageType)
      BY <1>1, LastingKinds DEF LastKind, Droppable, ContentsTyped
    <2>2. Agrees(Front(messages), session)
      BY <2>1, AgreesDropped
    <2> QED
      BY <1>1, <2>2 DEF WithoutLastReply
  <1>2. CASE LastKind(messages) \notin Replies
    BY <1>2 DEF WithoutLastReply
  <1> QED
    BY <1>1, <1>2

LEMMA CheckAgrees ==
    ASSUME ContentsTyped, Agrees(messages, session), NEW p, NEW m, NEW skipAborted,
           m.kind \in Overflows => Droppable, CheckCompaction(p, m, skipAborted)
    PROVE  Agrees(messages', session')
  <1>1. CASE Return(p, messages)
    BY <1>1, ReturnAgrees DEF ContentsTyped
  <1>2. CASE /\ m.kind \in Overflows
             /\ messages' = WithoutLastReply /\ UNCHANGED session
    BY <1>2, DroppedAgrees
  <1>3. CASE UNCHANGED <<messages, session>>
    BY <1>3
  <1> QED
    BY <1>1, <1>2, <1>3 DEF CheckCompaction

\* Messages that end while the session listens.
LEMMA EmitAgrees ==
    ASSUME ContentsTyped, NEW ms \in Seq(MessageType), Agrees(messages, session),
           Emit(ms), connected \/ ms = <<>>
    PROVE  Agrees(messages', session')
  <1>1. messages \in Seq(MessageType) /\ session \in Seq(EntryType)
    BY DEF ContentsTyped
  <1>2. CASE connected
    <2>1. messages' = messages \o ms /\ session' = session \o ms
      BY <1>2 DEF Emit
    <2>2. Agrees(messages \o ms, session \o ms)
      BY <1>1, AgreesGrows
    <2> QED
      BY <2>1, <2>2
  <1>3. CASE ~connected
    <2>1. ms = <<>> /\ messages' = messages \o ms /\ session' = session
      BY <1>3 DEF Emit
    <2>2. messages' = messages
      BY <1>1, <2>1, ConcatEmptySeq
    <2> QED
      BY <2>1, <2>2
  <1> QED
    BY <1>2, <1>3

LEMMA RunStepAgrees ==
    ASSUME Kinded, RunStep, Trusted', ~missed', Agrees(messages, session),
           EndInv, OpenInv, Trusted
    PROVE  Agrees(messages', session')
  <1>0. /\ ContentsTyped /\ Typed /\ messages \in Seq(MessageType) /\ session \in Seq(EntryType)
        /\ hands \in Seq(MessageType) /\ events \in Nat
        /\ connected \in BOOLEAN /\ missed \in BOOLEAN
    BY DEF Kinded, Controlled, Typed, ContentsTyped, LoopTyped, RestTyped
  <1>1. ASSUME NEW ms \in Seq(MessageType), Emit(ms)
        PROVE  Agrees(messages', session')
    <2>1. connected \/ ms = <<>>
      BY <1>0, <1>1 DEF Emit
    <2> QED
      BY <1>0, <1>1, <2>1, EmitAgrees
  <1>2. CASE Inject \/ ToolsEnd
    BY <1>0, <1>1, <1>2 DEF Inject, ToolsEnd
  <1>3. ASSUME NEW kind \in Replies, Reply(kind)
        PROVE  Agrees(messages', session')
    <2> DEFINE m == Message(kind)
    <2>1. m \in MessageType /\ Emit(<<m>>)
      BY <1>0, <1>3, LastingKinds DEF Message, MessageType, Reply
    <2> HIDE DEF m
    <2>2. <<m>> \in Seq(MessageType)
      BY <2>1
    <2> QED
      BY <1>1, <2>1, <2>2
  <1>4. CASE FinishRun
    <2> DEFINE m == lastAssistantMessage
    <2>1. PICK p \in Prompters : AfterRun(p)
      BY <1>4 DEF FinishRun
    <2>2. at = "end"
      BY <1>4 DEF FinishRun
    <2>3. ASSUME m.kind \in Bad
          PROVE  Droppable
      <3>1. CASE ~overlapped
        <4>1. LastKind(messages) = m.kind
          BY <2>2, <3>1 DEF EndInv, Trusted
        <4> QED
          BY <2>3, <4>1 DEF Droppable
      <3>2. CASE made["compact"] = 0
        <4>1. Open(session) /\ WellKept(session)
          BY <2>2, <2>3, <3>2 DEF OpenInv, OpenAt, Sound
        <4> QED
          BY <1>0, <4>1, OpenDrop DEF Droppable
      <3> QED
        BY <3>1, <3>2 DEF Trusted
    <2>4. CASE Return(p, messages)
      BY <1>0, <2>4, ReturnAgrees
    <2>5. CASE Retryable(m) /\ messages' = WithoutLastReply /\ UNCHANGED session
      <3>1. m.kind \in Bad
        BY <2>5 DEF Retryable, Bad, Errors
      <3> QED
        BY <1>0, <2>3, <2>5, <3>1, DroppedAgrees
    <2>6. CASE CheckCompaction(p, m, TRUE)
      <3>1. m.kind \in Overflows => Droppable
        BY <2>3 DEF Bad
      <3> QED
        BY <1>0, <2>6, <3>1, CheckAgrees
    <2> QED
      BY <2>1, <2>4, <2>5, <2>6 DEF AfterRun
  <1> QED
    BY <1>2, <1>3, <1>4 DEF RunStep

LEMMA PromptStepAgrees ==
    ASSUME Kinded, NEW p \in Prompters, PromptStep(p), ChecksInv,
           ~Summarized(p) => Agrees(messages, session)
    PROVE  Agrees(messages', session')
  <1>0. ContentsTyped /\ Typed /\ Shapes /\ messages \in Seq(MessageType)
    BY DEF Kinded, Controlled, Typed, ContentsTyped
  <1>1. CASE Summarized(p)
    BY <1>1 DEF Summarized, Compacted, Agrees
  <1> SUFFICES ASSUME Agrees(messages, session), ~Summarized(p)
               PROVE  Agrees(messages', session')
    BY <1>1
  <1>2. CASE Preflight(p)
    <2> DEFINE m == prompts[p].last
    <2>1. prompts[p].at = "checks"
      BY <1>2 DEF Preflight
    <2>2. m.kind \in Overflows => Droppable
      BY <2>1 DEF ChecksInv, Droppable, Bad
    <2> QED
      BY <1>0, <1>2, <2>2, ReturnAgrees, CheckAgrees DEF Preflight
  <1>3. CASE Submit(p)
    <2>1. CASE Reject(p, messages)
      BY <1>0, <2>1, FlushAgrees DEF Reject
    <2>2. CASE UNCHANGED <<messages, session>>
      BY <2>2
    <2> QED
      BY <1>3, <2>1, <2>2 DEF Submit
  <1>4. CASE PauseEnds(p)
    BY <1>0, <1>4, ContinueAgrees DEF PauseEnds
  <1>5. CASE PauseAborted(p)
    <2>1. prompts[p].last.kind = "error"
      BY <1>0, <1>5 DEF PauseAborted, Shapes, ShapeOf
    <2>2. prompts[p].last.kind \in Overflows => Droppable
      BY <2>1 DEF Overflows
    <2> QED
      BY <1>0, <1>5, <2>2, CheckAgrees DEF PauseAborted
  <1>6. CASE SummaryFails(p)
    BY <1>0, <1>6, ReturnAgrees DEF SummaryFails
  <1>7. CASE Resume(p)
    <2>1. CASE Continue(p, WithoutLastError)
      BY <1>0, <2>1, ContinueAgrees, ErrorDropped
    <2>2. CASE Continue(p, messages)
      BY <1>0, <2>2, ContinueAgrees
    <2>3. CASE Return(p, messages)
      BY <1>0, <2>3, ReturnAgrees
    <2> QED
      BY <1>7, <2>1, <2>2, <2>3 DEF Resume
  <1> QED
    BY <1>2, <1>3, <1>4, <1>5, <1>6, <1>7 DEF PromptStep

LEMMA ClientStepAgrees ==
    ASSUME Kinded, ClientStep, Agrees(messages, session)
    PROVE  Agrees(messages', session')
  <1>0. /\ ContentsTyped /\ messages \in Seq(MessageType) /\ session \in Seq(EntryType)
        /\ events \in Nat
    BY DEF Kinded, Controlled, Typed, ContentsTyped, RestTyped
  <1>1. ASSUME NEW p \in Prompters, Prompt(p)
        PROVE  Agrees(messages', session')
    BY <1>0, <1>1, FlushAgrees DEF Prompt
  <1>2. CASE RecordBash
    <2> DEFINE m == Message("bash")
    <2>1. CASE messages' = Append(messages, m) /\ session' = Append(session, m)
      <3>1. m \in MessageType
        BY <1>0, LastingKinds DEF Message, MessageType, Kinds
      <3> HIDE DEF m
      <3>2. m \in EntryType /\ <<m>> \in Seq(MessageType)
        BY <3>1 DEF EntryType
      <3>3. messages \o <<m>> = Append(messages, m) /\ session \o <<m>> = Append(session, m)
        BY <1>0, <3>1, <3>2, LastKindAppend
      <3>4. Agrees(messages \o <<m>>, session \o <<m>>)
        BY <1>0, <3>2, AgreesGrows
      <3> QED
        BY <2>1, <3>3, <3>4
    <2>2. CASE UNCHANGED <<messages, session>>
      BY <2>2
    <2> QED
      BY <1>2, <2>1, <2>2 DEF RecordBash
  <1>3. CASE UNCHANGED <<messages, session>>
    BY <1>3
  <1> QED
    BY <1>1, <1>2, <1>3
       DEF ClientStep, Compact, Abort, Steer, FollowUp, QueueCustom, NextTurn, ClearQueue

Follows == AgreeInv /\ EndInv /\ ChecksInv /\ OpenInv

LEMMA StepFollows ==
    ASSUME Kinded, Follows, [Next]_vars
    PROVE  Follows'
  <1>0. /\ Typed /\ missed \in BOOLEAN
        /\ overlapped => overlapped'
        /\ made'["compact"] = 0 => made["compact"] = 0 /\ ~Compact
    BY OverlapStays, NoCompactBefore DEF Kinded, Controlled, Typed, RestTyped
  <1>1. EndInv'
    BY StepEnd DEF Follows
  <1>2. ChecksInv'
    BY StepChecks DEF Follows
  <1>3. OpenInv'
    <2> SUFFICES ASSUME made'["compact"] = 0
                 PROVE  (Sound /\ CutsKept /\ OpenAt)'
      BY DEF OpenInv
    <2>1. Sound /\ CutsKept /\ OpenAt /\ AgreeInv /\ made["compact"] = 0 /\ ~Compact
      BY <1>0 DEF Follows, OpenInv
    <2>2. Sound' /\ CutsKept'
      BY <2>1, SoundKept
    <2>3. OpenAt'
      BY <2>1, OpenKept
    <2> QED
      BY <2>2, <2>3
  <1>4. AgreeInv'
    <2> SUFFICES ASSUME Trusted'
                 PROVE  Agrees(messages', session')
      BY DEF AgreeInv
    <2>0. ~missed'
      BY DEF Trusted
    <2>1. ~missed => Trusted /\ Agrees(messages, session)
      BY <1>0 DEF Follows, AgreeInv, Trusted
    <2>2. CASE RunStep
      <3>1. ~missed
        BY <1>0, <2>0, <2>2 DEF RunStep, Inject, ToolsEnd, Reply, Emit, FinishRun
      <3> QED
        BY <2>0, <2>1, <2>2, <3>1, RunStepAgrees DEF Follows
    <2>3. ASSUME NEW p \in Prompters, PromptStep(p)
          PROVE  Agrees(messages', session')
      <3>1. ~Summarized(p) => ~missed
        BY <2>0, <2>3 DEF PromptStep, Preflight, Submit, PauseEnds, PauseAborted,
                          SummaryFails, Resume, historyVars
      <3> QED
        BY <2>1, <2>3, <3>1, PromptStepAgrees DEF Follows
    <2>4. CASE CompactStep
      <3>1. CASE CompactSaves
        BY <3>1 DEF CompactSaves, Compacted, Agrees
      <3>2. CASE UNCHANGED <<messages, session, missed>>
        BY <2>0, <2>1, <3>2
      <3> QED
        BY <2>4, <3>1, <3>2 DEF CompactStep, CompactReads, CompactEnds, historyVars
    <2>5. CASE ClientStep
      <3>1. UNCHANGED missed
        BY <2>5 DEF ClientStep, Compact, Abort, Steer, FollowUp, QueueCustom, NextTurn, ClearQueue,
                    RecordBash, Prompt, historyVars
      <3> QED
        BY <2>0, <2>1, <2>5, <3>1, ClientStepAgrees
    <2>6. CASE UNCHANGED vars
      BY <2>0, <2>1, <2>6 DEF vars, historyVars
    <2> QED
      BY <2>2, <2>3, <2>4, <2>5, <2>6 DEF Next, InternalStep
  <1> QED
    BY <1>1, <1>2, <1>3, <1>4 DEF Follows

LEMMA InitFollows ==
    ASSUME Init
    PROVE  Follows
  <1>1. session = <<>> /\ messages = <<>> /\ at = "off"
        /\ \A p \in Prompters : prompts[p].keep = 0 /\ prompts[p].at = "idle"
    BY DEF Init, Idle
  <1>2. <<>> \in Seq(EntryType) /\ DOMAIN <<>> = {}
    BY EmptySeq
  <1>3. Compactions(session) = {}
    BY <1>1, <1>2 DEF Compactions, IndicesOf
  <1>4. Agrees(messages, session)
    BY <1>1, <1>2, <1>3, ContextIs DEF Agrees
  <1>5. WellKept(session)
    BY <1>3 DEF WellKept
  <1>6. BadAfterOpen(session)
    BY <1>1, <1>2 DEF BadAfterOpen
  <1>7. EndInv /\ ChecksInv /\ CutsKept /\ OpenAt
    BY <1>1 DEF EndInv, ChecksInv, CutsKept, OpenAt
  <1> QED
    BY <1>4, <1>5, <1>6, <1>7 DEF Follows, AgreeInv, OpenInv, Sound

\* The transcript, its end and the session agree in every state.
THEOREM FollowInvariant == Spec => []Follows
  <1>1. Init => Follows
    BY InitFollows
  <1>2. Kinded /\ Follows /\ [Next]_vars => Follows'
    BY StepFollows
  <1> QED
    BY <1>1, <1>2, KindInvariant, PTL DEF Spec

\* The transcript is the context a reopened session would have, but for the replies
\* that failed.
THEOREM TranscriptAgrees == Spec => []TranscriptIsSession
  <1>1. Follows => TranscriptIsSession
    BY DEF Follows, AgreeInv, Trusted, Agrees, TranscriptIsSession
  <1> QED
    BY <1>1, FollowInvariant, PTL

\* What the file, the transcript and the running loop hold agrees.
THEOREM ContextsAgreeAlways == Spec => []ContextsAgree
  <1>1. TranscriptIsSession /\ RequestSeesTranscript => ContextsAgree
    BY DEF ContextsAgree
  <1> QED
    BY <1>1, TranscriptAgrees, TranscriptSeen, PTL
====
