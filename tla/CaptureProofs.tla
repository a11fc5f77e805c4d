---------------------------- MODULE CaptureProofs ----------------------------
(***************************************************************************)
(* Proofs about Capture, for any height of the screen, any scrollback, any *)
(* number of rows, and any bound of the accumulator that leaves room for   *)
(* the tails and the markers.                                              *)
(*                                                                         *)
(* The overlap of two captures is the longest: after every row the         *)
(* automaton has matched the most rows that fit, and what it falls back to *)
(* are borders.  The results about an eval need what may stand in a pane:  *)
(* markers are printed once, in order, and the output is what the text     *)
(* between them is sliced into.  Of the accumulator they need that it has  *)
(* no marker the pane has not, keeps BEGIN and ERROR in order as long as   *)
(* nothing was missed, and is an end of the pane when no rows are alike.   *)
(*                                                                         *)
(* Functions over prefixes are reasoned about by induction over sets of    *)
(* their arguments, from a well-founded order of finite sets.              *)
(***************************************************************************)
EXTENDS Capture, FiniteSetTheorems, TLAPS

-----------------------------------------------------------------------------
(* Induction and recursion without predicates. *)

\* A set of naturals that is not empty has a least element: the initial segments below its
\* elements are finite sets, ordered by inclusion, and that order is well-founded.
LEMMA Least ==
  ASSUME NEW S \in SUBSET Nat, S # {}
  PROVE  \E m \in S : \A k \in S : m <= k
<1> DEFINE Upto == {0..i : i \in S}
<1>1. Upto \subseteq FiniteSubsetsOf(Nat) /\ Upto # {}
  <2>1. \A i \in S : 0..i \in SUBSET Nat /\ IsFiniteSet(0..i)
    BY FS_Interval
  <2> QED
    BY <2>1 DEF FiniteSubsetsOf
<1>2. PICK x \in Upto : \A y \in Upto : ~ (<<y, x>> \in StrictSubsetOrdering(Nat))
  BY <1>1, FS_StrictSubsetOrderingWellFounded, WFMin
<1>3. PICK m \in S : x = 0..m
  BY <1>2
<1>4. ASSUME NEW k \in S, k < m
      PROVE  FALSE
  <2>1. /\ 0..k \in SUBSET Nat /\ 0..m \in SUBSET Nat
        /\ 0..k \subseteq 0..m /\ m \in 0..m /\ m \notin 0..k
    BY <1>4
  <2>2. <<0..k, x>> \in StrictSubsetOrdering(Nat)
    BY <2>1, <1>3 DEF StrictSubsetOrdering
  <2> QED
    BY <1>2, <2>2
<1> QED
  BY <1>4

\* Induction up to N, with a set in place of a predicate.
LEMMA Inductive ==
  ASSUME NEW N \in Nat, NEW S, 0 \in S,
         \A n \in 0..N : n \in S /\ n < N => n + 1 \in S
  PROVE  \A n \in 0..N : n \in S
<1> SUFFICES ASSUME NEW n \in 0..N, n \notin S
             PROVE  FALSE
  OBVIOUS
<1>1. (0..N) \ S \in SUBSET Nat /\ (0..N) \ S # {}
  OBVIOUS
<1>2. PICK m \in (0..N) \ S : \A k \in (0..N) \ S : m <= k
  BY <1>1, Least
<1>3. m # 0 /\ m - 1 \in 0..N /\ m - 1 < N /\ m = (m - 1) + 1
  BY <1>2
<1> QED
  BY <1>2, <1>3

\* The same from all smaller numbers.
LEMMA StronglyInductive ==
  ASSUME NEW N \in Nat, NEW S,
         \A n \in 0..N : (\A k \in 0..N : k < n => k \in S) => n \in S
  PROVE  \A n \in 0..N : n \in S
<1> SUFFICES ASSUME NEW n \in 0..N, n \notin S
             PROVE  FALSE
  OBVIOUS
<1>1. (0..N) \ S \in SUBSET Nat /\ (0..N) \ S # {}
  OBVIOUS
<1>2. PICK m \in (0..N) \ S : \A k \in (0..N) \ S : m <= k
  BY <1>1, Least
<1> QED
  BY <1>2

\* F takes a value of G[i - 1] to one of G[i]; g is what it makes of b.
IsStep(F, N, G) == \A i \in 1..N : F[i] \in [G[i - 1] -> G[i]]
Iterates(g, N, G, b, F) ==
  /\ g = [i \in 0..N |-> g[i]] /\ g[0] = b
  /\ \A i \in 0..N : g[i] \in G[i]
  /\ \A i \in 1..N : g[i] = F[i][g[i - 1]]

\* A function defined from its value one below exists, up to N.
LEMMA PrimitiveRecursion ==
  ASSUME NEW N \in Nat, NEW G, NEW b \in G[0], NEW F, IsStep(F, N, G)
  PROVE  \E g : Iterates(g, N, G, b, F)
<1> DEFINE Up(n) == \E g : Iterates(g, n, G, b, F)
           S == {n \in 0..N : Up(n)}
<1>1. 0 \in S
  <2> DEFINE g == [i \in 0..0 |-> b]
  <2>1. /\ g = [i \in 0..0 |-> g[i]] /\ g[0] = b
        /\ \A i \in 0..0 : g[i] \in G[i]
        /\ \A i \in 1..0 : g[i] = F[i][g[i - 1]]
    OBVIOUS
  <2>2. Iterates(g, 0, G, b, F)
    BY <2>1 DEF Iterates
  <2> QED
    BY <2>2
<1>2. ASSUME NEW n \in 0..N, n \in S, n < N
      PROVE  n + 1 \in S
  <2>1. PICK g : Iterates(g, n, G, b, F)
    BY <1>2
  <2>2. F[n + 1][g[n]] \in G[n + 1]
    <3>1. n + 1 \in 1..N /\ (n + 1) - 1 = n /\ n \in 0..n
      BY <1>2
    <3>2. F[n + 1] \in [G[n] -> G[n + 1]]
      BY <3>1 DEF IsStep
    <3> QED
      BY <2>1, <3>1, <3>2 DEF Iterates
  <2> DEFINE h == [i \in 0..(n + 1) |-> IF i = n + 1 THEN F[n + 1][g[n]] ELSE g[i]]
  <2>3. \A i \in 0..n : h[i] = g[i]
    OBVIOUS
  <2>4. h[n + 1] = F[n + 1][h[n]] /\ h[n + 1] \in G[n + 1]
    BY <2>2, <2>3
  <2>5. h = [i \in 0..(n + 1) |-> h[i]]
    OBVIOUS
  <2> HIDE DEF h
  <2>6. h[0] = b /\ \A i \in 0..(n + 1) : h[i] \in G[i]
    BY <2>1, <2>3, <2>4 DEF Iterates
  <2>7. ASSUME NEW i \in 1..(n + 1)
        PROVE  h[i] = F[i][h[i - 1]]
    <3>1. CASE i = n + 1
      BY <2>4, <3>1
    <3>2. CASE i # n + 1
      <4>1. i \in 1..n /\ i \in 0..n /\ i - 1 \in 0..n
        BY <3>2
      <4> QED
        BY <2>1, <2>3, <4>1 DEF Iterates
    <3> QED
      BY <3>1, <3>2
  <2>8. Iterates(h, n + 1, G, b, F)
    BY <2>5, <2>6, <2>7 DEF Iterates
  <2>9. n + 1 \in 0..N
    BY <1>2
  <2> QED
    BY <2>8, <2>9
<1> HIDE DEF S
<1>3. \A n \in 0..N : n \in S /\ n < N => n + 1 \in S
  BY <1>2
<1>4. N \in S
  BY <1>1, <1>3, Inductive
<1> QED
  BY <1>4 DEF S

\* The recursive functions of a slice exist: the phase at each row and the text so far.
PhaseNames == {"stdout", "value", "error", "backtrace"}
PhaseAt(s, at) ==
  /\ at \in [0..Len(s) -> PhaseNames] /\ at[0] = "stdout"
  /\ \A i \in 1..Len(s) : at[i] = IF IsToken(s[i]) THEN PhaseAfter(s[i].tag) ELSE at[i - 1]
Passed(s, at, phase, i) == IsToken(s[i]) \/ at[i] # phase
TextAt(s, at, phase, text) ==
  /\ text \in [0..Len(s) -> Seq(Rows)] /\ text[0] = <<>>
  /\ \A i \in 1..Len(s) : text[i] = IF Passed(s, at, phase, i) THEN text[i - 1]
                                                              ELSE Append(text[i - 1], s[i])

\* A slice is the text that its two recursive functions have at the last row.
LEMMA SliceIs ==
  ASSUME NEW s \in Seq(Rows), NEW phase
  PROVE  \E at, text : PhaseAt(s, at) /\ TextAt(s, at, phase, text) /\ Slice(s, phase) = text[Len(s)]
<1> DEFINE at[i \in 0..Len(s)] ==
              IF i = 0 THEN "stdout" ELSE IF IsToken(s[i]) THEN PhaseAfter(s[i].tag) ELSE at[i - 1]
           text[i \in 0..Len(s)] ==
              IF i = 0 THEN <<>>
              ELSE IF IsToken(s[i]) \/ at[i] # phase THEN text[i - 1] ELSE Append(text[i - 1], s[i])
           AtEq(g) == g = [i \in 0..Len(s) |->
              IF i = 0 THEN "stdout" ELSE IF IsToken(s[i]) THEN PhaseAfter(s[i].tag) ELSE g[i - 1]]
           TextEq(g) == g = [i \in 0..Len(s) |-> 
              IF i = 0 THEN <<>>
              ELSE IF Passed(s, at, phase, i) THEN g[i - 1] ELSE Append(g[i - 1], s[i])]
<1>0. Len(s) \in Nat
  OBVIOUS
<1> HIDE DEF at, text, AtEq, TextEq
<1>1. PhaseAt(s, at)
  <2> DEFINE F == [i \in 1..Len(s) |-> [v \in PhaseNames |-> IF IsToken(s[i]) THEN PhaseAfter(s[i].tag) ELSE v]]
             G == [i \in 0..Len(s) |-> PhaseNames]
  <2>1. \A tag : PhaseAfter(tag) \in PhaseNames
    BY Zenon DEF PhaseAfter, PhaseNames
  <2>2. F \in [1..Len(s) -> [PhaseNames -> PhaseNames]]
    BY <2>1
  <2>3. "stdout" \in PhaseNames
    BY DEF PhaseNames
  <2>4. PICK g : Iterates(g, Len(s), G, "stdout", F)
    <3>1. IsStep(F, Len(s), G)
      BY <1>0, <2>2 DEF IsStep
    <3>2. "stdout" \in G[0]
      BY <1>0, <2>3
    <3> HIDE DEF F, G
    <3> QED
      BY <1>0, <3>1, <3>2, PrimitiveRecursion
  <2>5. AtEq(g)
    <3>1. \A i \in 1..Len(s) : g[i] = IF IsToken(s[i]) THEN PhaseAfter(s[i].tag) ELSE g[i - 1]
      <4> SUFFICES ASSUME NEW i \in 1..Len(s)
                   PROVE  g[i] = IF IsToken(s[i]) THEN PhaseAfter(s[i].tag) ELSE g[i - 1]
        OBVIOUS
      <4>1. g[i] = F[i][g[i - 1]] /\ i - 1 \in 0..Len(s)
        BY <1>0, <2>4 DEF Iterates
      <4>2. g[i - 1] \in PhaseNames
        BY <2>4, <4>1 DEF Iterates
      <4> QED
        BY <4>1, <4>2
    <3> QED
      BY <2>4, <3>1 DEF AtEq, Iterates
  <2>6. AtEq(at)
    BY <2>5, Zenon DEF AtEq, at
  <2>7. /\ DOMAIN at = 0..Len(s) /\ at = [i \in 0..Len(s) |-> at[i]] /\ at[0] = "stdout"
        /\ \A i \in 1..Len(s) : at[i] = IF IsToken(s[i]) THEN PhaseAfter(s[i].tag) ELSE at[i - 1]
    BY <1>0, <2>6 DEF AtEq
  <2> DEFINE S == {n \in 0..Len(s) : at[n] \in PhaseNames}
  <2>8. 0 \in S /\ \A n \in 0..Len(s) : n \in S /\ n < Len(s) => n + 1 \in S
    BY <1>0, <2>1, <2>3, <2>7
  <2>9. \A n \in 0..Len(s) : n \in S
    <3> HIDE DEF S
    <3> QED
      BY <1>0, <2>8, Inductive
  <2> QED
    BY <2>7, <2>9 DEF PhaseAt
<1>2. TextAt(s, at, phase, text)
  <2> DEFINE Skips(i) == Passed(s, at, phase, i)
             F == [i \in 1..Len(s) |-> [v \in Seq(Rows) |-> IF Skips(i) THEN v ELSE Append(v, s[i])]]
             G == [i \in 0..Len(s) |-> Seq(Rows)]
  <2>1. \A i \in 1..Len(s), v \in Seq(Rows) : Append(v, s[i]) \in Seq(Rows)
    BY <1>0
  <2> HIDE DEF Skips
  <2>2. F \in [1..Len(s) -> [Seq(Rows) -> Seq(Rows)]]
    BY <2>1
  <2>3. <<>> \in Seq(Rows)
    OBVIOUS
  <2>4. PICK g : Iterates(g, Len(s), G, <<>>, F)
    <3>1. IsStep(F, Len(s), G)
      <4> SUFFICES ASSUME NEW i \in 1..Len(s)
                   PROVE  F[i] \in [G[i - 1] -> G[i]]
        BY DEF IsStep
      <4>1. G[i - 1] = Seq(Rows) /\ G[i] = Seq(Rows)
        BY <1>0
      <4> HIDE DEF F, G
      <4> QED
        BY <2>2, <4>1
    <3>2. <<>> \in G[0]
      BY <1>0, <2>3
    <3> HIDE DEF F, G
    <3> QED
      BY <1>0, <3>1, <3>2, PrimitiveRecursion
  <2>5. TextEq(g)
    <3>1. \A i \in 1..Len(s) : g[i] = IF Skips(i) THEN g[i - 1] ELSE Append(g[i - 1], s[i])
      <4> SUFFICES ASSUME NEW i \in 1..Len(s)
                   PROVE  g[i] = IF Skips(i) THEN g[i - 1] ELSE Append(g[i - 1], s[i])
        OBVIOUS
      <4>0. i - 1 \in 0..Len(s) /\ G[i - 1] = Seq(Rows)
        BY <1>0
      <4>1. g[i] = F[i][g[i - 1]]
        BY <2>4, Zenon DEF Iterates
      <4>2. g[i - 1] \in Seq(Rows)
        <5> HIDE DEF G
        <5> QED
          BY <2>4, <4>0 DEF Iterates
      <4> QED
        BY <4>1, <4>2
    <3>2. g = [i \in 0..Len(s) |-> IF i = 0 THEN g[0] ELSE IF Skips(i) THEN g[i - 1] ELSE Append(g[i - 1], s[i])]
      <4> DEFINE E(i) == IF Skips(i) THEN g[i - 1] ELSE Append(g[i - 1], s[i])
      <4>1. \A i \in 1..Len(s) : g[i] = E(i)
        BY <3>1
      <4>2. g = [i \in 0..Len(s) |-> g[i]]
        BY <2>4 DEF Iterates
      <4> HIDE DEF E
      <4>3. g = [i \in 0..Len(s) |-> IF i = 0 THEN g[0] ELSE E(i)]
        BY <1>0, <4>1, <4>2
      <4> QED
        BY <4>3 DEF E
    <3>3. g[0] = <<>>
      BY <2>4 DEF Iterates
    <3> QED
      BY <3>2, <3>3, Zenon DEF TextEq, Skips
  <2>6. TextEq(text)
    BY <2>5, Zenon DEF TextEq, text, Passed
  <2>7. /\ DOMAIN text = 0..Len(s) /\ text = [i \in 0..Len(s) |-> text[i]] /\ text[0] = <<>>
        /\ \A i \in 1..Len(s) : text[i] = IF Skips(i) THEN text[i - 1] ELSE Append(text[i - 1], s[i])
    <3> DEFINE E(i) == IF Skips(i) THEN text[i - 1] ELSE Append(text[i - 1], s[i])
               empty == <<>>
    <3>1. text = [i \in 0..Len(s) |-> IF i = 0 THEN empty ELSE E(i)]
      BY <2>6, Zenon DEF TextEq, Skips
    <3> HIDE DEF E, empty
    <3>2. /\ DOMAIN text = 0..Len(s) /\ text = [i \in 0..Len(s) |-> text[i]] /\ text[0] = empty
          /\ \A i \in 1..Len(s) : text[i] = E(i)
      BY <1>0, <3>1
    <3> QED
      BY <3>2 DEF E, empty
  <2> DEFINE S == {n \in 0..Len(s) : text[n] \in Seq(Rows)}
  <2>8. 0 \in S /\ \A n \in 0..Len(s) : n \in S /\ n < Len(s) => n + 1 \in S
    <3>1. ASSUME NEW n \in 0..Len(s), n \in S, n < Len(s)
          PROVE  n + 1 \in S
      <4>1. n + 1 \in 1..Len(s) /\ (n + 1) - 1 = n /\ text[n] \in Seq(Rows)
        BY <1>0, <3>1
      <4>2. text[n + 1] = IF Skips(n + 1) THEN text[n] ELSE Append(text[n], s[n + 1])
        BY <2>7, <4>1
      <4>3. text[n + 1] \in Seq(Rows)
        BY <2>1, <4>1, <4>2
      <4> QED
        BY <4>1, <4>3, <1>0
    <3> QED
      BY <1>0, <2>3, <2>7, <3>1
  <2>9. \A n \in 0..Len(s) : n \in S
    <3> HIDE DEF S
    <3> QED
      BY <1>0, <2>8, Inductive
  <2> QED
    BY <2>7, <2>9 DEF TextAt, Skips
<1>3. Slice(s, phase) = text[Len(s)]
  BY Zenon DEF Slice, text, at
<1> QED
  BY <1>1, <1>2, <1>3

-----------------------------------------------------------------------------
(* The overlap: fits and borders, the automaton, the prefix function. *)

\* The first b rows of a pattern P are the last b of the first i of a text t.
Fits(b, t, i, P) == \A j \in 1..b : P[j] = t[i - b + j]

\* q is the most rows of P that fit.
Longest(q, t, i, P) ==
  /\ q \in 0..Len(P) /\ q <= i /\ Fits(q, t, i, P)
  /\ \A b \in 0..Len(P) : b <= i /\ Fits(b, t, i, P) => b <= q

\* Borders: P below its first row, as a text for P.
Below(P) == [x \in 1..(Len(P) - 1) |-> P[x + 1]]
Borders(pi, P, m) == \A k \in 1..m : Longest(pi[k], Below(P), k - 1, P)

\* What fits below the first row of P is a border of a prefix of P.
LEMMA BelowFits ==
  ASSUME NEW P \in Seq(Rows), NEW k \in 1..Len(P), NEW b \in 0..(k - 1)
  PROVE  Fits(b, Below(P), k - 1, P) <=> Fits(b, P, k, P)
<1>1. \A j \in 1..b : Below(P)[(k - 1) - b + j] = P[k - b + j]
  <2> SUFFICES ASSUME NEW j \in 1..b
               PROVE  Below(P)[(k - 1) - b + j] = P[k - b + j]
    OBVIOUS
  <2> DEFINE x == (k - 1) - b + j
  <2>1. x \in 1..(Len(P) - 1) /\ x + 1 = k - b + j
    OBVIOUS
  <2> HIDE DEF x
  <2>2. Below(P)[x] = P[x + 1]
    BY <2>1 DEF Below
  <2> QED
    BY <2>1, <2>2 DEF x
<1> QED
  BY <1>1 DEF Fits

\* A shorter fit is a border of a longer one.
LEMMA FitsInside ==
  ASSUME NEW P, NEW t, NEW i \in Nat, NEW c \in 0..i, NEW b \in 0..c, Fits(c, t, i, P)
  PROVE  Fits(b, t, i, P) <=> Fits(b, P, c, P)
<1>1. \A j \in 1..b : P[c - b + j] = t[i - b + j]
  <2> SUFFICES ASSUME NEW j \in 1..b
               PROVE  P[c - b + j] = t[i - b + j]
    OBVIOUS
  <2>1. c - b + j \in 1..c /\ i - c + (c - b + j) = i - b + j
    OBVIOUS
  <2> QED
    BY <2>1 DEF Fits
<1> QED
  BY <1>1 DEF Fits

NextFits(b, t, i, P) == P[b + 1] = t[i + 1]

\* A fit grows by a row if that row matches.
LEMMA FitsNext ==
  ASSUME NEW P, NEW t, NEW i \in Nat, NEW b \in 0..i
  PROVE  Fits(b + 1, t, i + 1, P) <=> Fits(b, t, i, P) /\ NextFits(b, t, i, P)
<1>1. \A j \in 1..(b + 1) : (i + 1) - (b + 1) + j = i - b + j
  OBVIOUS
<1>2. i - b + (b + 1) = i + 1 /\ \A j \in 1..(b + 1) : j \in 1..b \/ j = b + 1
  OBVIOUS
<1>3. \A j \in 1..b : j \in 1..(b + 1)
  OBVIOUS
<1>4. b + 1 \in 1..(b + 1)
  OBVIOUS
<1>5. ASSUME Fits(b + 1, t, i + 1, P)
      PROVE  Fits(b, t, i, P) /\ NextFits(b, t, i, P)
  BY <1>1, <1>2, <1>3, <1>4, <1>5 DEF Fits, NextFits
<1>6. ASSUME Fits(b, t, i, P), NextFits(b, t, i, P)
      PROVE  Fits(b + 1, t, i + 1, P)
  BY <1>1, <1>2, <1>6 DEF Fits, NextFits
<1> QED
  BY <1>5, <1>6

\* What the automaton falls back to: the longest border that c can follow, or none.
Follows(c, P, k) == k < Len(P) /\ c = P[k + 1]
FallsTo(g, q, c, P) ==
  /\ g \in 0..q /\ Fits(g, P, q, P) /\ (g = 0 \/ Follows(c, P, g))
  /\ \A b \in 0..q : Fits(b, P, q, P) /\ Follows(c, P, b) => b <= g

\* From q matched rows the automaton falls back to the longest that c can follow.
LEMMA FallBackIs ==
  ASSUME NEW P \in Seq(Rows), NEW q \in 0..Len(P), NEW c, NEW pi, Borders(pi, P, q)
  PROVE  FallsTo(FallBack(q, c, P, pi), q, c, P)
<1> DEFINE Stays(k) == k = 0 \/ (k < Len(P) /\ c = P[k + 1])
           f[k \in 0..q] == IF k = 0 \/ (k < Len(P) /\ c = P[k + 1]) THEN k ELSE f[pi[k]]
           Eq(g, n) == g = [k \in 0..n |-> IF Stays(k) THEN k ELSE g[pi[k]]]
           S == {n \in 0..q : \E g : Eq(g, n)}
<1>1. \A k \in 1..q : pi[k] \in 0..(k - 1) /\ Longest(pi[k], Below(P), k - 1, P)
  BY DEF Borders, Longest
<1>2. Eq(f, q)
  <2> HIDE DEF f, S
  <2>1. 0 \in S
    <3> DEFINE g == [k \in 0..0 |-> k]
    <3>1. Eq(g, 0)
      OBVIOUS
    <3>2. \E h : Eq(h, 0)
      BY <3>1
    <3> HIDE DEF Eq
    <3> QED
      BY <3>2 DEF S
  <2>2. ASSUME NEW n \in 0..q, n \in S, n < q
        PROVE  n + 1 \in S
    <3>1. PICK g : Eq(g, n)
      BY <2>2 DEF S
    <3> HIDE DEF Stays
    <3> DEFINE h == [k \in 0..(n + 1) |-> IF k # n + 1 THEN g[k] ELSE IF Stays(k) THEN k ELSE g[pi[k]]]
    <3>2. /\ \A k \in 0..n : h[k] = g[k]
          /\ h[n + 1] = IF Stays(n + 1) THEN n + 1 ELSE g[pi[n + 1]]
          /\ h = [k \in 0..(n + 1) |-> h[k]]
      OBVIOUS
    <3> HIDE DEF h
    <3>3. pi[n + 1] \in 0..n
      BY <1>1, <2>2
    <3>4. \A k \in 0..n : h[k] = IF Stays(k) THEN k ELSE h[pi[k]]
      <4> SUFFICES ASSUME NEW k \in 0..n
                   PROVE  h[k] = IF Stays(k) THEN k ELSE h[pi[k]]
        OBVIOUS
      <4>1. g[k] = IF Stays(k) THEN k ELSE g[pi[k]]
        BY <3>1
      <4>2. CASE Stays(k)
        BY <3>2, <4>1, <4>2
      <4>3. CASE ~Stays(k)
        <5>1. k \in 1..q
          BY <2>2, <4>3 DEF Stays
        <5>2. pi[k] \in 0..n
          BY <1>1, <2>2, <5>1
        <5> QED
          BY <3>2, <4>1, <4>3, <5>2
      <4> QED
        BY <4>2, <4>3
    <3>5. \A k \in 0..(n + 1) : h[k] = IF Stays(k) THEN k ELSE h[pi[k]]
      <4>1. \A k \in 0..(n + 1) : k \in 0..n \/ k = n + 1
        BY <2>2
      <4>2. h[n + 1] = IF Stays(n + 1) THEN n + 1 ELSE h[pi[n + 1]]
        BY <3>2, <3>3
      <4> QED
        BY <3>4, <4>1, <4>2
    <3>6. Eq(h, n + 1)
      BY <3>2, <3>5
    <3>7. n + 1 \in 0..q
      BY <2>2
    <3> QED
      BY <3>6, <3>7 DEF S
  <2>3. q \in S
    <3>1. \A n \in 0..q : n \in S /\ n < q => n + 1 \in S
      BY <2>2
    <3>2. q \in Nat /\ q \in 0..q
      OBVIOUS
    <3> QED
      BY <2>1, <3>1, <3>2, Inductive
  <2>4. PICK g : Eq(g, q)
    BY <2>3 DEF S
  <2> QED
    BY <2>4, Zenon DEF f
<1>3. FallBack(q, c, P, pi) = f[q]
  BY Zenon DEF FallBack
<1> HIDE DEF f, S
<1>4. \A k \in 0..q : f[k] = IF Stays(k) THEN k ELSE f[pi[k]]
  BY <1>2
<1> HIDE DEF Eq
<1> DEFINE T == {k \in 0..q : FallsTo(f[k], k, c, P)}
<1>5. ASSUME NEW k \in 0..q, \A n \in 0..q : n < k => n \in T
      PROVE  FallsTo(f[k], k, c, P)
  <2>1. CASE Stays(k)
    <3>1. f[k] = k
      BY <1>4, <2>1
    <3>2. Fits(k, P, k, P)
      BY DEF Fits
    <3> QED
      BY <2>1, <3>1, <3>2 DEF FallsTo, Follows
  <2>2. CASE ~Stays(k)
    <3> DEFINE n == pi[k]
    <3>1. /\ k \in 1..q /\ n \in 0..(k - 1) /\ Longest(n, Below(P), k - 1, P) /\ k \in 1..Len(P)
      BY <1>1, <2>2
    <3> HIDE DEF n
    <3>2. f[k] = f[n] /\ FallsTo(f[n], n, c, P)
      <4>1. n \in 0..q /\ n < k
        BY <3>1
      <4> QED
        BY <1>4, <1>5, <2>2, <4>1 DEF n
    <3>3. Fits(n, P, k, P) /\ \A b \in 0..(k - 1) : Fits(b, P, k, P) => b <= n
      <4>1. Fits(n, P, k, P)
        BY <3>1, BelowFits DEF Longest
      <4>2. ASSUME NEW b \in 0..(k - 1), Fits(b, P, k, P)
            PROVE  b <= n
        <5>1. Fits(b, Below(P), k - 1, P) /\ b \in 0..Len(P) /\ b <= k - 1
          BY <3>1, <4>2, BelowFits
        <5> QED
          BY <3>1, <5>1 DEF Longest
      <4> QED
        BY <4>1, <4>2
    <3>4. \A b \in 0..n : Fits(b, P, k, P) <=> Fits(b, P, n, P)
      BY <3>1, <3>3, FitsInside
    <3>5. ~Follows(c, P, k)
      BY <2>2 DEF Follows
    <3>6. f[n] \in 0..k /\ Fits(f[n], P, k, P) /\ (f[n] = 0 \/ Follows(c, P, f[n]))
      BY <3>1, <3>2, <3>4 DEF FallsTo
    <3>7. ASSUME NEW b \in 0..k, Fits(b, P, k, P), Follows(c, P, b)
          PROVE  b <= f[n]
      <4>1. b \in 0..(k - 1)
        BY <3>1, <3>5, <3>7
      <4>2. b \in 0..n
        BY <3>1, <3>3, <3>7, <4>1
      <4> QED
        BY <3>2, <3>4, <3>7, <4>2 DEF FallsTo
    <3> QED
      BY <3>2, <3>6, <3>7 DEF FallsTo
  <2> QED
    BY <2>1, <2>2
<1>6. \A k \in 0..q : (\A n \in 0..q : n < k => n \in T) => k \in T
  BY <1>5
<1> HIDE DEF T
<1>7. q \in T
  <2>1. q \in Nat /\ q \in 0..q
    OBVIOUS
  <2> QED
    BY <1>6, <2>1, StronglyInductive
<1> QED
  BY <1>3, <1>7 DEF T

\* One step of the automaton keeps the most rows that fit.
LEMMA AdvanceIs ==
  ASSUME NEW P \in Seq(Rows), NEW t, NEW i \in Nat, NEW q, Longest(q, t, i, P),
         NEW pi, Borders(pi, P, q)
  PROVE  Longest(Advance(q, t[i + 1], P, pi), t, i + 1, P)
<1> DEFINE c == t[i + 1]
           g == FallBack(q, c, P, pi)
           r == Advance(q, c, P, pi)
<1>1. q \in 0..Len(P) /\ q \in 0..i /\ Fits(q, t, i, P) /\ Len(P) \in Nat
  BY DEF Longest
<1>2. FallsTo(g, q, c, P)
  BY <1>1, FallBackIs
<1>3. r = IF Follows(c, P, g) THEN g + 1 ELSE g
  BY Zenon DEF Advance, Follows
<1> HIDE DEF g, r
<1>4. g \in 0..q /\ g \in 0..i /\ (g = 0 \/ Follows(c, P, g))
  BY <1>1, <1>2 DEF FallsTo
<1>5. Fits(g, t, i, P)
  BY <1>1, <1>2, <1>4, FitsInside DEF FallsTo
<1>6. ASSUME NEW b \in 0..Len(P), b # 0, b <= i + 1, Fits(b, t, i + 1, P)
      PROVE  b - 1 <= g /\ Follows(c, P, b - 1)
  <2>1. b - 1 \in 0..i /\ b - 1 \in 0..Len(P) /\ (b - 1) + 1 = b
    BY <1>6
  <2>2. Fits(b - 1, t, i, P) /\ P[b] = c
    <3> DEFINE d == b - 1
    <3>1. d \in 0..i /\ b = d + 1
      BY <2>1
    <3> HIDE DEF d
    <3>2. Fits(d + 1, t, i + 1, P)
      BY <1>6, <3>1
    <3>3. Fits(d + 1, t, i + 1, P) <=> Fits(d, t, i, P) /\ NextFits(d, t, i, P)
      BY <3>1, FitsNext
    <3> QED
      BY <3>1, <3>2, <3>3 DEF d, NextFits
  <2>3. b - 1 \in 0..q
    BY <2>1, <2>2, <1>1 DEF Longest
  <2>4. Fits(b - 1, P, q, P)
    BY <1>1, <2>2, <2>3, FitsInside
  <2>5. Follows(c, P, b - 1)
    BY <2>1, <2>2, <1>6 DEF Follows
  <2> QED
    BY <1>2, <2>3, <2>4, <2>5 DEF FallsTo
<1>7. CASE Follows(c, P, g)
  <2>1. r = g + 1 /\ g + 1 \in 0..Len(P) /\ g + 1 <= i + 1
    BY <1>1, <1>3, <1>4, <1>7 DEF Follows
  <2>2. Fits(r, t, i + 1, P)
    BY <1>4, <1>5, <1>7, <2>1, FitsNext DEF Follows, NextFits
  <2>3. \A b \in 0..Len(P) : b <= i + 1 /\ Fits(b, t, i + 1, P) => b <= r
    <3> SUFFICES ASSUME NEW b \in 0..Len(P), b <= i + 1, Fits(b, t, i + 1, P)
                 PROVE  b <= r
      OBVIOUS
    <3>1. b # 0 => b - 1 <= g
      BY <1>6
    <3> QED
      BY <2>1, <3>1, <1>4
  <2> QED
    BY <2>1, <2>2, <2>3 DEF Longest, r, c
<1>8. CASE ~Follows(c, P, g)
  <2>1. g = 0 /\ r = 0
    BY <1>3, <1>4, <1>8
  <2>2. Fits(0, t, i + 1, P)
    BY DEF Fits
  <2>3. \A b \in 0..Len(P) : b <= i + 1 /\ Fits(b, t, i + 1, P) => b <= 0
    <3> SUFFICES ASSUME NEW b \in 0..Len(P), b <= i + 1, Fits(b, t, i + 1, P), b # 0
                 PROVE  FALSE
      OBVIOUS
    <3>1. b - 1 <= 0 /\ Follows(c, P, b - 1)
      BY <1>6, <2>1
    <3>2. b - 1 = 0
      BY <3>1
    <3> QED
      BY <3>1, <3>2, <2>1, <1>8
  <2>4. 0 \in 0..Len(P) /\ 0 <= i + 1
    BY <1>1
  <2> QED
    BY <2>1, <2>2, <2>3, <2>4 DEF Longest, r, c
<1> QED
  BY <1>7, <1>8

\* The prefix function holds the longest proper border of every prefix.
LEMMA PrefixFunctionIs ==
  ASSUME NEW s \in Seq(Rows), s # <<>>
  PROVE  Borders(PrefixFunction(s), s, Len(s))
<1> DEFINE N == Len(s) - 1
           pi[i \in 0..(Len(s) - 1)] ==
             IF i = 0 THEN <<0>> ELSE Append(pi[i - 1], Advance(pi[i - 1][i], s[i + 1], s, pi[i - 1]))
           Eq(g) == g = [i \in 0..N |-> IF i = 0 THEN <<0>>
                                        ELSE Append(g[i - 1], Advance(g[i - 1][i], s[i + 1], s, g[i - 1]))]
           Good(i) == {v \in Seq(Nat) : Len(v) = i + 1 /\ Borders(v, s, i + 1)}
           Next1(i, v) == Append(v, Advance(v[i], s[i + 1], s, v))
           G == [i \in 0..N |-> Good(i)]
           F == [i \in 1..N |-> [v \in Good(i - 1) |-> Next1(i, v)]]
<1>1. N \in Nat /\ Len(s) \in Nat
  OBVIOUS
<1>2. ASSUME NEW i \in 1..N, NEW v \in Good(i - 1)
      PROVE  Next1(i, v) \in Good(i)
  <2> DEFINE r == Advance(v[i], s[i + 1], s, v)
  <2>1. v \in Seq(Nat) /\ Len(v) = i /\ Borders(v, s, i) /\ i - 1 \in Nat
    BY <1>1
  <2>2. Longest(v[i], Below(s), i - 1, s)
    BY <2>1, <1>1 DEF Borders
  <2>3. Borders(v, s, v[i])
    BY <2>1, <2>2 DEF Borders, Longest
  <2>4. Below(s)[i] = s[i + 1] /\ (i - 1) + 1 = i
    BY <1>1 DEF Below
  <2>5. Longest(r, Below(s), i, s)
    BY <2>1, <2>2, <2>3, <2>4, AdvanceIs
  <2>6. r \in Nat
    BY <2>5 DEF Longest
  <2> HIDE DEF r
  <2> DEFINE w == Append(v, r)
  <2>7. w \in Seq(Nat) /\ Len(w) = i + 1 /\ w[i + 1] = r /\ \A k \in 1..i : w[k] = v[k]
    BY <2>1, <2>6
  <2> HIDE DEF w
  <2>8. Borders(w, s, i + 1)
    <3> SUFFICES ASSUME NEW k \in 1..(i + 1)
                 PROVE  Longest(w[k], Below(s), k - 1, s)
      BY DEF Borders
    <3>1. CASE k = i + 1
      BY <2>5, <2>7, <3>1
    <3>2. CASE k # i + 1
      <4>1. k \in 1..i
        BY <3>2
      <4> QED
        BY <2>1, <2>7, <4>1 DEF Borders
    <3> QED
      BY <3>1, <3>2
  <2> QED
    BY <2>7, <2>8 DEF w, r
<1>3. <<0>> \in Good(0)
  <2>1. Longest(0, Below(s), 0, s)
    BY <1>1 DEF Longest, Fits
  <2>2. Borders(<<0>>, s, 1)
    BY <2>1 DEF Borders
  <2> QED
    BY <2>2
<1> HIDE DEF Good, Next1, pi, Eq, N
<1>4. IsStep(F, N, G)
  <2> SUFFICES ASSUME NEW i \in 1..N
               PROVE  F[i] \in [G[i - 1] -> G[i]]
    BY DEF IsStep
  <2>1. G[i - 1] = Good(i - 1) /\ G[i] = Good(i) /\ F[i] = [v \in Good(i - 1) |-> Next1(i, v)]
    BY <1>1
  <2> HIDE DEF F, G
  <2> QED
    BY <1>2, <2>1
<1>5. G[0] = Good(0) /\ G[N] = Good(N)
  BY <1>1
<1>6. \A i \in 1..N : F[i] = [v \in Good(i - 1) |-> Next1(i, v)] /\ G[i - 1] = Good(i - 1)
  BY <1>1
<1> HIDE DEF F, G
<1>7. PICK g : Iterates(g, N, G, <<0>>, F)
  BY <1>1, <1>3, <1>4, <1>5, PrimitiveRecursion
<1>8. \A i \in 1..N : g[i] = Next1(i, g[i - 1])
  <2> SUFFICES ASSUME NEW i \in 1..N
               PROVE  g[i] = Next1(i, g[i - 1])
    OBVIOUS
  <2>1. i - 1 \in 0..N
    BY <1>1
  <2>2. g[i] = F[i][g[i - 1]] /\ g[i - 1] \in Good(i - 1)
    BY <1>6, <1>7, <2>1 DEF Iterates
  <2> QED
    BY <1>6, <2>2
<1>9. Eq(g)
  <2>1. g = [i \in 0..N |-> IF i = 0 THEN g[0] ELSE Next1(i, g[i - 1])]
    <3>1. g = [i \in 0..N |-> g[i]]
      BY <1>7 DEF Iterates
    <3> DEFINE E(i) == Next1(i, g[i - 1])
    <3>2. \A i \in 1..N : g[i] = E(i)
      BY <1>8
    <3> HIDE DEF E
    <3>3. g = [i \in 0..N |-> IF i = 0 THEN g[0] ELSE E(i)]
      BY <1>1, <3>1, <3>2
    <3> QED
      BY <3>3 DEF E
  <2>2. g[0] = <<0>>
    BY <1>7 DEF Iterates
  <2> QED
    BY <2>1, <2>2, Zenon DEF Eq, Next1
<1>10. Eq(pi)
  BY <1>9, Zenon DEF Eq, pi, N
<1>11. pi[0] = <<0>> /\ \A i \in 1..N : pi[i] = Next1(i, pi[i - 1])
  <2> DEFINE start == <<0>>
  <2>1. pi = [i \in 0..N |-> IF i = 0 THEN start ELSE Next1(i, pi[i - 1])]
    BY <1>10, Zenon DEF Eq, Next1
  <2> HIDE DEF start
  <2>2. pi[0] = start /\ \A i \in 1..N : pi[i] = Next1(i, pi[i - 1])
    BY <1>1, <2>1
  <2> QED
    BY <2>2 DEF start
<1> DEFINE S == {n \in 0..N : pi[n] \in Good(n)}
<1>12. 0 \in S /\ \A n \in 0..N : n \in S /\ n < N => n + 1 \in S
  <2>1. ASSUME NEW n \in 0..N, pi[n] \in Good(n), n < N
        PROVE  pi[n + 1] \in Good(n + 1) /\ n + 1 \in 0..N
    <3>1. n + 1 \in 1..N /\ (n + 1) - 1 = n
      BY <1>1, <2>1
    <3> QED
      BY <1>2, <1>11, <2>1, <3>1
  <2> QED
    BY <1>1, <1>3, <1>11, <2>1
<1>13. pi[N] \in Good(N)
  <2> HIDE DEF S
  <2>1. N \in 0..N
    BY <1>1
  <2>2. N \in S
    BY <1>1, <1>12, <2>1, Inductive
  <2> QED
    BY <2>2 DEF S
<1>14. PrefixFunction(s) = pi[N]
  BY Zenon DEF PrefixFunction, pi, N
<1>15. N + 1 = Len(s)
  BY <1>1 DEF N
<1> QED
  BY <1>13, <1>14, <1>15 DEF Good

\* The scan finds the longest overlap.
LEMMA OverlapIs ==
  ASSUME NEW prior \in Seq(Rows), NEW current \in Seq(Rows), prior # <<>>, current # <<>>
  PROVE  Longest(ComputeOverlap(prior, current), prior, Len(prior), current)
<1> DEFINE N == Len(prior)
           pi == PrefixFunction(current)
           state[i \in 0..Len(prior)] ==
             IF i = 0 THEN 0 ELSE Advance(state[i - 1], prior[i], current, pi)
           Good(i) == {q \in 0..Len(current) : Longest(q, prior, i, current)}
           Step(i, q) == Advance(q, prior[i], current, pi)
           Eq(g) == g = [i \in 0..N |-> IF i = 0 THEN 0 ELSE Step(i, g[i - 1])]
           G == [i \in 0..N |-> Good(i)]
           F == [i \in 1..N |-> [q \in Good(i - 1) |-> Step(i, q)]]
<1>1. N \in Nat /\ N \in 0..N /\ N # 0 /\ Len(current) \in Nat
  OBVIOUS
<1>2. Borders(pi, current, Len(current))
  BY PrefixFunctionIs
<1> HIDE DEF pi
<1>3. ASSUME NEW i \in 1..N, NEW q \in Good(i - 1)
      PROVE  Step(i, q) \in Good(i)
  <2>1. i - 1 \in Nat /\ (i - 1) + 1 = i /\ q \in 0..Len(current) /\ Longest(q, prior, i - 1, current)
    BY <1>1
  <2>2. Borders(pi, current, q)
    BY <1>1, <1>2, <2>1 DEF Borders
  <2>3. Longest(Step(i, q), prior, i, current)
    BY <2>1, <2>2, AdvanceIs
  <2> QED
    BY <2>3 DEF Longest
<1>4. 0 \in Good(0)
  BY <1>1 DEF Longest, Fits
<1> HIDE DEF Good, Step, state, Eq, N
<1>5. IsStep(F, N, G)
  <2> SUFFICES ASSUME NEW i \in 1..N
               PROVE  F[i] \in [G[i - 1] -> G[i]]
    BY DEF IsStep
  <2>1. G[i - 1] = Good(i - 1) /\ G[i] = Good(i) /\ F[i] = [q \in Good(i - 1) |-> Step(i, q)]
    BY <1>1
  <2> HIDE DEF F, G
  <2> QED
    BY <1>3, <2>1
<1>6. G[0] = Good(0)
  BY <1>1
<1>7. \A i \in 1..N : F[i] = [q \in Good(i - 1) |-> Step(i, q)] /\ G[i - 1] = Good(i - 1)
  BY <1>1
<1> HIDE DEF F, G
<1>8. PICK g : Iterates(g, N, G, 0, F)
  BY <1>1, <1>4, <1>5, <1>6, PrimitiveRecursion
<1>9. \A i \in 1..N : g[i] = Step(i, g[i - 1])
  <2> SUFFICES ASSUME NEW i \in 1..N
               PROVE  g[i] = Step(i, g[i - 1])
    OBVIOUS
  <2>1. i - 1 \in 0..N
    BY <1>1
  <2>2. g[i] = F[i][g[i - 1]] /\ g[i - 1] \in Good(i - 1)
    BY <1>7, <1>8, <2>1 DEF Iterates
  <2> QED
    BY <1>7, <2>2
<1>10. Eq(g)
  <2> DEFINE E(i) == Step(i, g[i - 1])
  <2>1. g = [i \in 0..N |-> g[i]] /\ g[0] = 0
    BY <1>8 DEF Iterates
  <2>2. \A i \in 1..N : g[i] = E(i)
    BY <1>9
  <2> HIDE DEF E
  <2>3. g = [i \in 0..N |-> IF i = 0 THEN 0 ELSE E(i)]
    BY <1>1, <2>1, <2>2
  <2> QED
    BY <2>3 DEF E, Eq
<1>11. Eq(state)
  BY <1>10, Zenon DEF Eq, state, N, Step
<1>12. state[0] = 0 /\ \A i \in 1..N : state[i] = Step(i, state[i - 1])
  BY <1>1, <1>11 DEF Eq
<1> DEFINE S == {n \in 0..N : state[n] \in Good(n)}
<1>13. 0 \in S /\ \A n \in 0..N : n \in S /\ n < N => n + 1 \in S
  <2>1. ASSUME NEW n \in 0..N, state[n] \in Good(n), n < N
        PROVE  state[n + 1] \in Good(n + 1) /\ n + 1 \in 0..N
    <3>1. n + 1 \in 1..N /\ (n + 1) - 1 = n
      BY <1>1, <2>1
    <3> QED
      BY <1>3, <1>12, <2>1, <3>1
  <2> QED
    BY <1>1, <1>4, <1>12, <2>1
<1>14. Longest(state[N], prior, N, current)
  <2> HIDE DEF S
  <2>1. N \in S
    BY <1>1, <1>13, Inductive
  <2> QED
    BY <2>1 DEF S, Good
<1>15. CASE IsPrefix(prior, current)
  <2>1. ComputeOverlap(prior, current) = N
    BY <1>15 DEF ComputeOverlap, N
  <2>2. N <= Len(current) /\ SubSeq(prior, 1, N) = SubSeq(current, 1, N)
    BY <1>15 DEF IsPrefix, N
  <2>3. \A j \in 1..N : current[j] = prior[j]
    BY <1>1, <2>2 DEF N
  <2>4. Fits(N, prior, N, current)
    BY <1>1, <2>3 DEF Fits
  <2> QED
    BY <1>1, <2>1, <2>2, <2>4 DEF Longest, N
<1>16. CASE ~IsPrefix(prior, current)
  <2>1. ComputeOverlap(prior, current) = state[N]
    BY <1>16, Zenon DEF ComputeOverlap, N, state, pi
  <2> QED
    BY <1>14, <2>1 DEF N
<1> QED
  BY <1>15, <1>16

\* An overlap of captures is a fit of the later one at the end of the earlier.
LEMMA OverlapFits ==
  ASSUME NEW prior \in Seq(Rows), NEW current \in Seq(Rows),
         NEW k \in 0..Len(prior), k <= Len(current)
  PROVE  IsOverlap(k, prior, current) <=> Fits(k, prior, Len(prior), current)
<1> DEFINE N == Len(prior)
           a == SubSeq(prior, N - k + 1, N)
           b == SubSeq(current, 1, k)
<1>1. N \in Nat /\ k \in Nat /\ N - k + 1 \in 1..(N + 1) /\ Len(current) \in Nat
  OBVIOUS
<1>2. Len(a) = k /\ \A j \in 1..k : a[j] = prior[N - k + j]
  BY <1>1
<1>3. Len(b) = k /\ \A j \in 1..k : b[j] = current[j]
  BY <1>1
<1>4. a \in Seq(Rows) /\ b \in Seq(Rows)
  BY <1>1
<1>5. a = b <=> \A j \in 1..k : a[j] = b[j]
  <2> HIDE DEF a, b
  <2> QED
    BY <1>2, <1>3, <1>4
<1>6. Fits(k, prior, N, current) <=> \A j \in 1..k : current[j] = prior[N - k + j]
  BY DEF Fits
<1>7. IsOverlap(k, prior, current) <=> a = b
  BY DEF IsOverlap
<1> HIDE DEF a, b
<1> QED
  BY <1>2, <1>3, <1>5, <1>6, <1>7

Shorter(prior, current) == IF Len(prior) < Len(current) THEN Len(prior) ELSE Len(current)

\* What compute_capture_overlap promises, for any two captures.
LEMMA OverlapFacts ==
  ASSUME NEW prior \in Seq(Rows), NEW current \in Seq(Rows), prior # <<>>, current # <<>>
  PROVE  LET k == ComputeOverlap(prior, current)
         IN  /\ k \in 0..Shorter(prior, current) /\ IsOverlap(k, prior, current)
             /\ \A m \in (k + 1)..Shorter(prior, current) : ~IsOverlap(m, prior, current)
<1> DEFINE k == ComputeOverlap(prior, current)
           n == Shorter(prior, current)
<1>1. n \in Nat /\ n <= Len(prior) /\ n <= Len(current) /\ (n = Len(prior) \/ n = Len(current))
  BY DEF Shorter
<1>2. Longest(k, prior, Len(prior), current)
  BY OverlapIs
<1> HIDE DEF k, n
<1>3. k \in 0..n /\ k \in 0..Len(prior) /\ k <= Len(current)
  BY <1>1, <1>2 DEF Longest
<1>4. IsOverlap(k, prior, current)
  BY <1>2, <1>3, OverlapFits DEF Longest
<1>5. ASSUME NEW m \in (k + 1)..n, IsOverlap(m, prior, current)
      PROVE  FALSE
  <2>1. m \in 0..Len(prior) /\ m <= Len(current) /\ m \in 0..Len(current) /\ m > k
    BY <1>1, <1>3
  <2>2. Fits(m, prior, Len(prior), current)
    BY <1>5, <2>1, OverlapFits
  <2> QED
    BY <1>2, <1>3, <2>1, <2>2 DEF Longest
<1> QED
  BY <1>3, <1>4, <1>5 DEF k, n

\* There is no other number that is the longest overlap.
LEMMA OverlapUnique ==
  ASSUME NEW prior \in Seq(Rows), NEW current \in Seq(Rows), prior # <<>>, current # <<>>
  PROVE  LET shorter == IF Len(prior) < Len(current) THEN Len(prior) ELSE Len(current)
         IN ComputeOverlap(prior, current) =
              CHOOSE k \in 0..shorter :
                /\ IsOverlap(k, prior, current)
                /\ \A m \in (k + 1)..shorter : ~IsOverlap(m, prior, current)
<1> DEFINE n == Shorter(prior, current)
           o == ComputeOverlap(prior, current)
           Is(k) == /\ IsOverlap(k, prior, current)
                    /\ \A m \in (k + 1)..n : ~IsOverlap(m, prior, current)
<1>1. o \in 0..n /\ Is(o) /\ n \in Nat
  BY OverlapFacts DEF Shorter
<1>2. ASSUME NEW k \in 0..n, Is(k)
      PROVE  k = o
  <2>1. ~(o < k) /\ ~(k < o)
    <3>1. o < k => k \in (o + 1)..n
      BY <1>1
    <3>2. k < o => o \in (k + 1)..n
      BY <1>1
    <3> QED
      BY <1>1, <1>2, <3>1, <3>2
  <2> QED
    BY <1>1, <2>1
<1> HIDE DEF Is, o, n
<1>3. o = CHOOSE k \in 0..n : Is(k)
  BY <1>1, <1>2
<1> QED
  BY <1>3, Zenon DEF Is, o, n, Shorter

-----------------------------------------------------------------------------
(* Extraction between the markers, and slices. *)

\* Rows a to z of a text.
LEMMA PartIs ==
  ASSUME NEW s \in Seq(Rows), NEW a \in 1..(Len(s) + 1), NEW z \in (a - 1)..Len(s)
  PROVE  /\ SubSeq(s, a, z) \in Seq(Rows) /\ Len(SubSeq(s, a, z)) = z - a + 1
         /\ \A i \in 1..(z - a + 1) : SubSeq(s, a, z)[i] = s[a - 1 + i]
  OBVIOUS

\* The first row with a marker, or 0.
LEMMA FirstOfIs ==
  ASSUME NEW s, Len(s) \in Nat, NEW tag
  PROVE  LET p == FirstOf(tag, s)
         IN  \/ p = 0 /\ \A i \in 1..Len(s) : s[i] # Marker(tag)
             \/ p \in 1..Len(s) /\ s[p] = Marker(tag) /\ \A i \in 1..(p - 1) : s[i] # Marker(tag)
<1> DEFINE I == {i \in 1..Len(s) : s[i] = Marker(tag)}
           p == FirstOf(tag, s)
<1>1. p = IF I # {} THEN Min(I) ELSE 0
  BY Zenon DEF FirstOf, SelectInSeq
<1> HIDE DEF p
<1>2. CASE I = {}
  BY <1>1, <1>2 DEF p
<1>3. CASE I # {}
  <2>0. I \in SUBSET Nat
    OBVIOUS
  <2>1. Min(I) \in I /\ \A k \in I : Min(I) <= k
    <3> HIDE DEF I
    <3>1. \E m \in I : \A k \in I : m <= k
      BY <1>3, <2>0, Least
    <3> QED
      BY <3>1 DEF Min
  <2>2. p \in I /\ \A k \in I : p <= k
    BY <1>1, <1>3, <2>1
  <2>3. \A i \in 1..(p - 1) : i \in 1..Len(s) /\ ~(p <= i)
    BY <2>2
  <2> QED
    BY <2>2, <2>3 DEF p
<1> QED
  BY <1>2, <1>3

\* BEGIN is at b and the next END at e, or is missing and e is below the last row.
Between(s, b, e) ==
  /\ b \in 1..Len(s) /\ s[b] = Marker("BEGIN") /\ \A i \in 1..(b - 1) : s[i] # Marker("BEGIN")
  /\ e \in (b + 1)..(Len(s) + 1) /\ \A i \in (b + 1)..(e - 1) : s[i] # Marker("END")
  /\ e <= Len(s) => s[e] = Marker("END")

\* The text between the markers starts at the first BEGIN.
LEMMA BeginIsFirst ==
  ASSUME NEW s \in Seq(Rows), NEW b, NEW e, Between(s, b, e)
  PROVE  FirstOf("BEGIN", s) = b
<1> DEFINE p == FirstOf("BEGIN", s)
<1>1. \/ p = 0 /\ \A i \in 1..Len(s) : s[i] # Marker("BEGIN")
      \/ p \in 1..Len(s) /\ s[p] = Marker("BEGIN") /\ \A i \in 1..(p - 1) : s[i] # Marker("BEGIN")
  BY FirstOfIs
<1> HIDE DEF p
<1>2. b \in 1..Len(s) /\ s[b] = Marker("BEGIN") /\ \A i \in 1..(b - 1) : s[i] # Marker("BEGIN")
  BY DEF Between
<1>3. p \in 1..Len(s) /\ ~(p < b) /\ ~(b < p)
  <2>1. p \in 1..Len(s)
    BY <1>1, <1>2
  <2>2. p < b => p \in 1..(b - 1)
    BY <1>2, <2>1
  <2>3. b < p => b \in 1..(p - 1)
    BY <1>2, <2>1
  <2> QED
    BY <1>1, <1>2, <2>1, <2>2, <2>3
<1>4. p = b
  BY <1>2, <1>3
<1> QED
  BY <1>4 DEF p

\* extract_between_markers returns what is between BEGIN and END.
LEMMA ExtractIs ==
  ASSUME NEW s \in Seq(Rows), NEW b, NEW e, Between(s, b, e)
  PROVE  ExtractBetweenMarkers(s) = [begin |-> TRUE, end |-> e <= Len(s), body |-> SubSeq(s, b + 1, e - 1)]
<1> DEFINE N == Len(s)
           rest == SubSeq(s, b + 1, N)
           p == FirstOf("END", rest)
<1>1. N \in Nat /\ b \in 1..N /\ e \in (b + 1)..(N + 1)
  BY DEF Between
<1>2. rest \in Seq(Rows) /\ Len(rest) = N - b /\ \A i \in 1..(N - b) : rest[i] = s[b + i]
  BY <1>1
<1> HIDE DEF rest
<1>3. \/ p = 0 /\ \A i \in 1..(N - b) : rest[i] # Marker("END")
      \/ p \in 1..(N - b) /\ rest[p] = Marker("END") /\ \A i \in 1..(p - 1) : rest[i] # Marker("END")
  <2>1. N - b \in Nat
    BY <1>1
  <2> QED
    BY <1>2, <2>1, FirstOfIs
<1> HIDE DEF p, N
<1>4. \A i \in 1..(e - b - 1) : rest[i] # Marker("END")
  <2> SUFFICES ASSUME NEW i \in 1..(e - b - 1)
               PROVE  rest[i] # Marker("END")
    OBVIOUS
  <2>1. b + i \in (b + 1)..(e - 1) /\ i \in 1..(N - b)
    BY <1>1
  <2> QED
    BY <1>2, <2>1 DEF Between
<1>5. ExtractBetweenMarkers(s) =
        [begin |-> TRUE, end |-> p # 0, body |-> IF p = 0 THEN rest ELSE SubSeq(rest, 1, p - 1)]
  <2>1. FirstOf("BEGIN", s) = b /\ b # 0
    BY <1>1, BeginIsFirst
  <2> QED
    BY <2>1, Zenon DEF ExtractBetweenMarkers, rest, p, N
<1>6. CASE e = N + 1
  <2>1. p = 0
    <3>1. e - b - 1 = N - b
      BY <1>1, <1>6
    <3> QED
      BY <1>3, <1>4, <3>1
  <2>2. rest = SubSeq(s, b + 1, e - 1) /\ ~(e <= N)
    <3>1. e - 1 = N
      BY <1>1, <1>6
    <3> QED
      BY <1>1, <1>6, <3>1 DEF rest
  <2>3. (p # 0) = (e <= N)
    BY <2>1, <2>2
  <2>4. (IF p = 0 THEN rest ELSE SubSeq(rest, 1, p - 1)) = SubSeq(s, b + 1, e - 1)
    BY <2>1, <2>2
  <2> QED
    BY <1>5, <2>3, <2>4 DEF N
<1>7. CASE e # N + 1
  <2>1. e <= N /\ e - b \in 1..(N - b) /\ s[e] = Marker("END")
    BY <1>1, <1>7 DEF Between, N
  <2>2. rest[e - b] = Marker("END")
    <3>1. b + (e - b) = e
      BY <1>1
    <3> QED
      BY <1>2, <2>1, <3>1
  <2>3. p = e - b
    <3>1. p \in 1..(N - b)
      BY <1>3, <2>1, <2>2
    <3>2. ~(p < e - b)
      <4>1. p < e - b => p \in 1..(e - b - 1)
        BY <1>1, <3>1
      <4> QED
        BY <1>3, <1>4, <3>1, <4>1
    <3>3. ~(e - b < p)
      <4>1. e - b < p => e - b \in 1..(p - 1)
        BY <1>1, <3>1
      <4> QED
        BY <1>3, <2>2, <3>1, <4>1
    <3> QED
      BY <1>1, <3>1, <3>2, <3>3
  <2>4. SubSeq(rest, 1, p - 1) = SubSeq(s, b + 1, e - 1)
    <3> DEFINE u == SubSeq(rest, 1, p - 1)
               v == SubSeq(s, b + 1, e - 1)
    <3>1. u \in Seq(Rows) /\ Len(u) = e - b - 1 /\ \A i \in 1..(e - b - 1) : u[i] = rest[i]
      BY <1>1, <1>2, <2>1, <2>3
    <3>2. v \in Seq(Rows) /\ Len(v) = e - b - 1 /\ \A i \in 1..(e - b - 1) : v[i] = s[b + i]
      BY <1>1, <2>1 DEF N
    <3>3. \A i \in 1..(e - b - 1) : rest[i] = s[b + i]
      BY <1>1, <1>2, <2>1
    <3> HIDE DEF u, v
    <3>4. u = v
      BY <3>1, <3>2, <3>3
    <3> QED
      BY <3>4 DEF u, v
  <2>5. p # 0
    BY <1>1, <2>3
  <2> QED
    BY <1>5, <2>1, <2>4, <2>5 DEF N
<1> QED
  BY <1>6, <1>7

\* A text that has BEGIN has text between the markers.
LEMMA BetweenExists ==
  ASSUME NEW s \in Seq(Rows), Contains(s, Marker("BEGIN"))
  PROVE  \E b, e : Between(s, b, e)
<1> DEFINE N == Len(s)
           b == FirstOf("BEGIN", s)
           rest == SubSeq(s, b + 1, N)
           p == FirstOf("END", rest)
<1>1. N \in Nat /\ b \in 1..N /\ s[b] = Marker("BEGIN") /\ \A i \in 1..(b - 1) : s[i] # Marker("BEGIN")
  BY FirstOfIs DEF Contains
<1> HIDE DEF b
<1>2. rest \in Seq(Rows) /\ Len(rest) = N - b /\ \A i \in 1..(N - b) : rest[i] = s[b + i]
  <2>1. b + 1 \in 1..(N + 1) /\ N \in ((b + 1) - 1)..N /\ N - (b + 1) + 1 = N - b /\ (b + 1) - 1 = b
    BY <1>1
  <2> QED
    BY <2>1, PartIs
<1> HIDE DEF rest, N
<1>3. \/ p = 0 /\ \A i \in 1..(N - b) : rest[i] # Marker("END")
      \/ p \in 1..(N - b) /\ rest[p] = Marker("END") /\ \A i \in 1..(p - 1) : rest[i] # Marker("END")
  <2>1. N - b \in Nat
    BY <1>1
  <2> QED
    BY <1>2, <2>1, FirstOfIs
<1> HIDE DEF p
<1> DEFINE e == IF p = 0 THEN N + 1 ELSE b + p
<1>4. e \in (b + 1)..(N + 1) /\ (e <= N <=> p # 0) /\ (p # 0 => e = b + p) /\ (p = 0 => e = N + 1)
  BY <1>1, <1>3
<1> HIDE DEF e
<1>5. \A i \in (b + 1)..(e - 1) : s[i] # Marker("END")
  <2> SUFFICES ASSUME NEW i \in (b + 1)..(e - 1)
               PROVE  s[i] # Marker("END")
    OBVIOUS
  <2> DEFINE k == i - b
  <2>1. k \in 1..(N - b) /\ b + k = i /\ (p # 0 => k \in 1..(p - 1))
    BY <1>1, <1>3, <1>4
  <2> HIDE DEF k
  <2> QED
    BY <1>2, <1>3, <2>1
<1>6. e <= N => s[e] = Marker("END")
  BY <1>2, <1>3, <1>4
<1>7. Between(s, b, e)
  BY <1>1, <1>4, <1>5, <1>6 DEF Between, N
<1> QED
  BY <1>7

\* A text without BEGIN has none.
LEMMA ExtractNothing ==
  ASSUME NEW s \in Seq(Rows), ~Contains(s, Marker("BEGIN"))
  PROVE  ExtractBetweenMarkers(s) = Nothing
<1>1. FirstOf("BEGIN", s) = 0
  BY FirstOfIs DEF Contains
<1> QED
  BY <1>1, Zenon DEF ExtractBetweenMarkers

\* There is one slice of a text, and one phase it ends in.
LEMMA SliceUnique ==
  ASSUME NEW s \in Seq(Rows), NEW phase, NEW at, NEW text, PhaseAt(s, at), TextAt(s, at, phase, text)
  PROVE  /\ Slice(s, phase) = text[Len(s)]
         /\ \A bt : PhaseAt(s, bt) => bt[Len(s)] = at[Len(s)]
<1> DEFINE N == Len(s)
<1>0. N \in Nat /\ N \in 0..N
  OBVIOUS
<1> HIDE DEF N
<1>1. ASSUME NEW bt, PhaseAt(s, bt)
      PROVE  \A n \in 0..N : bt[n] = at[n]
  <2> DEFINE S == {n \in 0..N : bt[n] = at[n]}
  <2>1. 0 \in S
    BY <1>0, <1>1 DEF PhaseAt
  <2>2. ASSUME NEW n \in 0..N, n \in S, n < N
        PROVE  n + 1 \in S
    <3>1. n + 1 \in 1..N /\ n + 1 \in 0..N /\ (n + 1) - 1 = n
      BY <1>0, <2>2
    <3>2. bt[n + 1] = at[n + 1]
      BY <1>1, <2>2, <3>1 DEF PhaseAt, N
    <3> QED
      BY <3>1, <3>2
  <2>3. \A n \in 0..N : n \in S
    <3> HIDE DEF S
    <3>1. \A n \in 0..N : n \in S /\ n < N => n + 1 \in S
      BY <2>2
    <3> QED
      BY <1>0, <2>1, <3>1, Inductive
  <2> QED
    BY <2>3
<1>2. PICK bt, u : PhaseAt(s, bt) /\ TextAt(s, bt, phase, u) /\ Slice(s, phase) = u[N]
  BY SliceIs DEF N
<1>3. \A n \in 0..N : Passed(s, bt, phase, n) = Passed(s, at, phase, n)
  BY <1>1, <1>2 DEF Passed
<1> DEFINE T == {n \in 0..N : u[n] = text[n]}
<1>4. 0 \in T
  BY <1>0, <1>2 DEF TextAt
<1>5. ASSUME NEW n \in 0..N, n \in T, n < N
      PROVE  n + 1 \in T
  <2>1. n + 1 \in 1..N /\ n + 1 \in 0..N /\ (n + 1) - 1 = n
    BY <1>0, <1>5
  <2>2. u[n + 1] = IF Passed(s, bt, phase, n + 1) THEN u[n] ELSE Append(u[n], s[n + 1])
    BY <1>2, <2>1 DEF TextAt, N
  <2>3. text[n + 1] = IF Passed(s, at, phase, n + 1) THEN text[n] ELSE Append(text[n], s[n + 1])
    BY <2>1 DEF TextAt, N
  <2> QED
    BY <1>3, <1>5, <2>1, <2>2, <2>3
<1>6. \A n \in 0..N : n \in T
  <2> HIDE DEF T
  <2>1. \A n \in 0..N : n \in T /\ n < N => n + 1 \in T
    BY <1>5
  <2> QED
    BY <1>0, <1>4, <2>1, Inductive
<1> QED
  BY <1>0, <1>1, <1>2, <1>6 DEF N

\* A slice is a text.
LEMMA SliceType ==
  ASSUME NEW s \in Seq(Rows), NEW phase
  PROVE  Slice(s, phase) \in Seq(Rows)
<1>1. PICK at, text : TextAt(s, at, phase, text) /\ Slice(s, phase) = text[Len(s)]
  BY SliceIs
<1>2. Len(s) \in 0..Len(s)
  OBVIOUS
<1> QED
  BY <1>1, <1>2 DEF TextAt

\* A slice holds rows of its text, and no token.
LEMMA SliceRows ==
  ASSUME NEW s \in Seq(Rows), NEW phase, NEW i \in 1..Len(Slice(s, phase))
  PROVE  /\ ~IsToken(Slice(s, phase)[i])
         /\ \E j \in 1..Len(s) : s[j] = Slice(s, phase)[i]
<1> DEFINE N == Len(s)
           Ok(row) == ~IsToken(row) /\ \E j \in 1..N : s[j] = row
<1>0. N \in Nat /\ N \in 0..N
  OBVIOUS
<1> HIDE DEF N
<1>1. PICK at, text : TextAt(s, at, phase, text) /\ Slice(s, phase) = text[N]
  BY SliceIs DEF N
<1> DEFINE S == {n \in 0..N : \A k \in 1..Len(text[n]) : Ok(text[n][k])}
<1>2. 0 \in S
  <2>1. text[0] = <<>>
    BY <1>1 DEF TextAt
  <2> QED
    BY <1>0, <2>1
<1>3. ASSUME NEW n \in 0..N, n \in S, n < N
      PROVE  n + 1 \in S
  <2>1. n + 1 \in 1..N /\ n + 1 \in 0..N /\ (n + 1) - 1 = n
    BY <1>0, <1>3
  <2>2. text[n + 1] = IF Passed(s, at, phase, n + 1) THEN text[n] ELSE Append(text[n], s[n + 1])
    BY <1>1, <2>1 DEF TextAt, N
  <2>3. CASE Passed(s, at, phase, n + 1)
    BY <1>3, <2>1, <2>2, <2>3
  <2>4. CASE ~Passed(s, at, phase, n + 1)
    <3> DEFINE v == text[n]
               row == s[n + 1]
               w == text[n + 1]
    <3>1. v \in Seq(Rows) /\ row \in Rows
      BY <1>1, <2>1 DEF TextAt, N
    <3>2. Ok(row)
      BY <2>1, <2>4 DEF Passed
    <3>3. w = Append(v, row) /\ \A k \in 1..Len(v) : Ok(v[k])
      BY <1>3, <2>2, <2>4
    <3> HIDE DEF Ok, v, row, w
    <3>4. \A k \in 1..Len(w) : Ok(w[k])
      BY <3>1, <3>2, <3>3
    <3> QED
      BY <2>1, <3>4 DEF w
  <2> QED
    BY <2>3, <2>4
<1>4. N \in S
  <2> HIDE DEF S
  <2>1. \A n \in 0..N : n \in S /\ n < N => n + 1 \in S
    BY <1>3
  <2> QED
    BY <1>0, <1>2, <2>1, Inductive
<1> QED
  BY <1>1, <1>4 DEF N

\* The phase that the text below s belongs to.
EndsIn(s, phase) == \E at : PhaseAt(s, at) /\ at[Len(s)] = phase

\* No rows have empty slices, and what follows them is stdout.
LEMMA SliceNothing ==
  ASSUME NEW phase
  PROVE  Slice(<<>>, phase) = <<>> /\ EndsIn(<<>>, "stdout")
<1>1. PICK at, text : PhaseAt(<<>>, at) /\ TextAt(<<>>, at, phase, text) /\ Slice(<<>>, phase) = text[Len(<<>>)]
  <2>1. <<>> \in Seq(Rows)
    OBVIOUS
  <2> QED
    BY <2>1, SliceIs
<1>2. Len(<<>>) = 0
  OBVIOUS
<1> QED
  BY <1>1, <1>2 DEF EndsIn, PhaseAt, TextAt

\* A row goes to the phase that the rows above it end in.
LEMMA SliceAppend ==
  ASSUME NEW s \in Seq(Rows), NEW row \in Rows, NEW now, EndsIn(s, now), NEW phase
  PROVE  /\ EndsIn(Append(s, row), IF IsToken(row) THEN PhaseAfter(row.tag) ELSE now)
         /\ Slice(Append(s, row), phase) =
              IF IsToken(row) \/ now # phase THEN Slice(s, phase) ELSE Append(Slice(s, phase), row)
<1> DEFINE N == Len(s)
           t == Append(s, row)
<1>1. N \in Nat /\ N \in 0..N /\ t \in Seq(Rows) /\ Len(t) = N + 1 /\ t[N + 1] = row /\ \A i \in 1..N : t[i] = s[i]
  OBVIOUS
<1> HIDE DEF t
<1>2. PICK at, text : PhaseAt(t, at) /\ TextAt(t, at, phase, text) /\ Slice(t, phase) = text[N + 1]
  BY <1>1, SliceIs
<1> HIDE DEF N
<1> DEFINE bt == [i \in 0..N |-> at[i]]
           u == [i \in 0..N |-> text[i]]
<1>3. \A i \in 0..N : bt[i] = at[i] /\ u[i] = text[i]
  OBVIOUS
<1>4. bt \in [0..N -> PhaseNames] /\ u \in [0..N -> Seq(Rows)]
  BY <1>1, <1>2 DEF PhaseAt, TextAt
<1> HIDE DEF bt, u
<1>5. PhaseAt(s, bt)
  <2>1. \A i \in 1..N : bt[i] = IF IsToken(s[i]) THEN PhaseAfter(s[i].tag) ELSE bt[i - 1]
    <3> SUFFICES ASSUME NEW i \in 1..N
                 PROVE  bt[i] = IF IsToken(s[i]) THEN PhaseAfter(s[i].tag) ELSE bt[i - 1]
      OBVIOUS
    <3>1. i \in 0..N /\ i - 1 \in 0..N /\ i \in 1..(N + 1)
      BY <1>1
    <3>2. at[i] = IF IsToken(t[i]) THEN PhaseAfter(t[i].tag) ELSE at[i - 1]
      BY <1>1, <1>2, <3>1 DEF PhaseAt
    <3> QED
      BY <1>1, <1>3, <3>1, <3>2
  <2>2. bt[0] = "stdout"
    BY <1>1, <1>2, <1>3 DEF PhaseAt
  <2> QED
    BY <1>4, <2>1, <2>2 DEF PhaseAt, N
<1>6. TextAt(s, bt, phase, u)
  <2>1. \A i \in 1..N : u[i] = IF Passed(s, bt, phase, i) THEN u[i - 1] ELSE Append(u[i - 1], s[i])
    <3> SUFFICES ASSUME NEW i \in 1..N
                 PROVE  u[i] = IF Passed(s, bt, phase, i) THEN u[i - 1] ELSE Append(u[i - 1], s[i])
      OBVIOUS
    <3>1. i \in 0..N /\ i - 1 \in 0..N /\ i \in 1..(N + 1)
      BY <1>1
    <3>2. text[i] = IF Passed(t, at, phase, i) THEN text[i - 1] ELSE Append(text[i - 1], t[i])
      BY <1>1, <1>2, <3>1 DEF TextAt
    <3>3. Passed(t, at, phase, i) = Passed(s, bt, phase, i)
      BY <1>1, <1>3, <3>1 DEF Passed
    <3> QED
      BY <1>1, <1>3, <3>1, <3>2, <3>3
  <2>2. u[0] = <<>>
    BY <1>1, <1>2, <1>3 DEF TextAt
  <2> QED
    BY <1>4, <2>1, <2>2 DEF TextAt, N
<1>7. Slice(s, phase) = text[N] /\ at[N] = now
  <2>1. Slice(s, phase) = u[N] /\ \A ct : PhaseAt(s, ct) => ct[N] = bt[N]
    BY <1>5, <1>6, SliceUnique DEF N
  <2>2. bt[N] = now
    BY <2>1 DEF EndsIn, N
  <2> QED
    BY <1>1, <1>3, <2>1, <2>2
<1>8. N + 1 \in 1..(N + 1) /\ (N + 1) - 1 = N
  BY <1>1
<1>9. at[N + 1] = IF IsToken(row) THEN PhaseAfter(row.tag) ELSE now
  BY <1>1, <1>2, <1>7, <1>8 DEF PhaseAt
<1>10. EndsIn(t, at[N + 1])
  BY <1>1, <1>2 DEF EndsIn
<1>11. text[N + 1] = IF Passed(t, at, phase, N + 1) THEN text[N] ELSE Append(text[N], row)
  BY <1>1, <1>2, <1>8 DEF TextAt
<1>12. Passed(t, at, phase, N + 1) <=> IsToken(row) \/ now # phase
  <2>1. ~IsToken(row) => at[N + 1] = now
    BY <1>9
  <2> QED
    BY <1>1, <2>1 DEF Passed
<1> QED
  BY <1>2, <1>7, <1>9, <1>10, <1>11, <1>12 DEF t

-----------------------------------------------------------------------------
(* Truncation and compaction. *)

\* What truncation leaves is rows of s below at most one note, in TailLines + 1 rows.
LEMMA TruncateTailIs ==
  ASSUME NEW S \in SUBSET Rows, \A n \in Nat : Omitted(n) \in S, NEW s \in Seq(S)
  PROVE  TruncateTail(s) \in Seq(S) /\ Len(TruncateTail(s)) <= TailLines + 1
<1>1. TailLines \in Nat \ {0}
  BY SizesAssumption
<1>2. CASE Len(s) <= TailLines
  BY <1>1, <1>2 DEF TruncateTail
<1>3. CASE ~(Len(s) <= TailLines)
  <2> DEFINE n == Len(s) - TailLines
             u == SubSeq(s, n + 1, Len(s))
  <2>1. n \in Nat /\ n + 1 \in 1..Len(s) /\ Len(s) \in Nat
    BY <1>1, <1>3
  <2>2. u \in Seq(S) /\ Len(u) = TailLines
    BY <1>1, <2>1
  <2>3. TruncateTail(s) = <<Omitted(n)>> \o u
    BY <1>3, Zenon DEF TruncateTail
  <2> HIDE DEF n, u
  <2>4. <<Omitted(n)>> \in Seq(S) /\ Len(<<Omitted(n)>>) = 1
    <3>1. Omitted(n) \in S
      BY <2>1
    <3> HIDE DEF Omitted
    <3> QED
      BY <3>1
  <2> QED
    BY <1>1, <2>2, <2>3, <2>4
<1> QED
  BY <1>2, <1>3

\* The slice of a phase, truncated.
LEMMA KeptIs ==
  ASSUME NEW S \in SUBSET Rows, \A n \in Nat : Omitted(n) \in S, NEW s \in Seq(S), NEW phase
  PROVE  /\ TruncateTail(Slice(s, phase)) \in Seq(S)
         /\ Len(TruncateTail(Slice(s, phase))) <= TailLines + 1
<1> DEFINE t == Slice(s, phase)
<1>1. s \in Seq(Rows)
  OBVIOUS
<1>2. t \in Seq(Rows)
  BY <1>1, SliceType
<1>3. \A i \in 1..Len(t) : t[i] \in S
  <2> SUFFICES ASSUME NEW i \in 1..Len(t)
               PROVE  t[i] \in S
    OBVIOUS
  <2>1. PICK j \in 1..Len(s) : s[j] = t[i]
    BY <1>1, SliceRows
  <2> QED
    BY <2>1
<1>4. t \in Seq(S)
  <2> HIDE DEF t
  <2> QED
    BY <1>2, <1>3
<1> HIDE DEF t
<1>5. TruncateTail(t) \in Seq(S) /\ Len(TruncateTail(t)) <= TailLines + 1
  BY <1>4, TruncateTailIs
<1> QED
  BY <1>5 DEF t

\* The parts of a compacted accumulator.
MarkerIf(tag, s, rest) == IF Contains(s, Marker(tag)) THEN <<Marker(tag)>> \o rest ELSE <<>>
KeptOf(found, p) == TruncateTail(Slice(found.body, p))
EndOf(s) == MarkerIf("END", s, <<>>)
ThrownOf(found, s) ==
  MarkerIf("ERROR", s, KeptOf(found, "error") \o MarkerIf("BT", s, KeptOf(found, "backtrace")))
ValueOf(found, s) == MarkerIf("OUT_END", s, KeptOf(found, "value") \o MarkerIf("VAL_END", s, <<>>))
RestOf(found, s) == IF Contains(s, Marker("ERROR")) THEN ThrownOf(found, s) ELSE ValueOf(found, s)

\* The compacted accumulator: BEGIN, stdout, one of two endings, END.
LEMMA CompactParts ==
  ASSUME NEW found, NEW s
  PROVE  Compact(found, s) =
           <<Marker("BEGIN")>> \o KeptOf(found, "stdout") \o RestOf(found, s) \o EndOf(s)
BY Zenon DEF Compact, RestOf, ThrownOf, ValueOf, EndOf, KeptOf, MarkerIf

\* A marker is above its part if s has it, else there is nothing.
LEMMA MarkerIfIs ==
  ASSUME NEW S \in SUBSET Rows, NEW s \in Seq(S), NEW tag, NEW rest \in Seq(S)
  PROVE  /\ MarkerIf(tag, s, rest) \in Seq(S)
         /\ Contains(s, Marker(tag)) =>
              /\ Len(MarkerIf(tag, s, rest)) = Len(rest) + 1
              /\ MarkerIf(tag, s, rest)[1] = Marker(tag)
         /\ ~Contains(s, Marker(tag)) => MarkerIf(tag, s, rest) = <<>>
<1>1. CASE Contains(s, Marker(tag))
  <2> DEFINE m == Marker(tag)
  <2>1. m \in S
    BY <1>1 DEF Contains
  <2>2. MarkerIf(tag, s, rest) = <<m>> \o rest
    BY <1>1, Zenon DEF MarkerIf
  <2> HIDE DEF m
  <2>3. <<m>> \o rest \in Seq(S) /\ Len(<<m>> \o rest) = Len(rest) + 1 /\ (<<m>> \o rest)[1] = m
    BY <2>1
  <2> QED
    BY <1>1, <2>2, <2>3 DEF m
<1>2. CASE ~Contains(s, Marker(tag))
  <2>1. MarkerIf(tag, s, rest) = <<>>
    BY <1>2, Zenon DEF MarkerIf
  <2> QED
    BY <1>2, <2>1
<1> QED
  BY <1>1, <1>2

\* The same of a marker with nothing below it.
LEMMA MarkerAlone ==
  ASSUME NEW S \in SUBSET Rows, NEW s \in Seq(S), NEW tag
  PROVE  LET t == MarkerIf(tag, s, <<>>)
         IN  /\ t \in Seq(S) /\ Len(t) <= 1
             /\ Contains(s, Marker(tag)) => Len(t) > 0 /\ t[1] = Marker(tag)
             /\ ~Contains(s, Marker(tag)) => t = <<>>
<1> DEFINE r == <<>>
           t == MarkerIf(tag, s, r)
<1>1. r \in Seq(S) /\ Len(r) <= 0 /\ Len(r) \in Nat
  OBVIOUS
<1> HIDE DEF r, t
<1>2. /\ t \in Seq(S)
      /\ Contains(s, Marker(tag)) => Len(t) = Len(r) + 1 /\ t[1] = Marker(tag)
      /\ ~Contains(s, Marker(tag)) => t = <<>>
  BY <1>1, MarkerIfIs DEF t
<1>3. Len(<<>>) <= 1
  OBVIOUS
<1>4. /\ t \in Seq(S) /\ Len(t) <= 1
      /\ Contains(s, Marker(tag)) => Len(t) > 0 /\ t[1] = Marker(tag)
      /\ ~Contains(s, Marker(tag)) => t = <<>>
  BY <1>1, <1>2, <1>3
<1> QED
  BY <1>4 DEF t, r

\* One part after another.
LEMMA TwoParts ==
  ASSUME NEW S, NEW u \in Seq(S), NEW v \in Seq(S)
  PROVE  /\ u \o v \in Seq(S) /\ Len(u \o v) = Len(u) + Len(v)
         /\ \A i \in 1..Len(u) : (u \o v)[i] = u[i]
         /\ \A i \in 1..Len(v) : (u \o v)[Len(u) + i] = v[i]
OBVIOUS

Joined(u, v, w, z, t) ==
  /\ Len(t) = Len(u) + Len(v) + Len(w) + Len(z)
  /\ Len(u) > 0 => t[1] = u[1]
  /\ Len(w) > 0 => t[Len(u) + Len(v) + 1] = w[1]
  /\ Len(z) > 0 => t[Len(u) + Len(v) + Len(w) + 1] = z[1]

\* Four parts, one after another.
LEMMA FourParts ==
  ASSUME NEW S, NEW u \in Seq(S), NEW v \in Seq(S), NEW w \in Seq(S), NEW z \in Seq(S)
  PROVE  u \o v \o w \o z \in Seq(S) /\ Joined(u, v, w, z, u \o v \o w \o z)
<1> DEFINE x == u \o v
           y == x \o w
           t == y \o z
<1>0. Len(u) \in Nat /\ Len(v) \in Nat /\ Len(w) \in Nat /\ Len(z) \in Nat
  OBVIOUS
<1>1. x \in Seq(S) /\ Len(x) = Len(u) + Len(v) /\ \A i \in 1..Len(u) : x[i] = u[i]
  BY TwoParts
<1> HIDE DEF x
<1>2. /\ y \in Seq(S) /\ Len(y) = Len(x) + Len(w)
      /\ \A i \in 1..Len(x) : y[i] = x[i]
      /\ \A i \in 1..Len(w) : y[Len(x) + i] = w[i]
  <2>1. x \in Seq(S)
    BY <1>1
  <2> QED
    BY <2>1
<1> HIDE DEF y
<1>4. /\ t \in Seq(S) /\ Len(t) = Len(y) + Len(z)
      /\ \A i \in 1..Len(y) : t[i] = y[i]
      /\ \A i \in 1..Len(z) : t[Len(y) + i] = z[i]
  <2>1. y \in Seq(S)
    BY <1>2
  <2> QED
    BY <2>1
<1> HIDE DEF t
<1>5. Len(t) = Len(u) + Len(v) + Len(w) + Len(z)
  BY <1>0, <1>1, <1>2, <1>4
<1>6. Len(u) > 0 => t[1] = u[1]
  <2>1. Len(u) > 0 => 1 \in 1..Len(u) /\ 1 \in 1..Len(x) /\ 1 \in 1..Len(y)
    BY <1>0, <1>1, <1>2
  <2> QED
    BY <1>1, <1>2, <1>4, <2>1
<1>7. Len(w) > 0 => t[Len(u) + Len(v) + 1] = w[1]
  <2>1. Len(w) > 0 => 1 \in 1..Len(w) /\ Len(x) + 1 \in 1..Len(y) /\ Len(x) + 1 = Len(u) + Len(v) + 1
    BY <1>0, <1>1, <1>2
  <2> QED
    BY <1>2, <1>4, <2>1
<1>8. Len(z) > 0 => t[Len(u) + Len(v) + Len(w) + 1] = z[1]
  <2>1. Len(z) > 0 => 1 \in 1..Len(z) /\ Len(y) + 1 = Len(u) + Len(v) + Len(w) + 1
    BY <1>0, <1>1, <1>2
  <2> QED
    BY <1>4, <2>1
<1> QED
  BY <1>4, <1>5, <1>6, <1>7, <1>8 DEF Joined, x, y, t

\* What compaction leaves: BEGIN, ERROR and END when they are in s, rows of the slices,
\* and without END no more than MaxAcc rows.
LEMMA CompactIs ==
  ASSUME NEW S \in SUBSET Rows, \A n \in Nat : Omitted(n) \in S, Marker("BEGIN") \in S,
         NEW found, found.body \in Seq(S), NEW s \in Seq(S)
  PROVE  LET t == Compact(found, s)
         IN  /\ t \in Seq(S) /\ Len(t) > 0 /\ t[1] = Marker("BEGIN")
             /\ Contains(s, Marker("ERROR")) => \E j \in 2..Len(t) : t[j] = Marker("ERROR")
             /\ Contains(s, Marker("END")) => \E j \in 2..Len(t) : t[j] = Marker("END")
             /\ ~Contains(s, Marker("END")) => Len(t) <= MaxAcc
<1> DEFINE T == TailLines + 1
           k(p) == KeptOf(found, p)
           bt == MarkerIf("BT", s, k("backtrace"))
           thrown == ThrownOf(found, s)
           ve == MarkerIf("VAL_END", s, <<>>)
           value == ValueOf(found, s)
           rest == RestOf(found, s)
           end == EndOf(s)
           head == <<Marker("BEGIN")>>
<1>1. T \in Nat /\ MaxAcc \in Nat /\ MaxAcc >= 3 * T + 3
  BY SizesAssumption
<1>2. \A p : k(p) \in Seq(S) /\ Len(k(p)) <= T
  BY KeptIs DEF KeptOf
<1> HIDE DEF k, T
<1>3. <<>> \in Seq(S) /\ Len(<<>>) = 0
  OBVIOUS
<1>4. bt \in Seq(S) /\ Len(bt) <= T + 1
  BY <1>1, <1>2, <1>3, MarkerIfIs
<1>5. ve \in Seq(S) /\ Len(ve) <= 1
  BY MarkerAlone
<1>6. /\ end \in Seq(S) /\ Len(end) <= 1
      /\ Contains(s, Marker("END")) => Len(end) > 0 /\ end[1] = Marker("END")
      /\ ~Contains(s, Marker("END")) => end = <<>>
  BY MarkerAlone DEF EndOf
<1> HIDE DEF bt, ve, end
<1>7. /\ thrown \in Seq(S) /\ Len(thrown) <= 2 * T + 2
      /\ Contains(s, Marker("ERROR")) => Len(thrown) > 0 /\ thrown[1] = Marker("ERROR")
  <2> DEFINE r == k("error") \o bt
  <2>1. r \in Seq(S) /\ Len(r) <= 2 * T + 1
    <3>1. k("error") \in Seq(S) /\ Len(k("error")) <= T
      BY <1>2
    <3> QED
      BY <1>1, <1>4, <3>1
  <2>2. thrown = MarkerIf("ERROR", s, r)
    BY DEF ThrownOf, k, bt
  <2> HIDE DEF r, thrown
  <2>3. Len(r) \in Nat
    BY <2>1
  <2> QED
    BY <1>1, <1>3, <2>1, <2>2, <2>3, MarkerIfIs
<1>8. value \in Seq(S) /\ Len(value) <= 2 * T + 2
  <2> DEFINE r == k("value") \o ve
  <2>1. r \in Seq(S) /\ Len(r) <= T + 1
    <3>1. k("value") \in Seq(S) /\ Len(k("value")) <= T
      BY <1>2
    <3> QED
      BY <1>1, <1>5, <3>1
  <2>2. value = MarkerIf("OUT_END", s, r)
    BY DEF ValueOf, k, ve
  <2> HIDE DEF r, value
  <2>3. Len(r) \in Nat
    BY <2>1
  <2> QED
    BY <1>1, <1>3, <2>1, <2>2, <2>3, MarkerIfIs
<1> HIDE DEF thrown, value
<1>9. /\ rest \in Seq(S) /\ Len(rest) <= 2 * T + 2
      /\ Contains(s, Marker("ERROR")) => Len(rest) > 0 /\ rest[1] = Marker("ERROR")
  <2>1. rest = IF Contains(s, Marker("ERROR")) THEN thrown ELSE value
    BY DEF RestOf, thrown, value
  <2> HIDE DEF rest
  <2> QED
    BY <1>7, <1>8, <2>1
<1> HIDE DEF rest
<1>10. head \in Seq(S) /\ Len(head) \in Nat /\ Len(head) > 0 /\ Len(head) <= 1 /\ head[1] = Marker("BEGIN")
  <2> DEFINE m == Marker("BEGIN")
  <2> HIDE DEF m
  <2>1. m \in S
    BY DEF m
  <2>2. <<m>> \in Seq(S) /\ Len(<<m>>) \in Nat /\ Len(<<m>>) > 0 /\ Len(<<m>>) <= 1 /\ <<m>>[1] = m
    BY <2>1
  <2> QED
    BY <2>2 DEF m
<1> HIDE DEF head
<1> DEFINE o == k("stdout")
           t == head \o o \o rest \o end
<1>11. o \in Seq(S) /\ Len(o) <= T /\ Len(o) \in Nat
  BY <1>2
<1>12. Compact(found, s) = t
  BY CompactParts, Zenon DEF k, head, rest, end
<1> HIDE DEF o
<1> DEFINE r1 == Len(head) + Len(o) + 1
           e1 == Len(head) + Len(o) + Len(rest) + 1
<1>13. /\ t \in Seq(S) /\ Len(t) = Len(head) + Len(o) + Len(rest) + Len(end) /\ t[1] = Marker("BEGIN")
       /\ Len(rest) > 0 => t[r1] = rest[1]
       /\ Len(end) > 0 => t[e1] = end[1]
  <2>1. head \in Seq(S) /\ o \in Seq(S) /\ rest \in Seq(S) /\ end \in Seq(S)
    BY <1>6, <1>9, <1>10, <1>11
  <2>2. t \in Seq(S) /\ Joined(head, o, rest, end, t)
    BY <2>1, FourParts, Zenon
  <2> HIDE DEF t
  <2> QED
    BY <1>10, <2>2 DEF Joined
<1> HIDE DEF t
<1>14. Len(rest) \in Nat /\ Len(end) \in Nat /\ Len(t) \in Nat
  BY <1>6, <1>9, <1>13
<1>15. Contains(s, Marker("ERROR")) => \E j \in 2..Len(t) : t[j] = Marker("ERROR")
  <2>1. Len(rest) > 0 => r1 \in 2..Len(t)
    BY <1>10, <1>11, <1>13, <1>14
  <2> HIDE DEF r1
  <2> QED
    BY <1>9, <1>13, <2>1
<1>16. Contains(s, Marker("END")) => \E j \in 2..Len(t) : t[j] = Marker("END")
  <2>1. Len(end) > 0 => e1 \in 2..Len(t)
    BY <1>10, <1>11, <1>13, <1>14
  <2> HIDE DEF e1
  <2> QED
    BY <1>6, <1>13, <2>1
<1>17. ~Contains(s, Marker("END")) => Len(t) <= MaxAcc
  <2>1. Len(<<>>) = 0
    OBVIOUS
  <2>2. ~Contains(s, Marker("END")) => Len(end) <= 0
    BY <1>6, <2>1
  <2>3. Len(t) <= 3 * T + 3 + Len(end)
    BY <1>1, <1>9, <1>10, <1>11, <1>13, <1>14
  <2> QED
    BY <1>1, <1>14, <2>2, <2>3
<1>18. Len(t) > 0
  BY <1>10, <1>11, <1>13, <1>14
<1> QED
  BY <1>12, <1>13, <1>15, <1>16, <1>17, <1>18

-----------------------------------------------------------------------------
(* Captures, and splicing them. *)

Top(n) == IF n > Window THEN n - Window + 1 ELSE 1

\* A capture shows the pane from below row st on, and blank rows below the pane.
Shows(cap, st) ==
  /\ st \in Nat /\ cap \in Seq(Rows) /\ Len(cap) \in 1..Window
  /\ Len(pane) <= st + Len(cap)
  /\ \A x \in 1..Len(cap) : cap[x] = IF st + x <= Len(pane) THEN pane[st + x] ELSE Blank
  /\ \A p \in 0..Len(pane) : Len(pane) - p <= Window => st <= p
  /\ Len(pane) >= Height => st = Top(Len(pane)) - 1 /\ st + Len(cap) = Len(pane)

\* A capture has rows, and at least those of the screen.
LEMMA WindowIs == Window \in Nat \ {0} /\ Height \in 1..Window
BY SizesAssumption DEF Window

\* Rows that are not markers.
LEMMA BlankIsRow == Blank \in Rows /\ Same \in Rows /\ \A n \in Nat : Fresh(n) \in Rows /\ Omitted(n) \in Rows
BY DEF Blank, Same, Fresh, Omitted, Row, Rows

\* What capture-pane returns is the end of the pane.
LEMMA CapturedShows ==
  ASSUME pane \in Seq(Rows)
  PROVE  \E st : Shows(Captured, st)
<1> DEFINE N == Len(pane)
           m == IF N < Height THEN Height - N ELSE 0
           blank == [i \in 1..m |-> Blank]
           padded == pane \o blank
           n == N + m
           st == Top(n) - 1
           cap == Captured
<1>1. N \in Nat /\ m \in Nat /\ n \in Nat /\ Window \in Nat \ {0} /\ Height \in 1..Window
  BY WindowIs
<1>2. n >= N /\ n >= Height /\ (N >= Height => n = N) /\ (n > N => n = Height)
  BY <1>1
<1>3. blank \in Seq(Rows) /\ Len(blank) = m /\ \A i \in 1..m : blank[i] = Blank
  <2>1. Blank \in Rows
    BY BlankIsRow
  <2> HIDE DEF m
  <2> QED
    BY <1>1, <2>1
<1> HIDE DEF m, blank, N
<1>4. /\ padded \in Seq(Rows) /\ Len(padded) = n
      /\ \A i \in 1..n : padded[i] = IF i <= N THEN pane[i] ELSE Blank
  <2>1. padded \in Seq(Rows) /\ Len(padded) = n
    BY <1>1, <1>3 DEF N
  <2>2. ASSUME NEW i \in 1..n
        PROVE  padded[i] = IF i <= N THEN pane[i] ELSE Blank
    <3>1. CASE i <= N
      BY <1>1, <1>3, <3>1 DEF N
    <3>2. CASE ~(i <= N)
      <4>1. i - N \in 1..m
        BY <1>1, <3>2
      <4>2. padded[i] = blank[i - N]
        BY <1>1, <1>3, <3>2 DEF N
      <4> QED
        BY <1>3, <3>2, <4>1, <4>2
    <3> QED
      BY <3>1, <3>2
  <2> QED
    BY <2>1, <2>2
<1>5. cap = SubSeq(padded, Top(n), n)
  <2>1. PaddedPane = padded
    BY Zenon DEF PaddedPane, padded, blank, m, N
  <2>2. Len(PaddedPane) = n
    BY <1>4, <2>1
  <2>3. cap = SubSeq(PaddedPane, Top(n), n)
    BY <2>2, Zenon DEF Captured, Top
  <2> QED
    BY <2>1, <2>3, Zenon
<1> HIDE DEF padded, n, cap
<1>6. /\ st \in Nat /\ st <= n /\ n - st \in 0..Window /\ (n > 0 => n - st > 0)
      /\ (n <= Window => st = 0) /\ (n > Window => st = n - Window)
      /\ Top(n) = st + 1
  BY <1>1 DEF Top
<1> HIDE DEF st
<1>7. cap \in Seq(Rows) /\ Len(cap) = n - st /\ \A x \in 1..(n - st) : cap[x] = padded[st + x]
  <2>1. st + 1 \in 1..(n + 1) /\ n \in ((st + 1) - 1)..n /\ n - (st + 1) + 1 = n - st /\ (st + 1) - 1 = st
    BY <1>1, <1>6
  <2>2. /\ SubSeq(padded, st + 1, n) \in Seq(Rows) /\ Len(SubSeq(padded, st + 1, n)) = n - (st + 1) + 1
        /\ \A i \in 1..(n - (st + 1) + 1) : SubSeq(padded, st + 1, n)[i] = padded[(st + 1) - 1 + i]
    BY <1>4, <2>1, PartIs
  <2> QED
    BY <1>5, <1>6, <2>1, <2>2
<1>8. ASSUME NEW x \in 1..(n - st)
      PROVE  cap[x] = IF st + x <= N THEN pane[st + x] ELSE Blank
  <2>1. st + x \in 1..n
    BY <1>1, <1>6
  <2> QED
    BY <1>4, <1>7, <2>1
<1>9. \A p \in 0..N : N - p <= Window => st <= p
  BY <1>1, <1>2, <1>6
<1>10. N >= Height => n = N /\ st = Top(N) - 1 /\ st + (n - st) = N
  BY <1>1, <1>2, <1>6
<1>11. n - st \in 1..Window /\ N <= st + (n - st)
  BY <1>1, <1>2, <1>6
<1>12. Shows(cap, st)
  BY <1>6, <1>7, <1>8, <1>9, <1>10, <1>11 DEF Shows, N
<1> QED
  BY <1>12 DEF cap

\* s is the accumulator and below it the capture without its first o rows, which the last
\* capture has.
Joins(s, cap, o) ==
  /\ o \in 0..Len(cap) /\ s \in Seq(Rows) /\ Len(s) = Len(acc) + (Len(cap) - o)
  /\ \A i \in 1..Len(acc) : s[i] = acc[i]
  /\ \A x \in (o + 1)..Len(cap) : s[Len(acc) + (x - o)] = cap[x]
  /\ \A x \in 1..o : \E j \in 1..Len(last) : last[j] = cap[x]
  /\ acc = <<>> => o = 0
  /\ acc # <<>> /\ last # <<>> /\ cap # last => o = ComputeOverlap(last, cap)
  /\ acc # <<>> /\ cap = last => o = Len(cap)

\* The rows of an overlap are rows of the last capture.
LEMMA OverlapRows ==
  ASSUME NEW prior \in Seq(Rows), NEW current \in Seq(Rows), current # <<>>, NEW x \in 1..ComputeOverlap(prior, current)
  PROVE  \E j \in 1..Len(prior) : prior[j] = current[x]
<1> DEFINE k == ComputeOverlap(prior, current)
<1>1. CASE prior = <<>>
  <2>1. k = 0
    BY <1>1, Zenon DEF ComputeOverlap
  <2> QED
    BY <2>1
<1>2. CASE prior # <<>>
  <2>1. k \in 0..Shorter(prior, current) /\ IsOverlap(k, prior, current)
    BY <1>2, OverlapFacts
  <2> HIDE DEF k
  <2>2. k \in 0..Len(prior) /\ k <= Len(current) /\ Len(prior) \in Nat /\ Len(current) \in Nat
    BY <2>1 DEF Shorter
  <2>3. Fits(k, prior, Len(prior), current)
    BY <2>1, <2>2, OverlapFits
  <2>4. x \in 1..k /\ Len(prior) - k + x \in 1..Len(prior)
    BY <2>2 DEF k
  <2> QED
    BY <2>3, <2>4 DEF Fits
<1> QED
  BY <1>1, <1>2

\* Splicing adds the end of the capture to the accumulator and loses no row.
LEMMA SpliceJoins ==
  ASSUME acc \in Seq(Rows), last \in Seq(Rows), NEW cap \in Seq(Rows), cap # <<>>
  PROVE  \E o : Joins(Splice(cap), cap, o)
<1> DEFINE L == Len(cap)
           s == Splice(cap)
<1>0. L \in Nat /\ Len(acc) \in Nat /\ Len(last) \in Nat
  OBVIOUS
<1>1. CASE acc = <<>>
  <2>1. s = cap
    BY <1>1, Zenon DEF Splice
  <2> HIDE DEF s
  <2>2. Len(acc) = 0 /\ \A x \in 1..L : Len(acc) + (x - 0) = x
    BY <1>1
  <2>3. Joins(s, cap, 0)
    BY <1>0, <1>1, <2>1, <2>2 DEF Joins
  <2> QED
    BY <2>3 DEF s
<1>2. CASE acc # <<>> /\ cap = last
  <2>1. s = acc
    BY <1>2, Zenon DEF Splice
  <2> HIDE DEF s
  <2>2. Joins(s, cap, L)
    BY <1>0, <1>2, <2>1 DEF Joins
  <2> QED
    BY <2>2 DEF s
<1>3. CASE acc # <<>> /\ cap # last
  <2> DEFINE o == ComputeOverlap(last, cap)
             u == SubSeq(cap, o + 1, L)
  <2>1. s = acc \o u
    BY <1>3, Zenon DEF Splice
  <2>2. o \in 0..L
    <3>1. CASE last = <<>>
      <4>1. o = 0
        BY <3>1, Zenon DEF ComputeOverlap
      <4> QED
        BY <1>0, <4>1
    <3>2. CASE last # <<>>
      <4>1. o \in 0..Shorter(last, cap)
        BY <3>2, OverlapFacts
      <4> HIDE DEF o
      <4> QED
        BY <1>0, <4>1 DEF Shorter
    <3> QED
      BY <3>1, <3>2
  <2>3. \A x \in 1..o : \E j \in 1..Len(last) : last[j] = cap[x]
    BY OverlapRows
  <2> HIDE DEF o
  <2>4. u \in Seq(Rows) /\ Len(u) = L - o /\ \A y \in 1..(L - o) : u[y] = cap[o + y]
    <3>1. o + 1 \in 1..(L + 1) /\ L \in ((o + 1) - 1)..L /\ L - (o + 1) + 1 = L - o /\ (o + 1) - 1 = o
      BY <1>0, <2>2
    <3> QED
      BY <3>1, PartIs
  <2> HIDE DEF u, s
  <2>5. s \in Seq(Rows) /\ Len(s) = Len(acc) + Len(u)
    <3>1. u \in Seq(Rows)
      BY <2>4
    <3> QED
      BY <2>1, <3>1
  <2>6. \A i \in 1..Len(acc) : s[i] = acc[i]
    BY <2>1, <2>4
  <2>7. \A y \in 1..Len(u) : s[Len(acc) + y] = u[y]
    BY <2>1, <2>4
  <2>8. \A x \in (o + 1)..L : s[Len(acc) + (x - o)] = cap[x]
    <3> SUFFICES ASSUME NEW x \in (o + 1)..L
                 PROVE  s[Len(acc) + (x - o)] = cap[x]
      OBVIOUS
    <3>1. x - o \in 1..(L - o) /\ o + (x - o) = x
      BY <1>0, <2>2
    <3> QED
      BY <2>4, <2>7, <3>1
  <2>9. Joins(s, cap, o)
    BY <1>0, <1>3, <2>2, <2>3, <2>4, <2>5, <2>6, <2>8 DEF Joins, o
  <2> QED
    BY <2>9 DEF s
<1> QED
  BY <1>1, <1>2, <1>3

-----------------------------------------------------------------------------
(* What run_command prints. *)

MarkerTags == Tokens \cup {"BEGIN"}
IsMarker(row) == row.tag \in MarkerTags
Text(s) == ExtractBetweenMarkers(s).body

\* Markers, text, blank rows and notes are different rows.
LEMMA RowFacts ==
  /\ \A t \in MarkerTags : /\ Marker(t) \in Rows /\ Marker(t).tag = t /\ IsMarker(Marker(t))
                           /\ Marker(t) # Same /\ Marker(t) # Blank
                           /\ \A n \in Nat : Marker(t) # Fresh(n) /\ Marker(t) # Omitted(n)
                           /\ IsToken(Marker(t)) <=> t # "BEGIN"
                           /\ \A u \in MarkerTags : Marker(t) = Marker(u) => t = u
  /\ ~IsMarker(Same) /\ ~IsMarker(Blank) /\ ~IsToken(Same) /\ ~IsToken(Blank)
  /\ \A n \in Nat : ~IsMarker(Fresh(n)) /\ ~IsMarker(Omitted(n)) /\ ~IsToken(Fresh(n)) /\ Fresh(n) # Same
  /\ \A m, n \in Nat : Fresh(m) = Fresh(n) => m = n
BY DEF MarkerTags, IsMarker, IsToken, Tokens, Marker, Row, Rows, Same, Blank, Fresh, Omitted

\* Where run_command is while it has not printed a marker.
Ahead(tag) ==
  IF tag = "BEGIN" THEN {"echo"}
  ELSE IF tag = "OUT_END" THEN {"echo", "stdout"}
  ELSE IF tag = "VAL_END" THEN {"echo", "stdout", "value"}
  ELSE IF tag = "ERROR" THEN {"echo", "stdout", "value", "shown"}
  ELSE IF tag = "BT" THEN {"echo", "stdout", "value", "shown", "error"}
  ELSE {"echo", "stdout", "value", "shown", "error", "backtrace"}

Steps == {<<"echo", "BEGIN", "stdout">>, <<"stdout", "OUT_END", "value">>,
          <<"value", "VAL_END", "shown">>, <<"shown", "END", "prompt">>,
          <<"stdout", "ERROR", "error">>, <<"value", "ERROR", "error">>,
          <<"shown", "ERROR", "error">>, <<"error", "BT", "backtrace">>,
          <<"error", "END", "prompt">>, <<"backtrace", "END", "prompt">>}

\* A step of run_command from one place to another with a marker between.
Moves(from, tag, to) ==
  /\ from \in Phases \cup {"echo", "shown"} /\ to \in Phases \cup {"shown", "prompt"} /\ tag \in MarkerTags
  /\ from \in Ahead(tag) /\ to \notin Ahead(tag)
  /\ \A u \in MarkerTags : to \in Ahead(u) => from \in Ahead(u)
  /\ tag = "BEGIN" <=> from = "echo"
  /\ tag = "END" <=> to = "prompt"
  /\ tag = "BEGIN" => to = "stdout"
  /\ tag \notin {"BEGIN", "END"} => (IF to = "shown" THEN "stdout" ELSE to) = PhaseAfter(tag)
  /\ tag = "VAL_END" <=> to = "shown"

\* Every marker run_command prints is such a step.
LEMMA StepMoves ==
  ASSUME NEW step \in Steps
  PROVE  Moves(step[1], step[2], step[3])
<1> USE DEF Moves, Ahead, MarkerTags, Tokens, Phases, PhaseAfter
<1>1. CASE step = <<"echo", "BEGIN", "stdout">>
  BY <1>1
<1>2. CASE step = <<"stdout", "OUT_END", "value">>
  BY <1>2
<1>3. CASE step = <<"value", "VAL_END", "shown">>
  BY <1>3
<1>4. CASE step = <<"shown", "END", "prompt">>
  BY <1>4
<1>5. CASE step = <<"stdout", "ERROR", "error">>
  BY <1>5
<1>6. CASE step = <<"value", "ERROR", "error">>
  BY <1>6
<1>7. CASE step = <<"shown", "ERROR", "error">>
  BY <1>7
<1>8. CASE step = <<"error", "BT", "backtrace">>
  BY <1>8
<1>9. CASE step = <<"error", "END", "prompt">>
  BY <1>9
<1>10. CASE step = <<"backtrace", "END", "prompt">>
  BY <1>10
<1> QED
  BY <1>1, <1>2, <1>3, <1>4, <1>5, <1>6, <1>7, <1>8, <1>9, <1>10 DEF Steps

\* The text between the markers of a pane as a row is added below it.
LEMMA TextBelow ==
  ASSUME NEW s \in Seq(Rows), NEW row \in Rows
  PROVE  /\ ~Contains(s, Marker("BEGIN")) => Text(s) = <<>> /\ Text(Append(s, row)) = <<>>
         /\ \A b, e : Between(s, b, e) =>
              /\ Text(s) \in Seq(Rows)
              /\ e <= Len(s) => Text(Append(s, row)) = Text(s)
              /\ e = Len(s) + 1 /\ row = Marker("END") => Text(Append(s, row)) = Text(s)
              /\ e = Len(s) + 1 /\ row # Marker("END") => Text(Append(s, row)) = Append(Text(s), row)
<1> DEFINE N == Len(s)
           t == Append(s, row)
<1>1. N \in Nat /\ t \in Seq(Rows) /\ Len(t) = N + 1 /\ t[N + 1] = row /\ \A i \in 1..N : t[i] = s[i]
  OBVIOUS
<1> HIDE DEF t
<1>2. ASSUME ~Contains(s, Marker("BEGIN"))
      PROVE  Text(s) = <<>> /\ Text(t) = <<>>
  <2>0. \A i \in 1..N : s[i] # Marker("BEGIN")
    BY <1>2 DEF Contains
  <2>1. Text(s) = <<>>
    BY <1>2, ExtractNothing DEF Text, Nothing
  <2>2. CASE row # Marker("BEGIN")
    <3>1. ~Contains(t, Marker("BEGIN"))
      BY <1>1, <2>0, <2>2 DEF Contains
    <3> QED
      BY <1>1, <2>1, <3>1, ExtractNothing DEF Text, Nothing
  <2>3. CASE row = Marker("BEGIN")
    <3>1. Between(t, N + 1, N + 2)
      BY <1>1, <2>0, <2>3 DEF Between
    <3>2. Text(t) = SubSeq(t, (N + 1) + 1, (N + 2) - 1)
      BY <1>1, <3>1, ExtractIs DEF Text
    <3>3. SubSeq(t, (N + 1) + 1, (N + 2) - 1) = <<>>
      BY <1>1
    <3> QED
      BY <2>1, <3>2, <3>3
  <2> QED
    BY <2>2, <2>3
<1>3. ASSUME NEW b, NEW e, Between(s, b, e)
      PROVE  /\ Text(s) \in Seq(Rows)
             /\ e <= N => Text(t) = Text(s)
             /\ e = N + 1 /\ row = Marker("END") => Text(t) = Text(s)
             /\ e = N + 1 /\ row # Marker("END") => Text(t) = Append(Text(s), row)
  <2> DEFINE u == SubSeq(s, b + 1, e - 1)
  <2>1. b \in 1..N /\ e \in (b + 1)..(N + 1) /\ b + 1 \in 1..(N + 1) /\ e - 1 \in ((b + 1) - 1)..N
        /\ (e - 1) - (b + 1) + 1 = e - b - 1 /\ (b + 1) - 1 = b
    BY <1>1, <1>3 DEF Between
  <2>2. Text(s) = u
    BY <1>3, ExtractIs DEF Text
  <2>3. u \in Seq(Rows) /\ Len(u) = e - b - 1 /\ \A i \in 1..(e - b - 1) : u[i] = s[b + i]
    BY <2>1, PartIs
  <2> HIDE DEF u
  <2>4. ASSUME e <= N \/ row = Marker("END")
        PROVE  Text(t) = Text(s)
    <3> DEFINE v == SubSeq(t, b + 1, e - 1)
    <3>1. Between(t, b, e)
      BY <1>1, <1>3, <2>1, <2>4 DEF Between
    <3>2. Text(t) = v
      BY <1>1, <3>1, ExtractIs DEF Text
    <3>3. v \in Seq(Rows) /\ Len(v) = e - b - 1 /\ \A i \in 1..(e - b - 1) : v[i] = t[b + i]
      <4>1. b + 1 \in 1..(Len(t) + 1) /\ e - 1 \in ((b + 1) - 1)..Len(t)
        BY <1>1, <2>1
      <4>2. /\ v \in Seq(Rows) /\ Len(v) = (e - 1) - (b + 1) + 1
            /\ \A i \in 1..((e - 1) - (b + 1) + 1) : v[i] = t[(b + 1) - 1 + i]
        BY <1>1, <4>1, PartIs
      <4> HIDE DEF v
      <4> QED
        BY <2>1, <4>2
    <3> HIDE DEF v
    <3>4. \A i \in 1..(e - b - 1) : t[b + i] = s[b + i]
      BY <1>1, <2>1
    <3>5. v = u
      BY <2>3, <3>3, <3>4
    <3> QED
      BY <2>2, <3>2, <3>5
  <2>5. ASSUME e = N + 1, row # Marker("END")
        PROVE  Text(t) = Append(Text(s), row)
    <3> DEFINE v == SubSeq(t, b + 1, (N + 2) - 1)
               w == Append(u, row)
    <3>1. Between(t, b, N + 2)
      <4>1. \A i \in (b + 1)..((N + 2) - 1) : t[i] # Marker("END")
        BY <1>1, <1>3, <2>1, <2>5 DEF Between
      <4> QED
        BY <1>1, <1>3, <2>1, <2>5, <4>1 DEF Between
    <3>2. Text(t) = v
      BY <1>1, <3>1, ExtractIs DEF Text
    <3>3. v \in Seq(Rows) /\ Len(v) = e - b /\ \A i \in 1..(e - b) : v[i] = t[b + i]
      <4>1. b + 1 \in 1..(Len(t) + 1) /\ (N + 2) - 1 \in ((b + 1) - 1)..Len(t)
            /\ ((N + 2) - 1) - (b + 1) + 1 = e - b
        BY <1>1, <2>1, <2>5
      <4>2. /\ v \in Seq(Rows) /\ Len(v) = ((N + 2) - 1) - (b + 1) + 1
            /\ \A i \in 1..(((N + 2) - 1) - (b + 1) + 1) : v[i] = t[(b + 1) - 1 + i]
        BY <1>1, <4>1, PartIs
      <4> HIDE DEF v
      <4> QED
        BY <2>1, <4>1, <4>2
    <3> HIDE DEF v
    <3>4. /\ w \in Seq(Rows) /\ Len(w) = e - b /\ w[e - b] = row
          /\ \A i \in 1..(e - b - 1) : w[i] = u[i]
      <4>1. u \in Seq(Rows) /\ Len(u) \in Nat /\ e - b = Len(u) + 1
        BY <2>1, <2>3
      <4>2. w \in Seq(Rows) /\ Len(w) = Len(u) + 1 /\ w[Len(u) + 1] = row /\ \A i \in 1..Len(u) : w[i] = u[i]
        <5>1. u \in Seq(Rows)
          BY <4>1
        <5> QED
          BY <5>1
      <4> HIDE DEF w
      <4> QED
        BY <2>3, <4>1, <4>2
    <3> HIDE DEF w
    <3>5. \A i \in 1..(e - b) : v[i] = w[i]
      <4> SUFFICES ASSUME NEW i \in 1..(e - b)
                   PROVE  v[i] = w[i]
        OBVIOUS
      <4>1. CASE i = e - b
        <5>1. b + i = N + 1
          BY <1>1, <2>1, <2>5, <4>1
        <5> QED
          BY <1>1, <3>3, <3>4, <4>1, <5>1
      <4>2. CASE i # e - b
        <5>1. i \in 1..(e - b - 1) /\ b + i \in 1..N
          BY <1>1, <2>1, <2>5, <4>2
        <5> QED
          BY <1>1, <2>3, <3>3, <3>4, <5>1
      <4> QED
        BY <4>1, <4>2
    <3>6. v = w
      BY <3>3, <3>4, <3>5
    <3> QED
      BY <2>2, <3>2, <3>6 DEF w
  <2> QED
    BY <2>2, <2>3, <2>4, <2>5
<1> QED
  BY <1>2, <1>3 DEF t

Places == Phases \cup {"echo", "shown", "prompt"}

\* What a pane p holds when run_command is at "at": rows it prints, every marker once, none
\* before its time, BEGIN above the others and END below them.
RowsOfPane(p) ==
  \A i \in 1..Len(p) : (\E t \in MarkerTags : p[i] = Marker(t)) \/ p[i] = Fresh(i) \/ p[i] = Same
MarkersOnce(p, at) ==
  /\ \A i \in 1..Len(p) : \A t \in MarkerTags : p[i] = Marker(t) => at \notin Ahead(t)
  /\ \A i, j \in 1..Len(p) : \A t \in MarkerTags : p[i] = Marker(t) /\ p[j] = Marker(t) => i = j
MarkersInOrder(p, at) ==
  /\ at # "echo" => Contains(p, Marker("BEGIN"))
  /\ at = "prompt" => Contains(p, Marker("END"))
  /\ \A i, j \in 1..Len(p) : \A t \in MarkerTags : p[j] = Marker(t) =>
       (p[i] = Marker("BEGIN") => i <= j) /\ (p[i] = Marker("END") => j <= i)
Printed(p, at) ==
  /\ RowsOfPane(p) /\ MarkersOnce(p, at) /\ MarkersInOrder(p, at)
  /\ at = "shown" => p # <<>> /\ p[Len(p)] = Marker("VAL_END")

\* What was printed in each phase is what the text between the markers is sliced into.
OutputIsText(p, at, out) ==
  /\ out = [phase \in Phases |-> Slice(Text(p), phase)]
  /\ at \notin {"echo", "prompt"} => EndsIn(Text(p), IF at = "shown" THEN "stdout" ELSE at)

\* The three markers the eval looks for.
LEMMA TagNames == {"BEGIN", "END", "ERROR"} \subseteq MarkerTags
BY DEF MarkerTags, Tokens

\* BEGIN is in the pane from "echo" on and END from "prompt" on, below it.
LEMMA PrintedShape ==
  ASSUME NEW p \in Seq(Rows), NEW at \in Places, Printed(p, at)
  PROVE  /\ at = "echo" <=> ~Contains(p, Marker("BEGIN"))
         /\ at = "prompt" <=> Contains(p, Marker("END"))
         /\ at # "echo" => \E b, e : Between(p, b, e)
         /\ \A b, e : Between(p, b, e) => (e <= Len(p) <=> at = "prompt")
<1>1. at = "echo" => ~Contains(p, Marker("BEGIN"))
  <2>1. "echo" \in Ahead("BEGIN")
    BY DEF Ahead
  <2> QED
    BY <2>1, TagNames DEF Printed, MarkersOnce, Contains
<1>2. at # "prompt" => ~Contains(p, Marker("END"))
  <2>1. at # "prompt" => at \in Ahead("END")
    BY DEF Ahead, Places, Phases
  <2> QED
    BY <2>1, TagNames DEF Printed, MarkersOnce, Contains
<1>3. (at # "echo" => Contains(p, Marker("BEGIN"))) /\ (at = "prompt" => Contains(p, Marker("END")))
  BY DEF Printed, MarkersInOrder
<1>4. at # "echo" => \E b, e : Between(p, b, e)
  BY <1>3, BetweenExists
<1>5. ASSUME NEW b, NEW e, Between(p, b, e)
      PROVE  e <= Len(p) <=> at = "prompt"
  <2>1. Len(p) \in Nat /\ b \in 1..Len(p) /\ e \in (b + 1)..(Len(p) + 1)
    BY <1>5 DEF Between
  <2>2. ASSUME e <= Len(p)
        PROVE  at = "prompt"
    <3>1. e \in 1..Len(p) /\ p[e] = Marker("END")
      BY <1>5, <2>1, <2>2 DEF Between
    <3> QED
      BY <1>2, <3>1 DEF Contains
  <2>3. ASSUME at = "prompt"
        PROVE  e <= Len(p)
    <3>1. PICK z \in 1..Len(p) : p[z] = Marker("END")
      BY <1>3, <2>3 DEF Contains
    <3>2. b <= z /\ b # z
      <4>1. p[b] = Marker("BEGIN")
        BY <1>5 DEF Between
      <4>2. Marker("BEGIN") # Marker("END")
        BY RowFacts, TagNames
      <4> QED
        BY <2>1, <3>1, <4>1, <4>2, TagNames DEF Printed, MarkersInOrder
    <3>3. z \notin (b + 1)..(e - 1)
      BY <1>5, <3>1 DEF Between
    <3> QED
      BY <2>1, <3>1, <3>2, <3>3
  <2> QED
    BY <2>2, <2>3
<1> QED
  BY <1>1, <1>2, <1>3, <1>4, <1>5

\* The next marker keeps this shape.
LEMMA PrintedMarker ==
  ASSUME NEW p \in Seq(Rows), NEW from, NEW tag, NEW to, Printed(p, from), Moves(from, tag, to)
  PROVE  Printed(Append(p, Marker(tag)), to)
<1> DEFINE N == Len(p)
           m == Marker(tag)
           q == Append(p, m)
<1>1. tag \in MarkerTags /\ m \in Rows
  BY RowFacts DEF Moves
<1> HIDE DEF m
<1>2. N \in Nat /\ Len(q) = N + 1 /\ q[N + 1] = m /\ \A i \in 1..N : q[i] = p[i]
  BY <1>1
<1> HIDE DEF q
<1>3. \A t \in MarkerTags : m = Marker(t) <=> t = tag
  BY <1>1, RowFacts DEF m
<1> HIDE DEF N
<1>4. \A i \in 1..(N + 1) : i \in 1..N \/ i = N + 1
  BY <1>2
<1>5. \A i \in 1..N : p[i] # m
  BY <1>1 DEF Printed, MarkersOnce, Moves, N, m
<1>6. RowsOfPane(q)
  BY <1>1, <1>2, <1>4 DEF Printed, RowsOfPane, N, m
<1>7. MarkersOnce(q, to)
  <2>1. ASSUME NEW i \in 1..(N + 1), NEW t \in MarkerTags, q[i] = Marker(t)
        PROVE  to \notin Ahead(t)
    <3>1. CASE i \in 1..N
      BY <1>2, <2>1, <3>1 DEF Printed, MarkersOnce, Moves, N
    <3>2. CASE i = N + 1
      BY <1>2, <1>3, <2>1, <3>2 DEF Moves
    <3> QED
      BY <1>4, <3>1, <3>2
  <2>2. ASSUME NEW i \in 1..(N + 1), NEW j \in 1..(N + 1), NEW t \in MarkerTags, q[i] = Marker(t), q[j] = Marker(t)
        PROVE  i = j
    <3>1. CASE i \in 1..N /\ j \in 1..N
      BY <1>2, <2>2, <3>1 DEF Printed, MarkersOnce, N
    <3>2. CASE i = N + 1 \/ j = N + 1
      BY <1>2, <1>3, <1>4, <1>5, <2>2, <3>2
    <3> QED
      BY <1>4, <3>1, <3>2
  <2> QED
    BY <1>2, <2>1, <2>2 DEF MarkersOnce
<1>8. MarkersInOrder(q, to)
  <2>1. Contains(q, Marker("BEGIN"))
    <3>1. CASE tag = "BEGIN"
      BY <1>2, <3>1 DEF Contains, m
    <3>2. CASE tag # "BEGIN"
      <4>1. PICK i \in 1..N : p[i] = Marker("BEGIN")
        BY <3>2 DEF Printed, MarkersInOrder, Moves, Contains, N
      <4>2. i \in 1..(N + 1)
        BY <1>2
      <4> QED
        BY <1>2, <4>1, <4>2 DEF Contains
    <3> QED
      BY <3>1, <3>2
  <2>2. to = "prompt" => Contains(q, Marker("END"))
    BY <1>2 DEF Moves, Contains, m
  <2>3. ASSUME NEW i \in 1..(N + 1), NEW j \in 1..(N + 1), NEW t \in MarkerTags, q[j] = Marker(t)
        PROVE  (q[i] = Marker("BEGIN") => i <= j) /\ (q[i] = Marker("END") => j <= i)
    <3>1. CASE i \in 1..N /\ j \in 1..N
      BY <1>2, <2>3, <3>1 DEF Printed, MarkersInOrder, N
    <3>2. CASE j = N + 1
      <4>1. i <= j
        BY <1>2, <3>2
      <4>2. q[i] = Marker("END") => i = N + 1
        <5>1. ASSUME i \in 1..N, q[i] = Marker("END")
              PROVE  FALSE
          <6>1. from \in Ahead("END")
            BY DEF Moves, Ahead, Phases
          <6> QED
            BY <1>2, <5>1, <6>1, TagNames DEF Printed, MarkersOnce, N
        <5> QED
          BY <1>4, <5>1
      <4> QED
        BY <1>2, <3>2, <4>1, <4>2
    <3>3. CASE i = N + 1 /\ j \in 1..N
      <4>1. j <= i
        BY <1>2, <3>3
      <4>2. q[i] # Marker("BEGIN")
        <5>1. ASSUME q[i] = Marker("BEGIN")
              PROVE  FALSE
          <6>1. tag = "BEGIN"
            BY <1>2, <1>3, <3>3, <5>1, TagNames
          <6>2. from = "echo"
            BY <6>1 DEF Moves
          <6>3. p[j] = Marker(t) /\ from \notin Ahead(t)
            BY <1>2, <2>3, <3>3 DEF Printed, MarkersOnce, N
          <6>4. "echo" \in Ahead(t)
            BY DEF Ahead
          <6> QED
            BY <6>2, <6>3, <6>4
        <5> QED
          BY <5>1
      <4> QED
        BY <4>1, <4>2
    <3> QED
      BY <1>4, <3>1, <3>2, <3>3
  <2> QED
    BY <1>2, <2>1, <2>2, <2>3 DEF MarkersInOrder
<1>9. to = "shown" => q # <<>> /\ q[Len(q)] = Marker("VAL_END")
  <2>1. q # <<>>
    BY <1>2
  <2> QED
    BY <1>2, <2>1 DEF Moves, m
<1> QED
  BY <1>6, <1>7, <1>8, <1>9 DEF Printed, q, m

\* A row of text, below the pane or in place of an incomplete one.
LEMMA PrintedText ==
  ASSUME NEW p \in Seq(Rows), NEW at, Printed(p, at), NEW q, NEW n,
         n \in 1..Len(q), Len(p) = n \/ Len(p) = n - 1, n \in Nat,
         Len(q) = n, q[n] \in {Fresh(n), Same}, \A i \in 1..(n - 1) : q[i] = p[i],
         Len(p) = n => p[n] = Same, at # "shown"
  PROVE  Printed(q, at)
<1>1. \A i \in 1..n : (i \in 1..Len(p) /\ q[i] = p[i]) \/ i = n
  <2> SUFFICES ASSUME NEW i \in 1..n, i # n
               PROVE  i \in 1..Len(p) /\ q[i] = p[i]
    OBVIOUS
  <2>1. i \in 1..(n - 1) /\ i \in 1..Len(p)
    OBVIOUS
  <2> QED
    BY <2>1
<1>2. \A t \in MarkerTags : q[n] # Marker(t)
  BY RowFacts
<1>3. \A i \in 1..n : \A t \in MarkerTags : q[i] = Marker(t) => i \in 1..Len(p) /\ p[i] = Marker(t)
  BY <1>1, <1>2
<1>4. \A i \in 1..Len(p) : \A t \in MarkerTags : p[i] = Marker(t) => i \in 1..n /\ q[i] = Marker(t)
  <2> SUFFICES ASSUME NEW i \in 1..Len(p), NEW t \in MarkerTags, p[i] = Marker(t)
               PROVE  i \in 1..n /\ q[i] = Marker(t)
    OBVIOUS
  <2>1. Same # Marker(t)
    BY RowFacts
  <2>2. i \in 1..n /\ i # n
    BY <2>1
  <2> QED
    BY <2>2
<1>5. RowsOfPane(q)
  BY <1>1 DEF Printed, RowsOfPane
<1>6. MarkersOnce(q, at)
  BY <1>3 DEF Printed, MarkersOnce
<1>7. MarkersInOrder(q, at)
  <2>1. \A t \in MarkerTags : Contains(p, Marker(t)) => Contains(q, Marker(t))
    BY <1>4 DEF Contains
  <2>2. (at # "echo" => Contains(q, Marker("BEGIN"))) /\ (at = "prompt" => Contains(q, Marker("END")))
    BY <2>1, TagNames DEF Printed, MarkersInOrder
  <2>3. ASSUME NEW i \in 1..n, NEW j \in 1..n, NEW t \in MarkerTags, q[j] = Marker(t)
        PROVE  (q[i] = Marker("BEGIN") => i <= j) /\ (q[i] = Marker("END") => j <= i)
    <3>1. j \in 1..Len(p) /\ p[j] = Marker(t)
      BY <1>3, <2>3
    <3>2. /\ q[i] = Marker("BEGIN") => i \in 1..Len(p) /\ p[i] = Marker("BEGIN")
          /\ q[i] = Marker("END") => i \in 1..Len(p) /\ p[i] = Marker("END")
      BY <1>3, TagNames
    <3> QED
      BY <3>1, <3>2 DEF Printed, MarkersInOrder
  <2> QED
    BY <2>2, <2>3 DEF MarkersInOrder
<1> QED
  BY <1>5, <1>6, <1>7 DEF Printed

\* A text ends in one phase.
LEMMA EndsInOne ==
  ASSUME NEW s \in Seq(Rows)
  PROVE  /\ \E now : EndsIn(s, now)
         /\ \A now, then : EndsIn(s, now) /\ EndsIn(s, then) => now = then
<1>1. PICK at, text : PhaseAt(s, at) /\ TextAt(s, at, "stdout", text)
  BY SliceIs
<1>2. \A bt : PhaseAt(s, bt) => bt[Len(s)] = at[Len(s)]
  BY <1>1, SliceUnique
<1> QED
  BY <1>1, <1>2 DEF EndsIn

\* The output of a phase when a row of text follows a text that ends in it.
LEMMA SliceText ==
  ASSUME NEW s \in Seq(Rows), NEW row \in Rows, ~IsToken(row), NEW now \in Phases, EndsIn(s, now)
  PROVE  /\ EndsIn(Append(s, row), now)
         /\ \A phase : Slice(Append(s, row), phase) =
              IF phase = now THEN Append(Slice(s, phase), row) ELSE Slice(s, phase)
<1>1. \A phase : /\ EndsIn(Append(s, row), IF IsToken(row) THEN PhaseAfter(row.tag) ELSE now)
                 /\ Slice(Append(s, row), phase) =
                      IF IsToken(row) \/ now # phase THEN Slice(s, phase) ELSE Append(Slice(s, phase), row)
  BY SliceAppend
<1> QED
  BY <1>1

\* A marker adds to no output.
LEMMA OutputMarker ==
  ASSUME NEW p \in Seq(Rows), NEW from, NEW tag, NEW to, NEW out,
         Printed(p, from), Moves(from, tag, to), OutputIsText(p, from, out)
  PROVE  OutputIsText(Append(p, Marker(tag)), to, out)
<1> DEFINE m == Marker(tag)
           q == Append(p, m)
           T == Text(p)
           now == IF from = "shown" THEN "stdout" ELSE from
           then == IF to = "shown" THEN "stdout" ELSE to
<1>1. /\ tag \in MarkerTags /\ m \in Rows /\ m.tag = tag /\ (IsToken(m) <=> tag # "BEGIN")
      /\ m = Marker("END") <=> tag = "END"
      /\ from \in Places /\ from # "prompt" /\ to # "echo"
  BY RowFacts, TagNames DEF Moves, Places, Phases
<1>2. CASE from = "echo"
  <2>1. ~Contains(p, Marker("BEGIN"))
    BY <1>1, <1>2, PrintedShape
  <2>2. Text(p) = <<>> /\ Text(q) = <<>>
    BY <1>1, <2>1, TextBelow
  <2>3. to = "stdout"
    BY <1>2 DEF Moves
  <2>4. EndsIn(<<>>, "stdout")
    BY SliceNothing
  <2> HIDE DEF q
  <2> QED
    BY <2>2, <2>3, <2>4 DEF OutputIsText, q
<1>3. CASE from # "echo"
  <2>1. PICK b, e : Between(p, b, e)
    BY <1>1, <1>3, PrintedShape
  <2>2. e = Len(p) + 1
    <3>1. ~(e <= Len(p))
      BY <1>1, <2>1, PrintedShape
    <3> QED
      BY <2>1, <3>1 DEF Between
  <2>3. T \in Seq(Rows) /\ Text(q) = IF tag = "END" THEN T ELSE Append(T, m)
    BY <1>1, <2>1, <2>2, TextBelow
  <2> HIDE DEF q, m
  <2>4. CASE tag = "END"
    <3>1. to = "prompt" /\ Text(q) = T
      BY <2>3, <2>4 DEF Moves
    <3> HIDE DEF T
    <3> QED
      BY <3>1 DEF OutputIsText, q, m, T
  <2>5. CASE tag # "END"
    <3>1. Text(q) = Append(T, m) /\ IsToken(m)
      BY <1>1, <1>3, <2>3, <2>5 DEF Moves
    <3>2. EndsIn(T, now)
      BY <1>1, <1>3 DEF OutputIsText
    <3>3. then = PhaseAfter(tag)
      BY <1>3, <2>5 DEF Moves
    <3> HIDE DEF T, then, now
    <3>4. \A phase : EndsIn(Append(T, m), PhaseAfter(m.tag)) /\ Slice(Append(T, m), phase) = Slice(T, phase)
      <4>1. \A phase : /\ EndsIn(Append(T, m), IF IsToken(m) THEN PhaseAfter(m.tag) ELSE now)
                       /\ Slice(Append(T, m), phase) =
                            IF IsToken(m) \/ now # phase THEN Slice(T, phase) ELSE Append(Slice(T, phase), m)
        BY <1>1, <2>3, <3>2, SliceAppend
      <4> QED
        BY <3>1, <4>1
    <3>5. EndsIn(Text(q), then)
      BY <1>1, <3>1, <3>3, <3>4
    <3>6. out = [phase \in Phases |-> Slice(Text(q), phase)]
      BY <3>1, <3>4 DEF OutputIsText, T
    <3> QED
      BY <3>5, <3>6 DEF OutputIsText, q, m, then
  <2> QED
    BY <2>4, <2>5
<1> QED
  BY <1>2, <1>3

\* A row of text adds to the output of the phase it is printed in.
LEMMA OutputText ==
  ASSUME NEW p \in Seq(Rows), NEW at \in Places, NEW row \in Rows, NEW out, ~IsToken(row), row # Marker("END"),
         Printed(p, at), at # "shown", OutputIsText(p, at, out)
  PROVE  OutputIsText(Append(p, row), at,
                      IF at \in Phases THEN [out EXCEPT ![at] = Append(@, row)] ELSE out)
<1> DEFINE q == Append(p, row)
           T == Text(p)
<1>1. CASE at = "echo"
  <2>1. ~Contains(p, Marker("BEGIN"))
    BY <1>1, PrintedShape
  <2>2. Text(p) = <<>> /\ Text(q) = <<>>
    BY <2>1, TextBelow
  <2>3. at \notin Phases
    BY <1>1 DEF Phases
  <2> HIDE DEF q
  <2> QED
    BY <1>1, <2>2, <2>3 DEF OutputIsText, q
<1>2. CASE at = "prompt"
  <2>1. PICK b, e : Between(p, b, e) /\ e <= Len(p)
    BY <1>2, PrintedShape
  <2>2. Text(q) = T
    BY <2>1, TextBelow
  <2>3. at \notin Phases
    BY <1>2 DEF Phases
  <2> HIDE DEF q
  <2> QED
    BY <1>2, <2>2, <2>3 DEF OutputIsText, q
<1>3. CASE at \in Phases
  <2>0. at # "echo" /\ at # "prompt"
    BY <1>3 DEF Phases
  <2>1. PICK b, e : Between(p, b, e)
    BY <2>0, PrintedShape
  <2>2. e = Len(p) + 1
    <3>1. ~(e <= Len(p))
      BY <2>0, <2>1, PrintedShape
    <3> QED
      BY <2>1, <3>1 DEF Between
  <2>3. T \in Seq(Rows) /\ Text(q) = Append(T, row)
    BY <2>1, <2>2, TextBelow
  <2>4. EndsIn(T, at)
    BY <2>0 DEF OutputIsText
  <2> HIDE DEF q, T
  <2>5. /\ EndsIn(Append(T, row), at)
        /\ \A phase : Slice(Append(T, row), phase) =
             IF phase = at THEN Append(Slice(T, phase), row) ELSE Slice(T, phase)
    BY <1>3, <2>3, <2>4, SliceText
  <2>6. out = [phase \in Phases |-> Slice(T, phase)]
    BY DEF OutputIsText, T
  <2>7. [out EXCEPT ![at] = Append(@, row)] = [phase \in Phases |-> Slice(Append(T, row), phase)]
    BY <1>3, <2>5, <2>6
  <2> QED
    BY <1>3, <2>3, <2>5, <2>7 DEF OutputIsText, q
<1> QED
  BY <1>1, <1>2, <1>3 DEF Places

\* Replacing the last row.
LEMMA LastReplaced ==
  ASSUME NEW v \in Seq(Rows), NEW old \in Rows, NEW row \in Rows
  PROVE  LET u == Append(v, old) IN [u EXCEPT ![Len(u)] = row] = Append(v, row)
<1> DEFINE u == Append(v, old)
           n == Len(v) + 1
           w == Append(v, row)
           x == [u EXCEPT ![n] = row]
<1>1. n \in Nat /\ u \in Seq(Rows) /\ Len(u) = n /\ \A i \in 1..n : i # n => u[i] = v[i]
  OBVIOUS
<1>2. w \in Seq(Rows) /\ Len(w) = n /\ w[n] = row /\ \A i \in 1..n : i # n => w[i] = v[i]
  OBVIOUS
<1> HIDE DEF u, w, n
<1>3. x \in Seq(Rows) /\ Len(x) = n
  <2>1. u \in [1..n -> Rows]
    BY <1>1
  <2>2. x \in [1..n -> Rows]
    BY <2>1
  <2> HIDE DEF x
  <2> QED
    BY <1>1, <2>2
<1>4. \A i \in 1..n : x[i] = w[i]
  <2>1. DOMAIN u = 1..n
    BY <1>1
  <2> QED
    BY <1>1, <1>2, <2>1
<1> HIDE DEF x
<1>5. x = w
  BY <1>2, <1>3, <1>4
<1> QED
  BY <1>1, <1>5 DEF x, u, w

\* The row at the cursor, captured as the start of a row that others look like, is complete.
LEMMA OutputComplete ==
  ASSUME NEW t \in Seq(Rows), NEW at \in Places, NEW row \in Rows, NEW out, ~IsToken(row), row # Marker("END"),
         row # Marker("BEGIN"),
         Printed(Append(t, Same), at), at # "shown", OutputIsText(Append(t, Same), at, out)
  PROVE  OutputIsText(Append(t, row), at,
                      IF at \in Phases THEN [out EXCEPT ![at] = [@ EXCEPT ![Len(@)] = row]] ELSE out)
<1> DEFINE p == Append(t, Same)
           q == Append(t, row)
           T == Text(t)
<1>1. /\ Same \in Rows /\ ~IsToken(Same) /\ Same # Marker("END") /\ Same # Marker("BEGIN")
  BY RowFacts, BlankIsRow, TagNames
<1>2. p \in Seq(Rows) /\ Len(p) = Len(t) + 1 /\ p[Len(t) + 1] = Same /\ \A i \in 1..Len(t) : p[i] = t[i]
  BY <1>1
<1> HIDE DEF p
<1>3. CASE ~Contains(t, Marker("BEGIN"))
  <2>1. ~Contains(p, Marker("BEGIN"))
    BY <1>1, <1>2, <1>3 DEF Contains
  <2>2. at = "echo"
    BY <1>2, <2>1, PrintedShape DEF p
  <2>3. Text(p) = <<>> /\ Text(q) = <<>>
    BY <1>1, <1>3, TextBelow DEF p
  <2>4. at \notin Phases
    BY <2>2 DEF Phases
  <2> HIDE DEF q
  <2> QED
    BY <2>2, <2>3, <2>4 DEF OutputIsText, q, p
<1>4. ASSUME NEW b, NEW e, Between(t, b, e), e <= Len(t)
      PROVE  OutputIsText(q, at, IF at \in Phases THEN [out EXCEPT ![at] = [@ EXCEPT ![Len(@)] = row]] ELSE out)
  <2>1. Text(p) = T /\ Text(q) = T
    BY <1>1, <1>4, TextBelow DEF p
  <2>2. Contains(p, Marker("END"))
    <3>1. e \in 1..Len(t) /\ t[e] = Marker("END") /\ e \in 1..Len(p)
      BY <1>2, <1>4 DEF Between
    <3> QED
      BY <1>2, <3>1 DEF Contains
  <2>3. at = "prompt" /\ at \notin Phases
    BY <1>2, <2>2, PrintedShape DEF p, Phases
  <2> HIDE DEF q, T
  <2> QED
    BY <2>1, <2>3 DEF OutputIsText, p
<1>5. ASSUME NEW b, NEW e, Between(t, b, e), e = Len(t) + 1
      PROVE  OutputIsText(q, at, IF at \in Phases THEN [out EXCEPT ![at] = [@ EXCEPT ![Len(@)] = row]] ELSE out)
  <2>1. T \in Seq(Rows) /\ Text(p) = Append(T, Same) /\ Text(q) = Append(T, row)
    BY <1>1, <1>5, TextBelow DEF p
  <2>2. at \in Phases /\ at # "echo" /\ at # "prompt"
    <3>1. Contains(p, Marker("BEGIN"))
      <4>1. b \in 1..Len(t) /\ t[b] = Marker("BEGIN") /\ b \in 1..Len(p)
        BY <1>2, <1>5 DEF Between
      <4> QED
        BY <1>2, <4>1 DEF Contains
    <3>2. Between(p, b, Len(p) + 1)
      <4>1. Len(t) \in Nat /\ b \in 1..Len(t) /\ e \in (b + 1)..(Len(t) + 1)
        BY <1>5 DEF Between
      <4>2. \A i \in (b + 1)..((Len(p) + 1) - 1) : p[i] # Marker("END")
        <5> SUFFICES ASSUME NEW i \in (b + 1)..((Len(p) + 1) - 1)
                     PROVE  p[i] # Marker("END")
          OBVIOUS
        <5>1. CASE i = Len(t) + 1
          BY <1>1, <1>2, <5>1
        <5>2. CASE i # Len(t) + 1
          <6>1. i \in 1..Len(t) /\ i \in (b + 1)..(e - 1)
            BY <1>2, <1>5, <4>1, <5>2
          <6> QED
            BY <1>2, <1>5, <6>1 DEF Between
        <5> QED
          BY <5>1, <5>2
      <4>3. /\ b \in 1..Len(p) /\ p[b] = Marker("BEGIN") /\ \A i \in 1..(b - 1) : p[i] # Marker("BEGIN")
            /\ Len(p) + 1 \in (b + 1)..(Len(p) + 1) /\ ~(Len(p) + 1 <= Len(p))
        BY <1>2, <1>5, <4>1 DEF Between
      <4> QED
        BY <4>2, <4>3 DEF Between
    <3>3. ~(Len(p) + 1 <= Len(p))
      BY <1>2
    <3>4. at # "echo" /\ at # "prompt"
      BY <1>2, <3>1, <3>2, <3>3, PrintedShape DEF p
    <3> QED
      BY <3>4 DEF Places
  <2>3. EndsIn(Append(T, Same), at) /\ out = [phase \in Phases |-> Slice(Append(T, Same), phase)]
    BY <2>1, <2>2 DEF OutputIsText, p
  <2> HIDE DEF T, q
  <2>4. PICK now : EndsIn(T, now)
    BY <2>1, EndsInOne
  <2>5. now = at
    <3>1. EndsIn(Append(T, Same), IF IsToken(Same) THEN PhaseAfter(Same.tag) ELSE now)
      BY <1>1, <2>1, <2>4, SliceAppend
    <3>2. Append(T, Same) \in Seq(Rows)
      BY <1>1, <2>1
    <3> QED
      BY <1>1, <2>3, <3>1, <3>2, EndsInOne
  <2>6. \A phase : Slice(Append(T, Same), phase) =
           IF phase = at THEN Append(Slice(T, phase), Same) ELSE Slice(T, phase)
    BY <1>1, <2>1, <2>2, <2>4, <2>5, SliceText
  <2>7. /\ EndsIn(Append(T, row), at)
        /\ \A phase : Slice(Append(T, row), phase) =
             IF phase = at THEN Append(Slice(T, phase), row) ELSE Slice(T, phase)
    BY <2>1, <2>2, <2>4, <2>5, SliceText
  <2> DEFINE v == Slice(T, at)
             u == Append(v, Same)
  <2>8. [u EXCEPT ![Len(u)] = row] = Append(v, row)
    <3>1. v \in Seq(Rows)
      BY <2>1, SliceType
    <3> HIDE DEF v
    <3> QED
      BY <1>1, <3>1, LastReplaced
  <2>9. out[at] = u
    BY <2>2, <2>3, <2>6
  <2> DEFINE new == [out EXCEPT ![at] = [@ EXCEPT ![Len(@)] = row]]
  <2>10. new = [out EXCEPT ![at] = [u EXCEPT ![Len(u)] = row]]
    <3> HIDE DEF u
    <3> QED
      BY <2>9
  <2>11. new = [phase \in Phases |-> Slice(Append(T, row), phase)]
    <3> DEFINE w == [u EXCEPT ![Len(u)] = row]
    <3>1. w = Slice(Append(T, row), at)
      BY <2>7, <2>8
    <3>2. \A phase \in Phases : phase # at => Slice(Append(T, row), phase) = Slice(Append(T, Same), phase)
      BY <2>6, <2>7
    <3> HIDE DEF w
    <3>3. new = [out EXCEPT ![at] = w]
      BY <2>10, Zenon DEF w
    <3> HIDE DEF new
    <3> QED
      BY <2>2, <2>3, <3>1, <3>2, <3>3
  <2> HIDE DEF new
  <2> QED
    BY <2>1, <2>2, <2>7, <2>11 DEF OutputIsText, new
<1> QED
  <2>1. CASE Contains(t, Marker("BEGIN"))
    <3>1. PICK b, e : Between(t, b, e)
      BY <2>1, BetweenExists
    <3>2. e <= Len(t) \/ e = Len(t) + 1
      BY <3>1 DEF Between
    <3> QED
      BY <1>4, <1>5, <3>1, <3>2
  <2> QED
    BY <1>3, <2>1

-----------------------------------------------------------------------------
(* The markers in the accumulator. *)

Seen(row) == \E j \in 1..polled : pane[j] = row

\* Rows whose markers are among the first n rows of the pane.
Known(n) == {row \in Rows : \A t \in MarkerTags : row = Marker(t) => \E j \in 1..n : pane[j] = Marker(t)}
MarkersSeen == acc \in Seq(Known(polled)) /\ last \in Seq(Known(polled))

\* What an accumulator keeps: BEGIN, and ERROR below it.
KeepsBegin(s) == Contains(s, Marker("BEGIN"))
KeepsError(s) == \E i, j \in 1..Len(s) : i < j /\ s[i] = Marker("BEGIN") /\ s[j] = Marker("ERROR")
MarkersKept ==
  pc = "poll" /\ ~outrun =>
    /\ Seen(Marker("BEGIN")) => KeepsBegin(acc)
    /\ Seen(Marker("ERROR")) => KeepsError(acc)
    /\ ~Seen(Marker("END"))

\* The state before a poll that captures cap and splices it to s.
Polls(cap, st, s, o) ==
  /\ pane \in Seq(Rows) /\ polled \in 0..Len(pane) /\ prog \in Places /\ Printed(pane, prog)
  /\ MarkersSeen /\ MarkersKept /\ pc = "poll" /\ Shows(cap, st) /\ Joins(s, cap, o)

\* Nothing was missed.
Complete == ~outrun /\ Len(pane) - polled <= Window

\* No marker is printed twice.
LEMMA OnlyOnce ==
  ASSUME NEW p, NEW at, Printed(p, at), NEW t \in MarkerTags,
         NEW i \in 1..Len(p), NEW j \in 1..Len(p), p[i] = Marker(t), p[j] = Marker(t)
  PROVE  i = j
BY DEF Printed, MarkersOnce

\* A poll captures and splices rows whose markers are in the pane.
LEMMA KnownRows ==
  ASSUME NEW cap, NEW st, NEW s, NEW o, Polls(cap, st, s, o)
  PROVE  /\ cap \in Seq(Known(Len(pane))) /\ s \in Seq(Known(Len(pane)))
         /\ acc \in Seq(Rows) /\ last \in Seq(Rows) /\ cap # <<>> /\ Len(cap) \in Nat /\ Len(pane) \in Nat
         /\ polled \in Nat /\ polled <= Len(pane)
<1> DEFINE N == Len(pane)
           K == Known(N)
<1>1. N \in Nat /\ polled \in 0..N /\ Known(polled) \subseteq K /\ K \subseteq Rows
  BY DEF Known, Polls
<1>2. cap \in Seq(Rows) /\ Len(cap) \in 1..Window
  BY DEF Polls, Shows
<1>3. \A x \in 1..Len(cap) : cap[x] \in K
  <2> SUFFICES ASSUME NEW x \in 1..Len(cap)
               PROVE  cap[x] \in K
    OBVIOUS
  <2>1. cap[x] \in Rows /\ cap[x] = IF st + x <= N THEN pane[st + x] ELSE Blank
    BY <1>2 DEF Polls, Shows
  <2>2. CASE st + x <= N
    <3>1. st + x \in 1..N
      BY <1>1, <1>2, <2>2 DEF Polls, Shows
    <3> QED
      BY <2>1, <2>2, <3>1 DEF Known
  <2>3. CASE ~(st + x <= N)
    <3>1. \A t \in MarkerTags : Blank # Marker(t)
      BY RowFacts
    <3> QED
      BY <2>1, <2>3, <3>1 DEF Known
  <2> QED
    BY <2>2, <2>3
<1>4. acc \in Seq(Known(polled)) /\ last \in Seq(Known(polled))
  BY DEF Polls, MarkersSeen
<1> HIDE DEF K, N
<1>5. acc \in Seq(Rows) /\ last \in Seq(Rows) /\ \A i \in 1..Len(acc) : acc[i] \in K
  BY <1>1, <1>4
<1>6. cap \in Seq(K)
  BY <1>2, <1>3
<1>7. s \in Seq(K)
  <2>1. /\ o \in 0..Len(cap) /\ s \in Seq(Rows) /\ Len(s) = Len(acc) + (Len(cap) - o)
        /\ \A i \in 1..Len(acc) : s[i] = acc[i]
        /\ \A x \in (o + 1)..Len(cap) : s[Len(acc) + (x - o)] = cap[x]
    BY DEF Polls, Joins
  <2>2. ASSUME NEW k \in 1..Len(s)
        PROVE  s[k] \in K
    <3>0. Len(acc) \in Nat /\ Len(cap) \in Nat
      BY <1>2, <1>5
    <3>1. CASE k <= Len(acc)
      <4>1. k \in 1..Len(acc)
        BY <3>0, <3>1
      <4> QED
        BY <1>5, <2>1, <4>1
    <3>2. CASE ~(k <= Len(acc))
      <4> DEFINE x == k - Len(acc) + o
      <4>1. x \in (o + 1)..Len(cap) /\ Len(acc) + (x - o) = k /\ x \in 1..Len(cap)
        BY <2>1, <3>0, <3>2
      <4> HIDE DEF x
      <4> QED
        BY <1>3, <2>1, <4>1
    <3> QED
      BY <3>1, <3>2
  <2> QED
    BY <2>1, <2>2
<1>8. cap # <<>> /\ Len(cap) \in Nat
  BY <1>2
<1> QED
  BY <1>1, <1>5, <1>6, <1>7, <1>8 DEF K, N

\* A marker among them is in the pane.
LEMMA KnownContains ==
  ASSUME NEW u \in Seq(Known(Len(pane))), NEW t \in MarkerTags, Contains(u, Marker(t))
  PROVE  Contains(pane, Marker(t))
BY DEF Contains, Known

\* A marker printed since the last poll is below the old accumulator, in the order printed.
Place(i, st, o) == Len(acc) + ((i - st) - o)

\* Where the markers printed since the last poll are in the accumulator.
LEMMA NewMarkers ==
  ASSUME NEW cap, NEW st, NEW s, NEW o, Polls(cap, st, s, o), Complete
  PROVE  /\ \A t \in MarkerTags : \A i \in (polled + 1)..Len(pane) : pane[i] = Marker(t) =>
              /\ Place(i, st, o) \in (Len(acc) + 1)..Len(s) /\ s[Place(i, st, o)] = Marker(t)
              /\ i - st \in 1..Len(cap) /\ cap[i - st] = Marker(t)
         /\ \A t \in MarkerTags : \A k \in (Len(acc) + 1)..Len(s) : s[k] = Marker(t) =>
              \E i \in 1..Len(pane) : pane[i] = Marker(t) /\ k = Place(i, st, o)
         /\ st \in Nat /\ o \in Nat /\ Len(acc) \in Nat /\ Len(s) \in Nat /\ st <= polled
         /\ Len(acc) <= Len(s) /\ \A k \in 1..Len(acc) : s[k] = acc[k]
<1> DEFINE N == Len(pane)
           L == Len(cap)
           A == Len(acc)
<1>1. /\ N \in Nat /\ polled \in 0..N /\ L \in Nat /\ A \in Nat /\ last \in Seq(Known(polled))
      /\ Len(last) \in Nat
  <2>1. last \in Seq(Known(polled)) /\ polled \in 0..Len(pane)
    BY DEF Polls, MarkersSeen
  <2> QED
    BY <2>1, KnownRows
<1>2. /\ st \in Nat /\ N <= st + L
      /\ \A x \in 1..L : cap[x] = IF st + x <= N THEN pane[st + x] ELSE Blank
      /\ \A p \in 0..N : N - p <= Window => st <= p
  BY DEF Polls, Shows
<1>3. /\ o \in 0..L /\ s \in Seq(Rows) /\ Len(s) = A + (L - o)
      /\ \A i \in 1..A : s[i] = acc[i]
      /\ \A x \in (o + 1)..L : s[A + (x - o)] = cap[x]
      /\ \A x \in 1..o : \E j \in 1..Len(last) : last[j] = cap[x]
  BY DEF Polls, Joins
<1>4. st <= polled
  BY <1>1, <1>2 DEF Complete
<1> HIDE DEF N, L, A
<1>5. ASSUME NEW t \in MarkerTags, NEW i \in (polled + 1)..N, pane[i] = Marker(t)
      PROVE  /\ Place(i, st, o) \in (A + 1)..Len(s) /\ s[Place(i, st, o)] = Marker(t)
             /\ i - st \in 1..L /\ cap[i - st] = Marker(t)
  <2> DEFINE x == i - st
  <2>1. x \in 1..L /\ st + x = i /\ i <= N /\ i \in 1..N
    BY <1>1, <1>2, <1>4
  <2> HIDE DEF x
  <2>2. cap[x] = Marker(t)
    BY <1>2, <1>5, <2>1
  <2>3. ~(x <= o)
    <3> SUFFICES ASSUME x <= o
                 PROVE  FALSE
      OBVIOUS
    <3>1. x \in 1..o
      BY <1>1, <1>3, <2>1
    <3>2. PICK j \in 1..Len(last) : last[j] = Marker(t)
      BY <1>3, <2>2, <3>1
    <3>3. last[j] \in Known(polled)
      BY <1>1, <3>2
    <3>4. PICK k \in 1..polled : pane[k] = Marker(t)
      BY <3>2, <3>3 DEF Known
    <3>5. k \in 1..N
      BY <1>1, <3>4
    <3>6. k = i
      BY <1>5, <2>1, <3>4, <3>5, OnlyOnce DEF Polls, N
    <3> QED
      BY <1>1, <3>4, <3>6
  <2>4. x \in (o + 1)..L /\ A + (x - o) \in (A + 1)..(A + (L - o))
    BY <1>1, <1>3, <2>1, <2>3
  <2>5. Place(i, st, o) = A + (x - o)
    BY DEF Place, A, x
  <2> QED
    BY <1>3, <2>1, <2>2, <2>4, <2>5 DEF x
<1>6. ASSUME NEW t \in MarkerTags, NEW k \in (A + 1)..Len(s), s[k] = Marker(t)
      PROVE  \E i \in 1..N : pane[i] = Marker(t) /\ k = Place(i, st, o)
  <2> DEFINE x == k - A + o
  <2>1. x \in (o + 1)..L /\ x \in 1..L /\ A + (x - o) = k
    BY <1>1, <1>3
  <2> HIDE DEF x
  <2>2. cap[x] = Marker(t)
    BY <1>3, <1>6, <2>1
  <2>3. st + x <= N /\ pane[st + x] = Marker(t)
    <3>1. Blank # Marker(t)
      BY RowFacts
    <3> QED
      BY <1>2, <2>1, <2>2, <3>1
  <2>4. st + x \in 1..N /\ k = A + (((st + x) - st) - o)
    <3>1. st \in Nat /\ x \in Nat /\ o \in Nat /\ N \in Nat /\ x >= 1 /\ st + x <= N
      BY <1>1, <1>2, <1>3, <2>1, <2>3
    <3>2. st + x \in 1..N /\ (st + x) - st = x
      BY <3>1
    <3> QED
      BY <2>1, <3>2
  <2> QED
    BY <2>3, <2>4 DEF Place, A
<1>7. Len(s) \in Nat /\ A <= Len(s) /\ o \in Nat
  BY <1>1, <1>3
<1> QED
  BY <1>1, <1>2, <1>3, <1>4, <1>5, <1>6, <1>7 DEF N, L, A

\* The markers of the pane in the accumulator with the new capture.
LEMMA SplicedKeeps ==
  ASSUME NEW cap, NEW st, NEW s, NEW o, Polls(cap, st, s, o), Complete
  PROVE  /\ Contains(pane, Marker("BEGIN")) => KeepsBegin(s)
         /\ Contains(pane, Marker("ERROR")) => KeepsError(s)
         /\ Contains(pane, Marker("END")) => \E z \in 1..Len(s) :
              /\ s[z] = Marker("END")
              /\ \A t \in MarkerTags : \A k \in 1..Len(s) : s[k] = Marker(t) => k <= z
              /\ \A k \in 1..Len(s) : s[k] = Marker("END") => k = z
<1> DEFINE N == Len(pane)
           A == Len(acc)
           B == Marker("BEGIN")
           X == Marker("ERROR")
           Z == Marker("END")
           at(i) == Place(i, st, o)
<1>1. /\ \A t \in MarkerTags : \A i \in (polled + 1)..N : pane[i] = Marker(t) =>
           at(i) \in (A + 1)..Len(s) /\ s[at(i)] = Marker(t)
      /\ \A t \in MarkerTags : \A k \in (A + 1)..Len(s) : s[k] = Marker(t) =>
           \E i \in 1..N : pane[i] = Marker(t) /\ k = at(i)
      /\ st \in Nat /\ o \in Nat /\ A \in Nat /\ Len(s) \in Nat
      /\ A <= Len(s) /\ \A k \in 1..A : s[k] = acc[k]
  BY NewMarkers
<1>2. N \in Nat /\ polled \in 0..N
  BY KnownRows
<1>3. \A i, j \in 1..N : i <= j => at(i) <= at(j)
  BY <1>1, <1>2 DEF Place
<1>4. \A i, j \in 1..N : i < j => at(i) < at(j)
  BY <1>1, <1>2 DEF Place
<1>5. /\ Seen(B) => KeepsBegin(acc)
      /\ Seen(X) => KeepsError(acc)
      /\ ~Seen(Z)
  BY DEF Polls, MarkersKept, Complete
<1>6. \A i \in 1..N : i \in 1..polled \/ i \in (polled + 1)..N
  BY <1>2
<1>7. \A t \in MarkerTags : \A k \in 1..A : acc[k] = Marker(t) => Seen(Marker(t))
  <2>1. acc \in Seq(Known(polled))
    BY DEF Polls, MarkersSeen
  <2> QED
    BY <2>1 DEF Known, Seen
<1>8. \A k \in 1..Len(s) : k \in 1..A \/ k \in (A + 1)..Len(s)
  BY <1>1
<1>9. \A k \in 1..A : k \in 1..Len(s)
  BY <1>1
<1>10. /\ prog \in Places /\ Printed(pane, prog)
  BY DEF Polls
<1> HIDE DEF N, A, at, B, X, Z
<1>11. ASSUME NEW b \in 1..N, pane[b] = B
       PROVE  \E k \in 1..Len(s) : s[k] = B /\ (k \in 1..A \/ k = at(b))
  <2>1. CASE b \in 1..polled
    <3>1. PICK k \in 1..A : acc[k] = B
      BY <1>5, <1>11, <2>1 DEF Seen, KeepsBegin, Contains, A, B
    <3> QED
      BY <1>1, <1>9, <3>1
  <2>2. CASE b \in (polled + 1)..N
    <3>1. at(b) \in (A + 1)..Len(s) /\ s[at(b)] = B
      BY <1>1, <1>11, <2>2, TagNames DEF B
    <3>2. at(b) \in 1..Len(s)
      BY <1>1, <3>1
    <3> QED
      BY <3>1, <3>2
  <2> QED
    BY <1>6, <2>1, <2>2
<1>12. Contains(pane, B) => KeepsBegin(s)
  BY <1>11 DEF KeepsBegin, Contains, B, N
<1>13. ASSUME Contains(pane, X)
       PROVE  KeepsError(s)
  <2>1. PICK e \in 1..N : pane[e] = X
    BY <1>13 DEF Contains, N
  <2>2. PICK b \in 1..N : pane[b] = B
    <3>1. prog # "echo"
      <4>1. "echo" \in Ahead("ERROR")
        BY DEF Ahead
      <4> QED
        BY <1>10, <2>1, <4>1, TagNames DEF Printed, MarkersOnce, N, X
    <3> QED
      BY <1>10, <3>1 DEF Printed, MarkersInOrder, Contains, B, N
  <2>3. b < e
    <3>1. b <= e
      BY <1>10, <2>1, <2>2, TagNames DEF Printed, MarkersInOrder, N, B, X
    <3>2. B # X
      BY RowFacts, TagNames DEF B, X
    <3> QED
      BY <1>2, <2>1, <2>2, <3>1, <3>2
  <2>4. CASE e \in 1..polled
    <3>1. PICK i, j \in 1..A : i < j /\ acc[i] = B /\ acc[j] = X
      BY <1>5, <2>1, <2>4 DEF Seen, KeepsError, A, B, X
    <3>2. i \in 1..Len(s) /\ j \in 1..Len(s) /\ s[i] = B /\ s[j] = X
      BY <1>1, <1>9, <3>1
    <3> QED
      BY <3>1, <3>2 DEF KeepsError, B, X
  <2>5. CASE e \in (polled + 1)..N
    <3>1. at(e) \in (A + 1)..Len(s) /\ s[at(e)] = X
      BY <1>1, <2>1, <2>5, TagNames DEF X
    <3>2. PICK k \in 1..Len(s) : s[k] = B /\ (k \in 1..A \/ k = at(b))
      BY <1>11, <2>2
    <3>3. k < at(e) /\ at(e) \in 1..Len(s)
      BY <1>1, <1>4, <2>1, <2>2, <2>3, <3>1, <3>2
    <3> QED
      BY <3>1, <3>2, <3>3 DEF KeepsError, B, X
  <2> QED
    BY <1>6, <2>1, <2>4, <2>5
<1>14. ASSUME Contains(pane, Z)
       PROVE  \E z \in 1..Len(s) :
                /\ s[z] = Z
                /\ \A t \in MarkerTags : \A k \in 1..Len(s) : s[k] = Marker(t) => k <= z
                /\ \A k \in 1..Len(s) : s[k] = Z => k = z
  <2>1. PICK z \in 1..N : pane[z] = Z
    BY <1>14 DEF Contains, N
  <2>2. z \in (polled + 1)..N
    BY <1>5, <1>6, <2>1 DEF Seen
  <2>3. at(z) \in (A + 1)..Len(s) /\ s[at(z)] = Z /\ at(z) \in 1..Len(s)
    <3>1. at(z) \in (A + 1)..Len(s) /\ s[at(z)] = Z
      BY <1>1, <2>1, <2>2, TagNames DEF Z
    <3> QED
      BY <1>1, <3>1
  <2>4. ASSUME NEW t \in MarkerTags, NEW k \in 1..Len(s), s[k] = Marker(t)
        PROVE  k <= at(z)
    <3>1. CASE k \in 1..A
      BY <1>1, <2>3, <3>1
    <3>2. CASE k \in (A + 1)..Len(s)
      <4>1. PICK i \in 1..N : pane[i] = Marker(t) /\ k = at(i)
        BY <1>1, <2>4, <3>2
      <4>2. i <= z
        BY <1>10, <2>1, <4>1, TagNames DEF Printed, MarkersInOrder, N, Z
      <4> QED
        BY <1>3, <2>1, <4>1, <4>2
    <3> QED
      BY <1>8, <3>1, <3>2
  <2>5. ASSUME NEW k \in 1..Len(s), s[k] = Z
        PROVE  k = at(z)
    <3>1. CASE k \in 1..A
      <4>1. acc[k] = Z
        BY <1>1, <2>5, <3>1
      <4>2. Seen(Z)
        BY <1>7, <3>1, <4>1, TagNames DEF Z
      <4> QED
        BY <1>5, <4>2
    <3>2. CASE k \in (A + 1)..Len(s)
      <4>1. PICK i \in 1..N : pane[i] = Z /\ k = at(i)
        BY <1>1, <2>5, <3>2, TagNames DEF Z
      <4>2. i = z
        BY <1>10, <2>1, <4>1, TagNames, OnlyOnce DEF N, Z
      <4> QED
        BY <4>1, <4>2
    <3> QED
      BY <1>8, <3>1, <3>2
  <2> QED
    BY <2>3, <2>4, <2>5
<1> QED
  BY <1>12, <1>13, <1>14 DEF B, X, Z

Found(S) == [begin : BOOLEAN, end : BOOLEAN, body : Seq(S)]

\* An extract of known rows has known rows; it found BEGIN and END where they are.
LEMMA ExtractType ==
  ASSUME NEW S \in SUBSET Rows, NEW u \in Seq(S)
  PROVE  /\ ExtractBetweenMarkers(u) \in Found(S)
         /\ ExtractBetweenMarkers(u).begin <=> Contains(u, Marker("BEGIN"))
         /\ ExtractBetweenMarkers(u).end => Contains(u, Marker("END"))
<1>0. u \in Seq(Rows)
  OBVIOUS
<1>1. CASE ~Contains(u, Marker("BEGIN"))
  <2>1. ExtractBetweenMarkers(u) = [begin |-> FALSE, end |-> FALSE, body |-> <<>>]
    BY <1>0, <1>1, ExtractNothing DEF Nothing
  <2>2. <<>> \in Seq(S)
    OBVIOUS
  <2> QED
    BY <1>1, <2>1, <2>2 DEF Found
<1>2. CASE Contains(u, Marker("BEGIN"))
  <2>1. PICK b, e : Between(u, b, e)
    BY <1>0, <1>2, BetweenExists
  <2> DEFINE body == SubSeq(u, b + 1, e - 1)
             end == e <= Len(u)
  <2>2. ExtractBetweenMarkers(u) = [begin |-> TRUE, end |-> end, body |-> body]
    BY <1>0, <2>1, ExtractIs
  <2>3. Len(u) \in Nat /\ b \in 1..Len(u) /\ e \in (b + 1)..(Len(u) + 1)
    BY <2>1 DEF Between
  <2>4. body \in Seq(S)
    <3>1. b + 1 \in 1..(Len(u) + 1) /\ e - 1 \in ((b + 1) - 1)..Len(u)
      BY <2>3
    <3>2. \A i \in (b + 1)..(e - 1) : i \in 1..Len(u) /\ u[i] \in S
      BY <2>3
    <3> QED
      BY <2>3, <3>1, <3>2
  <2>5. end => Contains(u, Marker("END"))
    <3>1. end => e \in 1..Len(u)
      BY <2>3
    <3> QED
      BY <2>1, <3>1 DEF Contains, Between
  <2>6. end \in BOOLEAN
    OBVIOUS
  <2> HIDE DEF body, end
  <2>7. /\ ExtractBetweenMarkers(u).begin = TRUE
        /\ ExtractBetweenMarkers(u).end = end
        /\ ExtractBetweenMarkers(u) \in Found(S)
    BY <2>2, <2>4, <2>6 DEF Found
  <2> QED
    BY <1>2, <2>5, <2>7
<1> QED
  BY <1>1, <1>2

\* An END below BEGIN is found.
LEMMA EndBelow ==
  ASSUME NEW u \in Seq(Rows), NEW b, NEW e, Between(u, b, e),
         NEW z \in 1..Len(u), u[z] = Marker("END"), b < z
  PROVE  e <= Len(u) /\ u[e] = Marker("END") /\ e \in 1..Len(u) /\ b \in 1..Len(u) /\ b < e
<1>1. Len(u) \in Nat /\ b \in 1..Len(u) /\ e \in (b + 1)..(Len(u) + 1) /\ z \notin (b + 1)..(e - 1)
  BY DEF Between
<1>2. e <= Len(u)
  BY <1>1
<1>3. u[e] = Marker("END")
  BY <1>2 DEF Between
<1> QED
  BY <1>1, <1>2, <1>3

\* A part of the pane that has BEGIN and END has the text between them.
LEMMA PartText ==
  ASSUME NEW p \in Seq(Rows), NEW at, Printed(p, at), NEW t \in Seq(Rows), NEW off \in Nat,
         NEW b, NEW e, Between(t, b, e), e <= Len(t),
         \A i \in b..e : off + i <= Len(p) /\ t[i] = p[off + i]
  PROVE  ExtractBetweenMarkers(t) = ExtractBetweenMarkers(p)
<1>1. /\ Len(t) \in Nat /\ Len(p) \in Nat /\ b \in 1..Len(t) /\ e \in (b + 1)..Len(t)
      /\ t[b] = Marker("BEGIN") /\ t[e] = Marker("END")
  BY DEF Between
<1>2. off + b \in 1..Len(p) /\ off + e \in 1..Len(p) /\ off + b < off + e
  BY <1>1
<1>3. p[off + b] = Marker("BEGIN") /\ p[off + e] = Marker("END")
  BY <1>1
<1>4. \A i \in 1..((off + b) - 1) : p[i] # Marker("BEGIN")
  <2> SUFFICES ASSUME NEW i \in 1..((off + b) - 1), p[i] = Marker("BEGIN")
               PROVE  FALSE
    OBVIOUS
  <2>1. i \in 1..Len(p) /\ i # off + b
    BY <1>1, <1>2
  <2> QED
    BY <1>2, <1>3, <2>1, OnlyOnce, TagNames
<1>5. \A i \in (off + b + 1)..((off + e) - 1) : p[i] # Marker("END")
  <2> SUFFICES ASSUME NEW i \in (off + b + 1)..((off + e) - 1)
               PROVE  p[i] # Marker("END")
    OBVIOUS
  <2> DEFINE k == i - off
  <2>1. k \in (b + 1)..(e - 1) /\ k \in b..e /\ off + k = i
    BY <1>1
  <2> HIDE DEF k
  <2> QED
    BY <2>1 DEF Between
<1>6. Between(p, off + b, off + e)
  <2>1. off + e \in ((off + b) + 1)..(Len(p) + 1)
    BY <1>1, <1>2
  <2> QED
    BY <1>2, <1>3, <1>4, <1>5, <2>1 DEF Between
<1> DEFINE u == SubSeq(t, b + 1, e - 1)
           v == SubSeq(p, (off + b) + 1, (off + e) - 1)
<1>7. ExtractBetweenMarkers(t) = [begin |-> TRUE, end |-> TRUE, body |-> u]
  BY ExtractIs
<1>8. ExtractBetweenMarkers(p) = [begin |-> TRUE, end |-> TRUE, body |-> v]
  <2>1. off + e <= Len(p)
    BY <1>2
  <2> QED
    BY <1>6, <2>1, ExtractIs
<1>9. u \in Seq(Rows) /\ Len(u) = e - b - 1 /\ \A i \in 1..(e - b - 1) : u[i] = t[b + i]
  <2>1. b + 1 \in 1..(Len(t) + 1) /\ e - 1 \in ((b + 1) - 1)..Len(t) /\ (e - 1) - (b + 1) + 1 = e - b - 1
        /\ (b + 1) - 1 = b
    BY <1>1
  <2> QED
    BY <2>1, PartIs
<1>10. v \in Seq(Rows) /\ Len(v) = e - b - 1 /\ \A i \in 1..(e - b - 1) : v[i] = p[(off + b) + i]
  <2>1. /\ (off + b) + 1 \in 1..(Len(p) + 1) /\ (off + e) - 1 \in (((off + b) + 1) - 1)..Len(p)
        /\ ((off + e) - 1) - ((off + b) + 1) + 1 = e - b - 1 /\ ((off + b) + 1) - 1 = off + b
    BY <1>1, <1>2
  <2> QED
    BY <2>1, PartIs
<1> HIDE DEF u, v
<1>11. \A i \in 1..(e - b - 1) : t[b + i] = p[(off + b) + i]
  <2> SUFFICES ASSUME NEW i \in 1..(e - b - 1)
               PROVE  t[b + i] = p[(off + b) + i]
    OBVIOUS
  <2>1. b + i \in b..e /\ off + (b + i) = (off + b) + i
    BY <1>1
  <2> QED
    BY <2>1
<1>12. u = v
  BY <1>9, <1>10, <1>11
<1> QED
  BY <1>7, <1>8, <1>12

\* A text that has the last END of s below a BEGIN, and an ERROR between them.
LEMMA ErrorBetween ==
  ASSUME NEW u \in Seq(Rows), NEW b, NEW e, Between(u, b, e), e <= Len(u),
         NEW i \in 1..Len(u), NEW j \in 1..Len(u), i < j, u[i] = Marker("BEGIN"), u[j] = Marker("ERROR"), j <= e
  PROVE  JuliaError(ExtractBetweenMarkers(u))
<1>1. /\ Len(u) \in Nat /\ b \in 1..Len(u) /\ e \in (b + 1)..Len(u)
      /\ u[e] = Marker("END") /\ i \notin 1..(b - 1)
  BY DEF Between
<1>2. Marker("END") # Marker("ERROR")
  BY RowFacts, TagNames
<1>3. j \in (b + 1)..(e - 1)
  <2>1. j # e
    BY <1>1, <1>2
  <2> QED
    BY <1>1, <2>1
<1> DEFINE w == SubSeq(u, b + 1, e - 1)
           k == j - b
<1>4. w \in Seq(Rows) /\ Len(w) = e - b - 1 /\ \A x \in 1..(e - b - 1) : w[x] = u[b + x]
  <2>1. b + 1 \in 1..(Len(u) + 1) /\ e - 1 \in ((b + 1) - 1)..Len(u) /\ (e - 1) - (b + 1) + 1 = e - b - 1
        /\ (b + 1) - 1 = b
    BY <1>1
  <2> QED
    BY <2>1, PartIs
<1>5. k \in 1..(e - b - 1) /\ b + k = j
  BY <1>1, <1>3
<1>6. ExtractBetweenMarkers(u).body = w
  BY ExtractIs
<1> HIDE DEF w, k
<1>7. w[k] = Marker("ERROR") /\ k \in 1..Len(w)
  BY <1>4, <1>5
<1> QED
  BY <1>6, <1>7 DEF JuliaError, Contains

\* A pane with END gives the extract an end and the verdict of the code.
LEMMA EndShows ==
  ASSUME NEW p \in Seq(Rows), NEW at \in Places, Printed(p, at), Contains(p, Marker("END"))
  PROVE  /\ Contains(p, Marker("BEGIN"))
         /\ ExtractBetweenMarkers(p).end
         /\ JuliaError(ExtractBetweenMarkers(p)) <=> Contains(p, Marker("ERROR"))
<1>1. at = "prompt" /\ at # "echo" /\ Contains(p, Marker("BEGIN"))
  BY PrintedShape
<1>2. PICK b, e : Between(p, b, e) /\ e <= Len(p)
  BY <1>1, PrintedShape
<1>3. ExtractBetweenMarkers(p) = [begin |-> TRUE, end |-> TRUE, body |-> SubSeq(p, b + 1, e - 1)]
  BY <1>2, ExtractIs
<1>4. /\ Len(p) \in Nat /\ b \in 1..Len(p) /\ e \in (b + 1)..Len(p)
      /\ p[b] = Marker("BEGIN") /\ p[e] = Marker("END")
  BY <1>2 DEF Between
<1>5. ASSUME NEW j \in 1..Len(p), p[j] = Marker("ERROR")
      PROVE  JuliaError(ExtractBetweenMarkers(p))
  <2>1. b <= j /\ j <= e
    BY <1>4, <1>5, TagNames DEF Printed, MarkersInOrder
  <2>2. Marker("BEGIN") # Marker("ERROR")
    BY RowFacts, TagNames
  <2>3. b < j
    BY <1>4, <1>5, <2>1, <2>2
  <2> QED
    BY <1>2, <1>4, <1>5, <2>1, <2>3, ErrorBetween
<1>6. ASSUME JuliaError(ExtractBetweenMarkers(p))
      PROVE  Contains(p, Marker("ERROR"))
  <2> DEFINE w == SubSeq(p, b + 1, e - 1)
  <2>0. ExtractBetweenMarkers(p).body = w
    <3>1. ExtractBetweenMarkers(p) = [begin |-> TRUE, end |-> TRUE, body |-> w]
      BY <1>3
    <3> HIDE DEF w
    <3> QED
      BY <3>1
  <2>1. PICK k \in 1..Len(w) : w[k] = Marker("ERROR")
    <3> HIDE DEF w
    <3> QED
      BY <1>6, <2>0 DEF JuliaError, Contains
  <2>2. b + 1 \in 1..(Len(p) + 1) /\ e - 1 \in ((b + 1) - 1)..Len(p) /\ (e - 1) - (b + 1) + 1 = e - b - 1
        /\ (b + 1) - 1 = b
    BY <1>4
  <2>3. Len(w) = e - b - 1 /\ \A x \in 1..(e - b - 1) : w[x] = p[b + x]
    BY <2>2, PartIs
  <2> HIDE DEF w
  <2>4. b + k \in 1..Len(p) /\ p[b + k] = Marker("ERROR")
    BY <1>4, <2>1, <2>3
  <2> QED
    BY <2>4 DEF Contains
<1>7. ExtractBetweenMarkers(p).end = TRUE
  BY <1>3
<1>8. Contains(p, Marker("ERROR")) => JuliaError(ExtractBetweenMarkers(p))
  BY <1>5 DEF Contains
<1> QED
  BY <1>1, <1>6, <1>7, <1>8

\* A capture that shows BEGIN shows what the pane does, once END was printed.
LEMMA CaptureText ==
  ASSUME NEW cap, NEW st, NEW s, NEW o, Polls(cap, st, s, o),
         Contains(cap, Marker("BEGIN")), Contains(pane, Marker("END"))
  PROVE  ExtractBetweenMarkers(cap) = ExtractBetweenMarkers(pane)
<1> DEFINE N == Len(pane)
           L == Len(cap)
<1>1. /\ N \in Nat /\ L \in Nat /\ cap \in Seq(Rows) /\ pane \in Seq(Rows) /\ Printed(pane, prog) /\ prog \in Places
  BY KnownRows DEF Polls, Shows
<1>2. /\ st \in Nat /\ N <= st + L
      /\ \A x \in 1..L : cap[x] = IF st + x <= N THEN pane[st + x] ELSE Blank
  BY DEF Polls, Shows
<1>3. PICK b, e : Between(cap, b, e)
  BY <1>1, BetweenExists
<1>4. b \in 1..L /\ cap[b] = Marker("BEGIN") /\ e \in (b + 1)..(L + 1)
  BY <1>3 DEF Between
<1>5. \A t \in MarkerTags : Blank # Marker(t)
  BY RowFacts
<1>6. st + b <= N /\ pane[st + b] = Marker("BEGIN") /\ st + b \in 1..N
  <2>1. st + b <= N /\ pane[st + b] = Marker("BEGIN")
    BY <1>2, <1>4, <1>5, TagNames
  <2> QED
    BY <1>1, <1>2, <1>4, <2>1
<1>7. PICK z \in 1..N : pane[z] = Marker("END")
  BY DEF Contains
<1>8. st + b < z
  <2>1. st + b <= z
    BY <1>1, <1>6, <1>7, TagNames DEF Printed, MarkersInOrder
  <2>2. Marker("BEGIN") # Marker("END")
    BY RowFacts, TagNames
  <2> QED
    BY <1>1, <1>2, <1>4, <1>6, <1>7, <2>1, <2>2
<1> DEFINE y == z - st
<1>9. y \in 1..L /\ b < y /\ st + y = z
  BY <1>1, <1>2, <1>4, <1>7, <1>8
<1> HIDE DEF y, N, L
<1>10. cap[y] = Marker("END")
  BY <1>2, <1>7, <1>9
<1>11. e <= L /\ cap[e] = Marker("END") /\ e \in 1..L
  BY <1>1, <1>3, <1>9, <1>10, EndBelow DEF L
<1>12. st + e <= N
  BY <1>2, <1>5, <1>11, TagNames
<1>13. \A i \in b..e : st + i <= N /\ cap[i] = pane[st + i]
  <2> SUFFICES ASSUME NEW i \in b..e
               PROVE  st + i <= N /\ cap[i] = pane[st + i]
    OBVIOUS
  <2>1. i \in 1..L /\ st + i <= N
    BY <1>1, <1>2, <1>4, <1>11, <1>12
  <2> QED
    BY <1>2, <2>1
<1> QED
  BY <1>1, <1>2, <1>3, <1>11, <1>13, PartText DEF N, L

\* If nothing was missed, the accumulator shows the END of the pane, and the throw.
LEMMA SplicedText ==
  ASSUME NEW cap, NEW st, NEW s, NEW o, Polls(cap, st, s, o), Complete, Contains(pane, Marker("END"))
  PROVE  /\ ExtractBetweenMarkers(s).end
         /\ JuliaError(ExtractBetweenMarkers(s)) <=> Contains(pane, Marker("ERROR"))
<1>1. pane \in Seq(Rows) /\ Printed(pane, prog) /\ prog \in Places /\ s \in Seq(Known(Len(pane))) /\ s \in Seq(Rows)
  BY KnownRows DEF Polls, Joins
<1>2. Contains(s, Marker("BEGIN"))
  <2>1. Contains(pane, Marker("BEGIN"))
    BY <1>1, EndShows
  <2> QED
    BY <2>1, SplicedKeeps DEF KeepsBegin
<1>3. PICK z \in 1..Len(s) :
        /\ s[z] = Marker("END")
        /\ \A t \in MarkerTags : \A k \in 1..Len(s) : s[k] = Marker(t) => k <= z
        /\ \A k \in 1..Len(s) : s[k] = Marker("END") => k = z
  BY SplicedKeeps
<1>4. PICK b, e : Between(s, b, e)
  BY <1>1, <1>2, BetweenExists
<1>5. b < z
  <2>1. b \in 1..Len(s) /\ s[b] = Marker("BEGIN")
    BY <1>4 DEF Between
  <2>2. Marker("BEGIN") # Marker("END")
    BY RowFacts, TagNames
  <2>3. b <= z /\ b # z
    BY <1>3, <2>1, <2>2, TagNames
  <2> QED
    BY <1>3, <2>1, <2>3
<1>6. e <= Len(s) /\ e = z
  BY <1>1, <1>3, <1>4, <1>5, EndBelow
<1>7. ExtractBetweenMarkers(s).end = TRUE
  <2>1. ExtractBetweenMarkers(s) = [begin |-> TRUE, end |-> e <= Len(s), body |-> SubSeq(s, b + 1, e - 1)]
    BY <1>1, <1>4, ExtractIs
  <2>2. (e <= Len(s)) = TRUE
    BY <1>6
  <2> DEFINE end == e <= Len(s)
             body == SubSeq(s, b + 1, e - 1)
  <2>3. ExtractBetweenMarkers(s) = [begin |-> TRUE, end |-> end, body |-> body] /\ end = TRUE
    BY <2>1, <2>2
  <2> HIDE DEF end, body
  <2> QED
    BY <2>3
<1>8. ASSUME Contains(pane, Marker("ERROR"))
      PROVE  JuliaError(ExtractBetweenMarkers(s))
  <2>1. PICK i, j \in 1..Len(s) : i < j /\ s[i] = Marker("BEGIN") /\ s[j] = Marker("ERROR")
    BY <1>8, SplicedKeeps DEF KeepsError
  <2>2. j <= e
    BY <1>3, <1>6, <2>1, TagNames
  <2> QED
    BY <1>1, <1>4, <1>6, <2>1, <2>2, ErrorBetween
<1>9. ASSUME JuliaError(ExtractBetweenMarkers(s))
      PROVE  Contains(pane, Marker("ERROR"))
  <2>1. Known(Len(pane)) \in SUBSET Rows
    BY DEF Known
  <2>2. ExtractBetweenMarkers(s) \in Found(Known(Len(pane)))
    BY <1>1, <2>1, ExtractType
  <2>3. ExtractBetweenMarkers(s).body \in Seq(Known(Len(pane)))
    BY <2>2 DEF Found
  <2> QED
    BY <1>9, <2>3, KnownContains, TagNames DEF JuliaError
<1> QED
  BY <1>7, <1>8, <1>9

\* What a poll finds, in the capture or in the accumulator.
LEMMA FoundIs ==
  ASSUME NEW cap, NEW st, NEW s, NEW o, Polls(cap, st, s, o)
  PROVE  LET found == Find(cap, s)
         IN  /\ found \in Found(Known(Len(pane)))
             /\ found.begin <=> Contains(cap, Marker("BEGIN")) \/ Contains(s, Marker("BEGIN"))
             /\ found.begin => Contains(pane, Marker("BEGIN"))
             /\ found.end => Contains(pane, Marker("END"))
             /\ Complete /\ Contains(pane, Marker("END")) =>
                  found.end /\ (JuliaError(found) <=> Contains(pane, Marker("ERROR")))
             /\ Contains(cap, Marker("BEGIN")) /\ Contains(pane, Marker("END")) =>
                  found.end /\ found = ExtractBetweenMarkers(pane)
             /\ ~Contains(cap, Marker("BEGIN")) => found = ExtractBetweenMarkers(s)
<1> DEFINE K == Known(Len(pane))
           fc == ExtractBetweenMarkers(cap)
           fs == ExtractBetweenMarkers(s)
<1>1. K \in SUBSET Rows /\ cap \in Seq(K) /\ s \in Seq(K)
  BY KnownRows DEF Known
<1>2. /\ fc \in Found(K) /\ (fc.begin <=> Contains(cap, Marker("BEGIN"))) /\ (fc.end => Contains(cap, Marker("END")))
      /\ fs \in Found(K) /\ (fs.begin <=> Contains(s, Marker("BEGIN"))) /\ (fs.end => Contains(s, Marker("END")))
  <2> HIDE DEF K
  <2> QED
    BY <1>1, ExtractType
<1>3. /\ \A t \in MarkerTags : Contains(cap, Marker(t)) => Contains(pane, Marker(t))
      /\ \A t \in MarkerTags : Contains(s, Marker(t)) => Contains(pane, Marker(t))
  BY <1>1, KnownContains
<1>4. Contains(pane, Marker("END")) =>
        /\ ExtractBetweenMarkers(pane).end
        /\ JuliaError(ExtractBetweenMarkers(pane)) <=> Contains(pane, Marker("ERROR"))
  <2>1. pane \in Seq(Rows) /\ Printed(pane, prog) /\ prog \in Places
    BY DEF Polls
  <2> QED
    BY <2>1, EndShows
<1>5. CASE Contains(cap, Marker("BEGIN"))
  <2>1. Find(cap, s) = fc
    BY <1>2, <1>5, Zenon DEF Find
  <2>2. Contains(pane, Marker("END")) => fc = ExtractBetweenMarkers(pane)
    BY <1>5, CaptureText
  <2>3. Contains(pane, Marker("BEGIN"))
    BY <1>3, <1>5, TagNames
  <2> HIDE DEF fc, fs, K
  <2> QED
    BY <1>2, <1>3, <1>4, <1>5, <2>1, <2>2, <2>3, TagNames DEF K
<1>6. CASE ~Contains(cap, Marker("BEGIN"))
  <2>1. Find(cap, s) = fs
    BY <1>2, <1>6, Zenon DEF Find, fc, fs
  <2>2. Complete /\ Contains(pane, Marker("END")) => fs.end /\ (JuliaError(fs) <=> Contains(pane, Marker("ERROR")))
    BY SplicedText
  <2>3. fs.begin => Contains(pane, Marker("BEGIN"))
    BY <1>2, <1>3, TagNames
  <2> HIDE DEF fc, fs, K
  <2> QED
    BY <1>2, <1>3, <1>6, <2>1, <2>2, <2>3, TagNames DEF K, fs
<1> QED
  BY <1>5, <1>6

-----------------------------------------------------------------------------
(* Trimming, and accumulators that are an end of the pane. *)

\* Trimming loses what is above BEGIN and no more.
LEMMA TrimIs ==
  ASSUME NEW S \in SUBSET Rows, NEW u \in Seq(S), KeepsBegin(u)
  PROVE  LET t == TrimToBegin(u)
         IN  /\ t \in Seq(S) /\ KeepsBegin(t) /\ (KeepsError(u) => KeepsError(t))
             /\ \E d \in 0..(Len(u) - 1) : Len(t) = Len(u) - d /\ \A i \in 1..(Len(u) - d) : t[i] = u[d + i]
<1> DEFINE N == Len(u)
           p == FirstOf("BEGIN", u)
           t == TrimToBegin(u)
<1>1. N \in Nat /\ p \in 1..N /\ u[p] = Marker("BEGIN") /\ \A i \in 1..(p - 1) : u[i] # Marker("BEGIN")
  BY FirstOfIs DEF KeepsBegin, Contains
<1>2. t = SubSeq(u, p, N)
  BY Zenon DEF TrimToBegin
<1> HIDE DEF p, t
<1>3. t \in Seq(S) /\ Len(t) = N - (p - 1) /\ \A i \in 1..(N - (p - 1)) : t[i] = u[(p - 1) + i]
  <2> DEFINE w == SubSeq(u, p, N)
  <2>1. w \in Seq(S) /\ Len(w) = N - p + 1 /\ \A i \in 1..(N - p + 1) : w[i] = u[p - 1 + i]
    BY <1>1
  <2>2. N - p + 1 = N - (p - 1)
    BY <1>1
  <2> HIDE DEF w
  <2>3. t = w
    BY <1>2 DEF w
  <2> QED
    BY <2>1, <2>2, <2>3
<1> HIDE DEF N
<1>4. p - 1 \in 0..(N - 1) /\ 1 \in 1..(N - (p - 1)) /\ (p - 1) + 1 = p
  BY <1>1
<1>5. t[1] = Marker("BEGIN") /\ 1 \in 1..Len(t)
  BY <1>1, <1>3, <1>4
<1>6. KeepsBegin(t)
  BY <1>5 DEF KeepsBegin, Contains
<1>7. ASSUME KeepsError(u)
      PROVE  KeepsError(t)
  <2>1. PICK i, j \in 1..N : i < j /\ u[i] = Marker("BEGIN") /\ u[j] = Marker("ERROR")
    BY <1>7 DEF KeepsError, N
  <2>2. i \notin 1..(p - 1)
    BY <1>1, <2>1
  <2> DEFINE k == j - (p - 1)
  <2>3. k \in 1..(N - (p - 1)) /\ (p - 1) + k = j /\ 1 < k
    BY <1>1, <2>1, <2>2
  <2> HIDE DEF k
  <2>4. t[k] = Marker("ERROR") /\ k \in 1..Len(t)
    BY <1>3, <2>1, <2>3
  <2> QED
    BY <1>5, <2>3, <2>4 DEF KeepsError
<1> QED
  BY <1>3, <1>4, <1>6, <1>7 DEF t, N

\* Dropping the head bounds an accumulator that has no BEGIN.
LEMMA DropIs ==
  ASSUME NEW S \in SUBSET Rows, NEW u \in Seq(S), Len(u) > MaxAcc
  PROVE  DropHead(u) \in Seq(S) /\ Len(DropHead(u)) <= MaxAcc
<1> DEFINE h == MaxAcc \div 2
           n == Len(u)
<1>1. MaxAcc \in Nat /\ n \in Nat
  BY SizesAssumption
<1>2. h \in Nat /\ h <= MaxAcc
  BY <1>1
<1> HIDE DEF h
<1>3. DropHead(u) = SubSeq(u, n - h + 1, n)
  BY Zenon DEF DropHead, h, n
<1>4. n - h + 1 \in 1..(n + 1) /\ n - (n - h + 1) + 1 = h
  BY <1>1, <1>2
<1> DEFINE w == SubSeq(u, n - h + 1, n)
<1>5. w \in Seq(S) /\ Len(w) = n - (n - h + 1) + 1
  BY <1>1, <1>2, <1>4
<1> HIDE DEF w
<1>6. DropHead(u) = w
  BY <1>3 DEF w
<1> QED
  BY <1>2, <1>4, <1>5, <1>6

\* u is the n rows of the pane below the first off.
Part(u, off, n) == u \in Seq(Rows) /\ Len(u) = n /\ \A i \in 1..n : u[i] = pane[off + i]

\* The accumulator is the end of what was printed, and the last capture too.
AccIsPane(n) == \E off \in 0..(n - 1) : Part(acc, off, n - off)
LastIsPane(n) == Part(last, Top(n) - 1, n - (Top(n) - 1))

\* The top of a capture moves down with the pane.
LEMMA TopIs ==
  /\ \A n \in Nat : Top(n) - 1 \in Nat /\ (n > 0 => Top(n) - 1 < n)
  /\ \A m, n \in Nat : m <= n => Top(m) - 1 <= Top(n) - 1
BY WindowIs DEF Top

\* When no two rows are alike and nothing was missed, the overlap is where the captures
\* meet, and the accumulator stays the end of the pane.
LEMMA ExactSplice ==
  ASSUME NEW cap, NEW st, NEW s, NEW o, Polls(cap, st, s, o), Complete, Len(pane) >= Height,
         \A i \in 1..Len(pane) : pane[i] # Same,
         acc = <<>> \/ (AccIsPane(polled) /\ LastIsPane(polled))
  PROVE  /\ Part(cap, Top(Len(pane)) - 1, Len(pane) - (Top(Len(pane)) - 1))
         /\ \E off \in 0..(Len(pane) - 1) : Part(s, off, Len(pane) - off)
<1> DEFINE N == Len(pane)
           L == Len(cap)
           A == Len(acc)
           M == Len(last)
<1>1. /\ N \in Nat /\ L \in Nat /\ A \in Nat /\ M \in Nat /\ cap \in Seq(Rows) /\ last \in Seq(Rows) /\ cap # <<>>
      /\ polled \in Nat /\ polled <= N /\ L >= 1
  BY KnownRows DEF Polls, Shows
<1>2. /\ st \in Nat /\ st = Top(N) - 1 /\ st + L = N /\ N >= 1
      /\ \A x \in 1..L : cap[x] = IF st + x <= N THEN pane[st + x] ELSE Blank
      /\ \A p \in 0..N : N - p <= Window => st <= p
  BY WindowIs DEF Polls, Shows
<1>3. /\ o \in 0..L /\ s \in Seq(Rows) /\ Len(s) = A + (L - o)
      /\ \A i \in 1..A : s[i] = acc[i]
      /\ \A x \in (o + 1)..L : s[A + (x - o)] = cap[x]
      /\ acc = <<>> => o = 0
      /\ acc # <<>> /\ last # <<>> /\ cap # last => o = ComputeOverlap(last, cap)
      /\ acc # <<>> /\ cap = last => o = L
  BY DEF Polls, Joins
<1>4. st <= polled
  BY <1>1, <1>2 DEF Complete
<1>5. L = N - st /\ \A x \in 1..L : cap[x] = pane[st + x]
  BY <1>1, <1>2
<1>6. Part(cap, Top(N) - 1, N - (Top(N) - 1))
  BY <1>1, <1>2, <1>5 DEF Part
<1>7. \A i, j \in 1..N : pane[i] = pane[j] => i = j
  <2> SUFFICES ASSUME NEW i \in 1..N, NEW j \in 1..N, pane[i] = pane[j]
               PROVE  i = j
    OBVIOUS
  <2>1. Printed(pane, prog)
    BY DEF Polls
  <2>2. CASE \E t \in MarkerTags : pane[i] = Marker(t)
    BY <2>1, <2>2, OnlyOnce
  <2>3. CASE \E t \in MarkerTags : pane[j] = Marker(t)
    BY <2>1, <2>3, OnlyOnce
  <2>4. CASE pane[i] = Fresh(i) /\ pane[j] = Fresh(j)
    <3>1. i \in Nat /\ j \in Nat
      BY <1>1
    <3>2. Fresh(i) = Fresh(j)
      BY <2>4
    <3>3. \A m, n \in Nat : Fresh(m) = Fresh(n) => m = n
      BY RowFacts
    <3> QED
      BY <3>1, <3>2, <3>3
  <2> QED
    BY <2>1, <2>2, <2>3, <2>4 DEF Printed, RowsOfPane
<1> HIDE DEF N, L, A, M
<1>n. /\ N \in Nat /\ L \in Nat /\ A \in Nat /\ M \in Nat /\ polled \in Nat /\ st \in Nat /\ o \in Nat
      /\ st <= polled /\ polled <= N /\ L = N - st /\ o <= L /\ N >= 1 /\ L >= 1
  BY <1>1, <1>2, <1>3, <1>4, <1>5
<1>8. CASE acc = <<>>
  <2>1. A <= 0 /\ o = 0
    BY <1>3, <1>8 DEF A
  <2>2. Len(s) = N - st
    BY <1>1, <1>2, <1>3, <1>5, <2>1
  <2>3. \A x \in 1..(N - st) : s[x] = pane[st + x]
    <3> SUFFICES ASSUME NEW x \in 1..(N - st)
                 PROVE  s[x] = pane[st + x]
      OBVIOUS
    <3>1. x \in (o + 1)..L /\ A + (x - o) = x
      BY <1>1, <1>5, <2>1
    <3> QED
      BY <1>3, <1>5, <3>1
  <2>4. st \in 0..(N - 1)
    BY <1>1, <1>2
  <2> QED
    BY <1>3, <1>6, <2>2, <2>3, <2>4 DEF Part, N
<1>9. CASE acc # <<>>
  <2>1. PICK off \in 0..(polled - 1) : Part(acc, off, polled - off)
    BY <1>9 DEF AccIsPane
  <2>2. A = polled - off /\ \A i \in 1..(polled - off) : acc[i] = pane[off + i]
    BY <2>1 DEF Part, A
  <2> DEFINE top == Top(polled) - 1
  <2>3. M = polled - top /\ \A i \in 1..(polled - top) : last[i] = pane[top + i]
    BY <1>9 DEF LastIsPane, Part, M
  <2>4. top \in Nat /\ top < polled /\ top <= st /\ polled >= 1
    <3>1. polled > 0
      BY <1>1, <2>1
    <3>2. \A k \in Nat : Top(k) - 1 \in Nat /\ (k > 0 => Top(k) - 1 < k)
      BY TopIs
    <3>3. top <= Top(N) - 1
      BY <1>n, TopIs
    <3>4. top \in Nat /\ top < polled
      BY <1>n, <3>1, <3>2
    <3> HIDE DEF top
    <3> QED
      BY <1>n, <1>2, <3>1, <3>3, <3>4
  <2> HIDE DEF top
  <2>5. M >= 1 /\ last[M] = pane[polled] /\ cap[L] = pane[N]
    <3>1. M \in 1..(polled - top) /\ top + M = polled /\ L \in 1..L /\ st + L = N
      BY <1>1, <1>2, <2>3, <2>4
    <3>2. last[M] = pane[top + M]
      BY <2>3, <3>1
    <3> QED
      BY <1>5, <3>1, <3>2
  <2>6. off \in Nat /\ off < polled
    BY <1>1, <2>1
  <2>n. top \in Nat /\ top <= st /\ top < polled /\ M = polled - top /\ off \in Nat /\ off < polled /\ A = polled - off
    BY <2>2, <2>3, <2>4, <2>6
  <2>7. A + (L - o) = N - off /\ (o < L => st + o = polled)
    <3>1. CASE cap = last
      <4>1. L = M
        BY <3>1 DEF L, M
      <4>2. N \in 1..N /\ polled \in 1..N
        BY <1>1, <1>2, <2>4
      <4>3. N = polled
        BY <1>7, <2>5, <3>1, <4>1, <4>2
      <4>4. o = L
        BY <1>3, <1>9, <3>1
      <4> QED
        BY <1>1, <2>2, <2>6, <4>3, <4>4
    <3>2. CASE cap # last
      <4>1. last # <<>>
        <5>1. last = <<>> => M = 0
          BY DEF M
        <5> QED
          BY <1>1, <2>5, <5>1
      <4>2. /\ o = ComputeOverlap(last, cap) /\ o \in 0..Shorter(last, cap) /\ IsOverlap(o, last, cap)
            /\ \A m \in (o + 1)..Shorter(last, cap) : ~IsOverlap(m, last, cap)
        BY <1>1, <1>3, <1>9, <3>2, <4>1, OverlapFacts
      <4>3. Shorter(last, cap) = IF M < L THEN M ELSE L
        BY DEF Shorter, M, L
      <4>4. st + o = polled
        <5>1. CASE o >= 1
          <6>1. o \in 0..M /\ o <= L
            BY <1>1, <4>2, <4>3
          <6>2. Fits(o, last, M, cap)
            BY <1>1, <4>2, <6>1, OverlapFits DEF M, L
          <6>3. o \in 1..o /\ M - o + o = M /\ o \in 1..L
            BY <1>1, <5>1, <6>1
          <6>4. cap[o] = last[M]
            BY <6>2, <6>3 DEF Fits
          <6>5. pane[st + o] = pane[polled] /\ st + o \in 1..N /\ polled \in 1..N
            <7>1. st + o \in 1..N /\ polled \in 1..N
              BY <1>n, <2>n, <6>3
            <7>2. cap[o] = pane[st + o]
              BY <1>5, <6>3
            <7> QED
              BY <2>5, <6>4, <7>1, <7>2
          <6> QED
            BY <1>7, <6>5
        <5>2. CASE ~(o >= 1)
          <6> SUFFICES ASSUME st + o # polled
                       PROVE  FALSE
            OBVIOUS
          <6> DEFINE m == polled - st
          <6>1. m \in (o + 1)..Shorter(last, cap) /\ m \in 0..M /\ m <= L /\ m \in Nat
            <7>1. o = 0
              BY <1>1, <4>2, <4>3, <5>2
            <7>2. st < polled
              BY <1>1, <1>2, <1>4, <7>1
            <7>3. m >= 1 /\ m <= M /\ m <= L /\ m \in Nat
              BY <1>n, <2>n, <7>2
            <7> HIDE DEF m
            <7> QED
              BY <1>1, <4>3, <7>1, <7>3
          <6>2. \A j \in 1..m : cap[j] = last[M - m + j]
            <7> SUFFICES ASSUME NEW j \in 1..m
                         PROVE  cap[j] = last[M - m + j]
              OBVIOUS
            <7>1. j \in 1..L /\ M - m + j \in 1..(polled - top) /\ top + (M - m + j) = st + j
              <8>1. m = polled - st /\ m <= M /\ m <= L /\ m \in Nat
                BY <6>1
              <8> HIDE DEF m
              <8>2. j \in Nat /\ 1 <= j /\ j <= m
                BY <8>1
              <8> QED
                BY <1>n, <2>n, <8>1, <8>2
            <7>2. last[M - m + j] = pane[top + (M - m + j)]
              BY <2>3, <7>1
            <7> QED
              BY <1>5, <7>1, <7>2
          <6> HIDE DEF m
          <6>3. Fits(m, last, M, cap)
            BY <6>2 DEF Fits
          <6>4. IsOverlap(m, last, cap)
            BY <1>1, <6>1, <6>3, OverlapFits DEF M, L
          <6> QED
            BY <4>2, <6>1, <6>4
        <5> QED
          BY <5>1, <5>2
      <4>5. o \in Nat
        BY <1>1, <1>3
      <4> QED
        BY <1>n, <2>n, <4>4
    <3> QED
      BY <3>1, <3>2
  <2>8. \A k \in 1..(N - off) : s[k] = pane[off + k]
    <3> SUFFICES ASSUME NEW k \in 1..(N - off)
                 PROVE  s[k] = pane[off + k]
      OBVIOUS
    <3>1. CASE k <= A
      <4>1. k \in 1..A /\ k \in 1..(polled - off)
        BY <1>1, <2>2, <3>1
      <4> QED
        BY <1>3, <2>2, <4>1
    <3>2. CASE ~(k <= A)
      <4> DEFINE x == k - A + o
      <4>1. x \in (o + 1)..L /\ x \in 1..L /\ A + (x - o) = k /\ o < L
        BY <1>1, <1>3, <2>7, <3>2
      <4>2. st + x = off + k
        <5>1. st + o = polled
          BY <2>7, <4>1
        <5>2. k \in Nat
          BY <1>n, <2>n
        <5> QED
          BY <1>n, <2>n, <5>1, <5>2
      <4> HIDE DEF x
      <4>3. s[k] = cap[x] /\ cap[x] = pane[st + x]
        BY <1>3, <1>5, <4>1
      <4> QED
        BY <4>2, <4>3
    <3> QED
      BY <3>1, <3>2
  <2>9. off \in 0..(N - 1)
    BY <1>1, <2>6
  <2>10. Part(s, off, N - off)
    BY <1>3, <2>7, <2>8 DEF Part
  <2> QED
    BY <1>6, <2>9, <2>10 DEF N
<1> QED
  BY <1>8, <1>9

\* An end of what was printed, with the text of the pane.
LEMMA ExactText ==
  ASSUME pane \in Seq(Rows), prog \in Places, Printed(pane, prog),
         NEW u, NEW off \in 0..(Len(pane) - 1), Part(u, off, Len(pane) - off),
         ExtractBetweenMarkers(u).end
  PROVE  ExtractBetweenMarkers(u) = ExtractBetweenMarkers(pane)
<1>1. u \in Seq(Rows) /\ Len(pane) \in Nat /\ off \in Nat /\ Len(u) = Len(pane) - off
      /\ \A i \in 1..(Len(pane) - off) : u[i] = pane[off + i]
  BY DEF Part
<1>2. Contains(u, Marker("BEGIN"))
  <2> SUFFICES ASSUME ~Contains(u, Marker("BEGIN"))
               PROVE  FALSE
    OBVIOUS
  <2>1. ExtractBetweenMarkers(u) = [begin |-> FALSE, end |-> FALSE, body |-> <<>>]
    BY <1>1, ExtractNothing DEF Nothing
  <2> QED
    BY <2>1
<1>3. PICK b, e : Between(u, b, e)
  BY <1>1, <1>2, BetweenExists
<1>4. e <= Len(u)
  <2> DEFINE end == e <= Len(u)
             body == SubSeq(u, b + 1, e - 1)
  <2>1. ExtractBetweenMarkers(u) = [begin |-> TRUE, end |-> end, body |-> body]
    BY <1>1, <1>3, ExtractIs
  <2> HIDE DEF end, body
  <2>2. end
    BY <2>1
  <2> QED
    BY <2>2 DEF end
<1>5. b \in 1..Len(u) /\ e \in (b + 1)..(Len(u) + 1)
  BY <1>3 DEF Between
<1>6. \A i \in b..e : off + i <= Len(pane) /\ u[i] = pane[off + i]
  <2> SUFFICES ASSUME NEW i \in b..e
               PROVE  off + i <= Len(pane) /\ u[i] = pane[off + i]
    OBVIOUS
  <2>1. i \in 1..(Len(pane) - off)
    BY <1>1, <1>4, <1>5
  <2> QED
    BY <1>1, <2>1
<1> QED
  BY <1>1, <1>3, <1>4, <1>6, PartText

\* Markers that were printed and notes of truncation are known rows.
LEMMA KnownBase ==
  /\ Known(Len(pane)) \in SUBSET Rows
  /\ \A n \in Nat : Omitted(n) \in Known(Len(pane))
  /\ Contains(pane, Marker("BEGIN")) => Marker("BEGIN") \in Known(Len(pane))
<1>1. Known(Len(pane)) \in SUBSET Rows
  BY DEF Known
<1>2. \A n \in Nat : Omitted(n) \in Known(Len(pane))
  BY RowFacts, BlankIsRow DEF Known
<1>3. Contains(pane, Marker("BEGIN")) => Marker("BEGIN") \in Known(Len(pane))
  BY RowFacts, TagNames DEF Known, Contains
<1> QED
  BY <1>1, <1>2, <1>3

\* An accumulator that keeps ERROR keeps BEGIN above it.
LEMMA ErrorNeedsBegin ==
  ASSUME NEW s, KeepsError(s)
  PROVE  KeepsBegin(s) /\ Contains(s, Marker("ERROR"))
BY DEF KeepsError, KeepsBegin, Contains

\* The accumulator and the extract that a poll leaves.
AccOf(found, long) == Bounded(found, long)
ExtractOf(found, long) ==
  IF TooLong(found, long) /\ found.begin THEN ExtractBetweenMarkers(AccOf(found, long)) ELSE found

\* Bounding the accumulator keeps BEGIN and ERROR in it, or the eval has seen END.
LEMMA PollValue ==
  ASSUME NEW cap, NEW st, NEW s, NEW o, Polls(cap, st, s, o), NEW found, found = Find(cap, s),
         NEW long \in Seq(Known(Len(pane))), KeepsBegin(s) => KeepsBegin(long), KeepsError(s) => KeepsError(long),
         NEW a, a = AccOf(found, long), NEW e, e = ExtractOf(found, long)
  PROVE  /\ a \in Seq(Known(Len(pane)))
         /\ e \in Found(Known(Len(pane)))
         /\ e.end \/ Len(a) <= MaxAcc
         /\ Complete /\ ~e.end => /\ ~Contains(pane, Marker("END"))
                                  /\ Contains(pane, Marker("BEGIN")) => KeepsBegin(a)
                                  /\ Contains(pane, Marker("ERROR")) => KeepsError(a)
         /\ Complete /\ e.end => (JuliaError(e) <=> Contains(pane, Marker("ERROR")))
         /\ Complete /\ Contains(pane, Marker("END")) => e.end
         /\ e.end /\ Contains(cap, Marker("BEGIN")) => e = ExtractBetweenMarkers(pane)
         /\ ~TooLong(found, long) => a = long /\ e = found
<1> DEFINE K == Known(Len(pane))
           C(t) == Contains(pane, Marker(t))
<1>1. /\ found \in Found(K)
      /\ found.begin <=> Contains(cap, Marker("BEGIN")) \/ Contains(s, Marker("BEGIN"))
      /\ found.begin => C("BEGIN")
      /\ found.end => C("END")
      /\ Complete /\ C("END") => found.end /\ (JuliaError(found) <=> C("ERROR"))
      /\ Contains(cap, Marker("BEGIN")) /\ C("END") => found.end /\ found = ExtractBetweenMarkers(pane)
  BY FoundIs
<1>2. Complete => (C("BEGIN") => KeepsBegin(s)) /\ (C("ERROR") => KeepsError(s))
  BY SplicedKeeps
<1>3. K \in SUBSET Rows /\ (\A n \in Nat : Omitted(n) \in K) /\ (C("BEGIN") => Marker("BEGIN") \in K)
  BY KnownBase
<1>4. MaxAcc \in Nat /\ Len(long) \in Nat
  BY SizesAssumption
<1>5. \A u \in Seq(K) : \A t \in MarkerTags : Contains(u, Marker(t)) => C(t)
  BY KnownContains
<1> HIDE DEF K, C
<1>6. CASE ~TooLong(found, long)
  <2>1. a = long /\ e = found
    BY <1>6, Zenon DEF AccOf, ExtractOf, Bounded
  <2>2. found.end \/ Len(long) <= MaxAcc
    BY <1>4, <1>6 DEF TooLong
  <2>3. a \in Seq(K)
    BY <2>1 DEF K
  <2> QED
    BY <1>1, <1>2, <2>1, <2>2, <2>3 DEF K, C
<1>7. CASE TooLong(found, long) /\ ~found.begin
  <2>1. a = DropHead(long) /\ e = found
    BY <1>7, Zenon DEF AccOf, ExtractOf, Bounded
  <2>2. ~found.end /\ Len(long) > MaxAcc
    BY <1>7 DEF TooLong
  <2>3. a \in Seq(K) /\ Len(a) <= MaxAcc
    BY <1>3, <2>1, <2>2, DropIs DEF K
  <2>4. ~KeepsBegin(s)
    BY <1>1, <1>7 DEF KeepsBegin
  <2>5. ~KeepsError(s)
    BY <2>4, ErrorNeedsBegin
  <2> QED
    BY <1>1, <1>2, <1>7, <2>1, <2>2, <2>3, <2>4, <2>5 DEF K, C
<1>8. CASE TooLong(found, long) /\ found.begin
  <2>1. a = Compact(found, long) /\ e = ExtractBetweenMarkers(a)
    BY <1>8, Zenon DEF AccOf, ExtractOf, Bounded
  <2>2. ~found.end
    BY <1>8 DEF TooLong
  <2>3. /\ a \in Seq(K) /\ Len(a) > 0 /\ a[1] = Marker("BEGIN")
        /\ Contains(long, Marker("ERROR")) => \E j \in 2..Len(a) : a[j] = Marker("ERROR")
        /\ Contains(long, Marker("END")) => \E j \in 2..Len(a) : a[j] = Marker("END")
        /\ ~Contains(long, Marker("END")) => Len(a) <= MaxAcc
    <3>1. found.body \in Seq(K) /\ Marker("BEGIN") \in K /\ long \in Seq(K)
      BY <1>1, <1>3, <1>8 DEF Found, K
    <3> QED
      BY <1>3, <2>1, <3>1, CompactIs
  <2>4. a \in Seq(Rows) /\ Len(a) \in Nat /\ 1 \in 1..Len(a) /\ \A j \in 2..Len(a) : j \in 1..Len(a) /\ 1 < j
    BY <1>3, <2>3
  <2>5. KeepsBegin(a)
    BY <2>3, <2>4 DEF KeepsBegin, Contains
  <2>6. Contains(long, Marker("ERROR")) => KeepsError(a)
    BY <2>3, <2>4 DEF KeepsError
  <2>7. e \in Found(K) /\ (e.end => Contains(a, Marker("END")))
    BY <1>3, <2>1, <2>3, ExtractType
  <2>8. Contains(long, Marker("END")) => e.end
    <3> SUFFICES ASSUME Contains(long, Marker("END"))
                 PROVE  e.end
      OBVIOUS
    <3>1. PICK z \in 2..Len(a) : a[z] = Marker("END")
      BY <2>3
    <3>2. PICK b, y : Between(a, b, y)
      BY <2>4, <2>5, BetweenExists DEF KeepsBegin
    <3>3. b \in 1..Len(a) /\ 1 \notin 1..(b - 1)
      BY <2>3, <3>2 DEF Between
    <3>4. z \in 1..Len(a) /\ b < z
      BY <2>4, <3>1, <3>3
    <3>5. y <= Len(a)
      BY <2>4, <3>1, <3>2, <3>4, EndBelow
    <3> DEFINE end == y <= Len(a)
               body == SubSeq(a, b + 1, y - 1)
    <3>6. e = [begin |-> TRUE, end |-> end, body |-> body] /\ end = TRUE
      BY <2>1, <2>4, <3>2, <3>5, ExtractIs
    <3> HIDE DEF end, body
    <3> QED
      BY <3>6
  <2>9. e.end => C("END")
    BY <1>5, <2>3, <2>7, TagNames
  <2>10. Complete => ~C("END")
    BY <1>1, <2>2
  <2>11. C("ERROR") /\ Complete => KeepsError(a)
    BY <1>2, <2>6, ErrorNeedsBegin
  <2>12. e.end \/ Len(a) <= MaxAcc
    BY <2>3, <2>8
  <2>13. e.end => ~Contains(cap, Marker("BEGIN"))
    BY <1>1, <2>2, <2>9
  <2> QED
    BY <1>8, <2>3, <2>5, <2>7, <2>9, <2>10, <2>11, <2>12, <2>13 DEF K, C
<1> QED
  BY <1>6, <1>7, <1>8

-----------------------------------------------------------------------------
(* The inductive invariant, and what printing does to it. *)

AllDifferent == plain => \A i \in 1..Len(pane) : pane[i] # Same
Exact ==
  pc = "poll" /\ plain /\ ~outrun /\ ~compacted => acc = <<>> \/ (AccIsPane(polled) /\ LastIsPane(polled))
PaneInv == Printed(pane, prog) /\ OutputIsText(pane, prog, output) /\ AllDifferent
EvalInv == MarkersSeen /\ MarkersKept /\ Exact /\ AccumulatorBounded /\ VerdictIsRight /\ ResultIsOutput
IInv == TypeOK /\ PaneInv /\ EvalInv

\* The types that most steps need.
LEMMA TypeFacts ==
  ASSUME TypeOK
  PROVE  /\ pane \in Seq(Rows) /\ acc \in Seq(Rows) /\ last \in Seq(Rows) /\ prog \in Places
         /\ Len(pane) \in Nat /\ polled \in 0..Len(pane) /\ polled \in Nat
BY DEF TypeOK, Places

\* An empty pane, or a screen of what was there before.
LEMMA StartsWell == Init => IInv
<1> SUFFICES ASSUME Init
             PROVE  IInv
  OBVIOUS
<1>1. PICK n \in {0, Height} : pane = [i \in 1..n |-> Fresh(i)] /\ polled = n
  BY DEF Init
<1>2. n \in Nat
  BY SizesAssumption
<1>3. pane \in Seq(Rows) /\ Len(pane) = n /\ \A i \in 1..n : pane[i] = Fresh(i)
  BY <1>1, <1>2, BlankIsRow
<1>4. /\ alike \in DOMAIN MaxRows /\ prog = "echo" /\ output = [p \in Phases |-> <<>>]
      /\ pc = "poll" /\ acc = <<>> /\ last = <<>> /\ extract = Nothing /\ trimmed = FALSE
      /\ outrun = FALSE /\ plain = TRUE /\ compacted = FALSE
  BY DEF Init
<1>5. \A S : <<>> \in Seq(S) /\ Len(<<>>) = 0
  OBVIOUS
<1>6. TypeOK
  <2>1. output \in [Phases -> Seq(Rows)]
    BY <1>4, <1>5
  <2>2. extract \in [begin : BOOLEAN, end : BOOLEAN, body : Seq(Rows)]
    <3>1. <<>> \in Seq(Rows)
      BY <1>5
    <3> QED
      BY <1>4, <3>1 DEF Nothing
  <2>3. polled \in 0..Len(pane)
    BY <1>1, <1>2, <1>3
  <2>4. Len(last) <= Window
    BY <1>4, <1>5, WindowIs
  <2>5. acc \in Seq(Rows) /\ last \in Seq(Rows)
    BY <1>4, <1>5
  <2> QED
    BY <1>3, <1>4, <2>1, <2>2, <2>3, <2>4, <2>5 DEF TypeOK
<1>7. \A i \in 1..n : \A t \in MarkerTags : pane[i] # Marker(t)
  BY <1>2, <1>3, RowFacts
<1>8. Printed(pane, prog)
  <2>1. RowsOfPane(pane)
    BY <1>3 DEF RowsOfPane
  <2>2. MarkersOnce(pane, prog)
    BY <1>3, <1>7 DEF MarkersOnce
  <2>3. MarkersInOrder(pane, prog)
    BY <1>3, <1>4, <1>7, TagNames DEF MarkersInOrder
  <2> QED
    BY <1>4, <2>1, <2>2, <2>3 DEF Printed
<1>9. OutputIsText(pane, prog, output)
  <2>1. ~Contains(pane, Marker("BEGIN"))
    BY <1>3, <1>7, TagNames DEF Contains
  <2>2. Text(pane) = <<>>
    BY <1>3, <2>1, ExtractNothing DEF Text, Nothing
  <2>3. \A p : Slice(<<>>, p) = <<>>
    BY SliceNothing
  <2> QED
    BY <1>4, <2>2, <2>3 DEF OutputIsText
<1>10. AllDifferent
  BY <1>2, <1>3, RowFacts DEF AllDifferent
<1>11. EvalInv
  <2>1. MarkersSeen
    BY <1>4, <1>5 DEF MarkersSeen
  <2>2. MarkersKept
    BY <1>1, <1>7, TagNames DEF MarkersKept, Seen
  <2>3. Exact
    BY <1>4 DEF Exact
  <2>4. AccumulatorBounded
    BY <1>4, <1>5, SizesAssumption DEF AccumulatorBounded
  <2>5. VerdictIsRight /\ ResultIsOutput
    BY <1>4 DEF VerdictIsRight, ResultIsOutput
  <2> QED
    BY <2>1, <2>2, <2>3, <2>4, <2>5 DEF EvalInv
<1> QED
  BY <1>6, <1>8, <1>9, <1>10, <1>11 DEF IInv, PaneInv

\* What is printed leaves the eval and the rows it has polled alone.
LEMMA EvalKept ==
  ASSUME IInv, pc = "poll", UNCHANGED evalVars,
         \A j \in 1..polled : \A t \in MarkerTags : pane[j] = Marker(t) <=> pane'[j] = Marker(t),
         plain' => plain /\ \A j \in 1..polled : pane'[j] = pane[j]
  PROVE  EvalInv'
<1>0. /\ UNCHANGED <<pc, acc, last, extract, polled, outrun, compacted>>
      /\ acc \in Seq(Rows) /\ last \in Seq(Rows) /\ polled \in Nat
  BY TypeFacts DEF evalVars, IInv
<1>1. /\ MarkersSeen /\ MarkersKept /\ Exact /\ AccumulatorBounded
  BY DEF IInv, EvalInv
<1>2. \A t \in MarkerTags : Seen(Marker(t)) <=> Seen(Marker(t))'
  <2> SUFFICES ASSUME NEW t \in MarkerTags
               PROVE  Seen(Marker(t)) <=> \E j \in 1..polled : pane'[j] = Marker(t)
    BY <1>0 DEF Seen
  <2> QED
    BY DEF Seen
<1>3. MarkersSeen'
  <2>1. Known(polled)' = Known(polled)
    BY <1>0 DEF Known
  <2> QED
    BY <1>0, <1>1, <2>1 DEF MarkersSeen
<1>4. MarkersKept'
  <2>1. KeepsBegin(acc)' = KeepsBegin(acc) /\ KeepsError(acc)' = KeepsError(acc)
    BY <1>0
  <2>2. /\ Seen(Marker("BEGIN"))' <=> Seen(Marker("BEGIN"))
        /\ Seen(Marker("ERROR"))' <=> Seen(Marker("ERROR"))
        /\ Seen(Marker("END"))' <=> Seen(Marker("END"))
    BY <1>2, TagNames
  <2> QED
    BY <1>0, <1>1, <2>1, <2>2 DEF MarkersKept
<1>5. Exact'
  <2> SUFFICES ASSUME plain', ~outrun, ~compacted, acc # <<>>
               PROVE  AccIsPane(polled)' /\ LastIsPane(polled)'
    BY <1>0 DEF Exact
  <2>1. AccIsPane(polled) /\ LastIsPane(polled) /\ \A j \in 1..polled : pane'[j] = pane[j]
    BY <1>1 DEF Exact
  <2>2. AccIsPane(polled)'
    <3>1. PICK off \in 0..(polled - 1) : Part(acc, off, polled - off)
      BY <2>1 DEF AccIsPane
    <3>2. \A i \in 1..(polled - off) : off + i \in 1..polled
      BY <1>0
    <3>3. Len(acc') = polled - off /\ acc' \in Seq(Rows) /\ \A i \in 1..(polled - off) : acc'[i] = pane'[off + i]
      BY <1>0, <2>1, <3>1, <3>2 DEF Part
    <3>4. off \in 0..(polled' - 1) /\ Part(acc, off, polled - off)'
      BY <1>0, <3>3 DEF Part
    <3> QED
      BY <3>4 DEF AccIsPane
  <2>3. LastIsPane(polled)'
    <3> DEFINE top == Top(polled) - 1
    <3>1. top \in Nat /\ Part(last, top, polled - top)
      BY <1>0, <2>1, TopIs DEF LastIsPane
    <3>2. top' = top
      BY <1>0 DEF Top
    <3> HIDE DEF top
    <3>3. \A i \in 1..(polled - top) : top + i \in 1..polled
      BY <1>0, <3>1
    <3>4. Part(last, top, polled - top)'
      BY <1>0, <2>1, <3>1, <3>2, <3>3 DEF Part
    <3> QED
      BY <3>4 DEF LastIsPane, top
  <2> QED
    BY <2>2, <2>3
<1>6. AccumulatorBounded'
  BY <1>0, <1>1 DEF AccumulatorBounded
<1>7. VerdictIsRight' /\ ResultIsOutput'
  BY <1>0 DEF VerdictIsRight, ResultIsOutput
<1> QED
  BY <1>3, <1>4, <1>5, <1>6, <1>7 DEF EvalInv

\* The types that printing leaves as they are.
LEMMA PrintTypes ==
  ASSUME TypeOK, UNCHANGED <<alike, evalVars>>, pane' \in Seq(Rows), Len(pane) <= Len(pane'), Len(pane') \in Nat,
         prog' \in Places, output' \in [Phases -> Seq(Rows)], plain' \in BOOLEAN
  PROVE  TypeOK'
<1>1. /\ UNCHANGED <<alike, pc, acc, last, extract, trimmed, polled, outrun, compacted>>
  BY DEF evalVars
<1>2. polled' \in 0..Len(pane')
  <2>1. polled \in 0..Len(pane) /\ Len(pane) \in Nat
    BY TypeFacts
  <2> QED
    BY <1>1, <2>1
<1>3. /\ {pane', acc', last'} \subseteq Seq(Rows) /\ alike' \in DOMAIN MaxRows /\ pc' \in {"poll", "ended"}
      /\ extract' \in [begin : BOOLEAN, end : BOOLEAN, body : Seq(Rows)]
      /\ Len(last') <= Window /\ {trimmed', outrun', plain', compacted'} \subseteq BOOLEAN
  BY <1>1 DEF TypeOK
<1>4. prog' \in Phases \cup {"echo", "shown", "prompt"}
  BY DEF Places
<1> QED
  BY <1>2, <1>3, <1>4 DEF TypeOK

\* A marker of run_command.
LEMMA PrintMarkerKeeps ==
  ASSUME IInv, PrintMarker
  PROVE  IInv'
<1> DEFINE N == Len(pane)
<1>1. PICK step \in Steps : prog = step[1] /\ PrintRow(Marker(step[2])) /\ prog' = step[3]
  BY DEF PrintMarker, Steps
<1> DEFINE tag == step[2]
<1>2. Moves(prog, tag, prog')
  BY <1>1, StepMoves
<1>3. UNCHANGED <<alike, output, evalVars, plain>>
  BY DEF PrintMarker
<1> HIDE DEF tag
<1>4. pc = "poll" /\ pane' = Append(pane, Marker(tag))
  BY <1>1 DEF PrintRow, tag
<1>5. /\ TypeOK /\ pane \in Seq(Rows) /\ polled \in 0..N /\ N \in Nat /\ polled \in Nat
      /\ Printed(pane, prog) /\ OutputIsText(pane, prog, output) /\ AllDifferent
  BY TypeFacts DEF IInv, PaneInv
<1>6. tag \in MarkerTags /\ Marker(tag) \in Rows /\ Marker(tag) # Same
  BY <1>2, RowFacts DEF Moves
<1>7. pane' \in Seq(Rows) /\ Len(pane') = N + 1 /\ pane'[N + 1] = Marker(tag) /\ \A i \in 1..N : pane'[i] = pane[i]
  <2> DEFINE m == Marker(tag)
  <2>1. m \in Rows /\ pane' = Append(pane, m)
    BY <1>4, <1>6
  <2> HIDE DEF m
  <2>2. pane' \in Seq(Rows) /\ Len(pane') = N + 1 /\ pane'[N + 1] = m /\ \A i \in 1..N : pane'[i] = pane[i]
    BY <1>5, <2>1
  <2> QED
    BY <2>2 DEF m
<1>8. Printed(pane', prog')
  BY <1>2, <1>4, <1>5, PrintedMarker
<1>9. OutputIsText(pane', prog', output')
  BY <1>2, <1>3, <1>4, <1>5, OutputMarker
<1>10. AllDifferent'
  <2> SUFFICES ASSUME plain, NEW i \in 1..(N + 1)
               PROVE  pane'[i] # Same
    BY <1>3, <1>7 DEF AllDifferent
  <2>1. i \in 1..N \/ i = N + 1
    BY <1>5
  <2> QED
    BY <1>5, <1>6, <1>7, <2>1 DEF AllDifferent
<1>11. EvalInv'
  <2>1. \A j \in 1..polled : pane'[j] = pane[j]
    BY <1>5, <1>7
  <2> QED
    BY <1>3, <1>4, <2>1, EvalKept
<1>12. TypeOK'
  <2>1. prog' \in Places
    BY <1>2 DEF Moves, Places
  <2>2. output' \in [Phases -> Seq(Rows)] /\ plain' \in BOOLEAN
    BY <1>3, <1>5 DEF TypeOK
  <2>3. N <= Len(pane') /\ Len(pane') \in Nat
    BY <1>5, <1>7
  <2> QED
    BY <1>3, <1>5, <1>7, <2>1, <2>2, <2>3, PrintTypes
<1> QED
  BY <1>8, <1>9, <1>10, <1>11, <1>12 DEF IInv, PaneInv

\* A row of output, of the echo or of what comes after.
LEMMA PrintTextKeeps ==
  ASSUME IInv, PrintText
  PROVE  IInv'
<1> DEFINE N == Len(pane)
<1>1. PICK row \in {Fresh(N + 1), Same} :
        /\ PrintRow(row) /\ plain' = (plain /\ row # Same)
        /\ output' = IF prog \in Phases THEN [output EXCEPT ![prog] = Append(@, row)] ELSE output
  BY DEF PrintText
<1>2. prog # "shown" /\ UNCHANGED <<alike, prog, evalVars>>
  BY DEF PrintText
<1>3. pc = "poll" /\ pane' = Append(pane, row)
  BY <1>1 DEF PrintRow
<1>4. /\ TypeOK /\ pane \in Seq(Rows) /\ polled \in 0..N /\ N \in Nat /\ polled \in Nat /\ prog \in Places
      /\ Printed(pane, prog) /\ OutputIsText(pane, prog, output) /\ AllDifferent
  BY TypeFacts DEF IInv, PaneInv
<1>5. row \in Rows /\ ~IsToken(row) /\ \A t \in MarkerTags : row # Marker(t)
  <2>1. N + 1 \in Nat
    BY <1>4
  <2> QED
    BY <2>1, RowFacts, BlankIsRow
<1>6. pane' \in Seq(Rows) /\ Len(pane') = N + 1 /\ pane'[N + 1] = row /\ \A i \in 1..N : pane'[i] = pane[i]
  BY <1>3, <1>4, <1>5
<1>7. Printed(pane', prog')
  <2>1. /\ N + 1 \in Nat /\ N + 1 \in 1..Len(pane') /\ N = (N + 1) - 1 /\ N # N + 1
        /\ \A i \in 1..((N + 1) - 1) : pane'[i] = pane[i]
    BY <1>4, <1>6
  <2>2. pane'[N + 1] \in {Fresh(N + 1), Same}
    BY <1>6
  <2>3. Printed(pane', prog)
    BY <1>2, <1>4, <1>6, <2>1, <2>2, PrintedText
  <2> QED
    BY <1>2, <2>3
<1>8. OutputIsText(pane', prog', output')
  <2>1. OutputIsText(Append(pane, row), prog,
                     IF prog \in Phases THEN [output EXCEPT ![prog] = Append(@, row)] ELSE output)
    BY <1>2, <1>4, <1>5, OutputText, TagNames
  <2> QED
    BY <1>1, <1>2, <1>3, <2>1
<1>9. AllDifferent'
  <2> SUFFICES ASSUME plain', NEW i \in 1..(N + 1)
               PROVE  pane'[i] # Same
    BY <1>6 DEF AllDifferent
  <2>1. i \in 1..N \/ i = N + 1
    BY <1>4
  <2> QED
    BY <1>1, <1>4, <1>6, <2>1 DEF AllDifferent
<1>10. EvalInv'
  <2>1. \A j \in 1..polled : pane'[j] = pane[j]
    BY <1>4, <1>6
  <2> QED
    BY <1>1, <1>2, <1>3, <2>1, EvalKept
<1>11. TypeOK'
  <2>1. output \in [Phases -> Seq(Rows)]
    BY <1>4 DEF TypeOK
  <2>2. output' \in [Phases -> Seq(Rows)]
    <3>1. CASE prog \in Phases
      <4>1. Append(output[prog], row) \in Seq(Rows)
        BY <1>5, <2>1, <3>1
      <4> QED
        BY <1>1, <2>1, <3>1, <4>1
    <3>2. CASE prog \notin Phases
      BY <1>1, <2>1, <3>2
    <3> QED
      BY <3>1, <3>2
  <2>3. plain' \in BOOLEAN /\ N <= Len(pane') /\ Len(pane') \in Nat
    BY <1>1, <1>4, <1>6
  <2> QED
    BY <1>2, <1>4, <1>6, <2>2, <2>3, PrintTypes
<1> QED
  BY <1>7, <1>8, <1>9, <1>10, <1>11 DEF IInv, PaneInv

\* The row at the cursor.
LEMMA CompleteRowKeeps ==
  ASSUME IInv, CompleteRow
  PROVE  IInv'
<1> DEFINE N == Len(pane)
           row == Fresh(N)
           t == SubSeq(pane, 1, N - 1)
<1>1. /\ pc = "poll" /\ pane # <<>> /\ pane[N] = Same
      /\ pane' = [pane EXCEPT ![N] = row]
      /\ output' = IF prog \in Phases
                   THEN [output EXCEPT ![prog] = [@ EXCEPT ![Len(@)] = row]]
                   ELSE output
      /\ UNCHANGED <<alike, prog, evalVars, plain>>
  BY DEF CompleteRow
<1>2. /\ TypeOK /\ pane \in Seq(Rows) /\ polled \in 0..N /\ N \in Nat /\ polled \in Nat /\ prog \in Places
      /\ Printed(pane, prog) /\ OutputIsText(pane, prog, output) /\ AllDifferent
  BY TypeFacts DEF IInv, PaneInv
<1>3. N \in 1..N /\ N - 1 \in Nat
  BY <1>1, <1>2
<1>4. row \in Rows /\ Same \in Rows /\ ~IsToken(row) /\ row # Same /\ \A u \in MarkerTags : row # Marker(u) /\ Same # Marker(u)
  BY <1>2, RowFacts, BlankIsRow
<1> HIDE DEF row
<1>5. pane' \in Seq(Rows) /\ Len(pane') = N /\ pane'[N] = row /\ \A i \in 1..N : i # N => pane'[i] = pane[i]
  <2>1. pane \in [1..N -> Rows]
    BY <1>2
  <2>2. pane' \in [1..N -> Rows] /\ pane'[N] = row /\ \A i \in 1..N : i # N => pane'[i] = pane[i]
    BY <1>1, <1>3, <1>4, <2>1
  <2> QED
    BY <1>2, <2>2
<1>6. t \in Seq(Rows) /\ Len(t) = N - 1 /\ \A i \in 1..(N - 1) : t[i] = pane[i]
  <2>1. 1 \in 1..(N + 1) /\ N - 1 \in (1 - 1)..N /\ (N - 1) - 1 + 1 = N - 1
    BY <1>2, <1>3
  <2>2. /\ t \in Seq(Rows) /\ Len(t) = (N - 1) - 1 + 1
        /\ \A i \in 1..((N - 1) - 1 + 1) : t[i] = pane[1 - 1 + i]
    BY <1>2, <2>1, PartIs
  <2> HIDE DEF t
  <2>3. \A i \in 1..(N - 1) : 1 - 1 + i = i
    BY <1>3
  <2> QED
    BY <2>1, <2>2, <2>3
<1> HIDE DEF t
<1>7. pane = Append(t, Same) /\ pane' = Append(t, row)
  <2> DEFINE u == Append(t, Same)
             v == Append(t, row)
  <2>1. u \in Seq(Rows) /\ Len(u) = N /\ u[N] = Same /\ \A i \in 1..N : i # N => u[i] = pane[i]
    <3>1. t \in Seq(Rows) /\ Len(t) + 1 = N
      BY <1>3, <1>6
    <3>2. u \in Seq(Rows) /\ Len(u) = Len(t) + 1 /\ u[Len(t) + 1] = Same /\ \A i \in 1..Len(t) : u[i] = t[i]
      BY <1>4, <1>6
    <3> HIDE DEF u
    <3> QED
      BY <1>3, <1>6, <3>1, <3>2
  <2>2. v \in Seq(Rows) /\ Len(v) = N /\ v[N] = row /\ \A i \in 1..N : i # N => v[i] = pane[i]
    <3>1. t \in Seq(Rows) /\ Len(t) + 1 = N
      BY <1>3, <1>6
    <3>2. v \in Seq(Rows) /\ Len(v) = Len(t) + 1 /\ v[Len(t) + 1] = row /\ \A i \in 1..Len(t) : v[i] = t[i]
      BY <1>4, <1>6
    <3> HIDE DEF v
    <3> QED
      BY <1>3, <1>6, <3>1, <3>2
  <2> HIDE DEF u, v
  <2>3. \A i \in 1..N : u[i] = pane[i] /\ v[i] = pane'[i]
    BY <1>1, <1>5, <2>1, <2>2
  <2>4. u = pane /\ v = pane'
    BY <1>2, <1>5, <2>1, <2>2, <2>3
  <2> QED
    BY <2>4 DEF u, v
<1>8. prog # "shown"
  <2>1. "VAL_END" \in MarkerTags
    BY DEF MarkerTags, Tokens
  <2> QED
    BY <1>1, <1>2, <1>4, <2>1 DEF Printed
<1>9. Printed(pane', prog')
  <2>1. pane'[N] \in {Fresh(N), Same} /\ \A i \in 1..(N - 1) : pane'[i] = pane[i]
    <3>1. \A i \in 1..(N - 1) : i \in 1..N /\ i # N
      BY <1>3
    <3> QED
      BY <1>5, <3>1 DEF row
  <2>2. Printed(pane', prog)
    <3>1. N \in 1..Len(pane') /\ N \in Nat
      BY <1>2, <1>3, <1>5
    <3> QED
      BY <1>1, <1>2, <1>5, <1>8, <2>1, <3>1, PrintedText
  <2> QED
    BY <1>1, <2>2
<1>10. OutputIsText(pane', prog', output')
  <2>1. OutputIsText(Append(t, row), prog,
                     IF prog \in Phases THEN [output EXCEPT ![prog] = [@ EXCEPT ![Len(@)] = row]] ELSE output)
    <3>1. Printed(Append(t, Same), prog) /\ OutputIsText(Append(t, Same), prog, output)
      BY <1>2, <1>7
    <3> QED
      BY <1>2, <1>4, <1>6, <1>8, <3>1, OutputComplete, TagNames
  <2> QED
    BY <1>1, <1>7, <2>1
<1>11. ~plain
  BY <1>1, <1>2, <1>3 DEF AllDifferent
<1>12. AllDifferent'
  BY <1>1, <1>11 DEF AllDifferent
<1>13. EvalInv'
  <2>1. \A j \in 1..polled : \A u \in MarkerTags : pane[j] = Marker(u) <=> pane'[j] = Marker(u)
    <3> SUFFICES ASSUME NEW j \in 1..polled, NEW u \in MarkerTags
                 PROVE  pane[j] = Marker(u) <=> pane'[j] = Marker(u)
      OBVIOUS
    <3>1. j \in 1..N
      BY <1>2
    <3>2. CASE j = N
      BY <1>1, <1>4, <1>5, <3>2
    <3>3. CASE j # N
      BY <1>5, <3>1, <3>3
    <3> QED
      BY <3>2, <3>3
  <2> QED
    BY <1>1, <1>11, <2>1, EvalKept
<1>14. TypeOK'
  <2>1. output \in [Phases -> Seq(Rows)]
    BY <1>2 DEF TypeOK
  <2>2. output' \in [Phases -> Seq(Rows)]
    <3>1. CASE prog \in Phases
      <4> DEFINE v == output[prog]
                 w == [v EXCEPT ![Len(v)] = row]
      <4>1. v \in Seq(Rows)
        BY <2>1, <3>1
      <4> HIDE DEF v
      <4>2. w \in Seq(Rows)
        <5>1. v \in [1..Len(v) -> Rows] /\ Len(v) \in Nat
          BY <4>1
        <5>2. w \in [1..Len(v) -> Rows]
          BY <1>4, <5>1
        <5> HIDE DEF w
        <5> QED
          BY <5>1, <5>2
      <4> HIDE DEF w
      <4>3. output' = [output EXCEPT ![prog] = w]
        BY <1>1, <3>1, Zenon DEF w, v
      <4> QED
        BY <2>1, <3>1, <4>2, <4>3
    <3>2. CASE prog \notin Phases
      BY <1>1, <2>1, <3>2
    <3> QED
      BY <3>1, <3>2
  <2>3. plain' \in BOOLEAN /\ N <= Len(pane') /\ Len(pane') \in Nat
    <3>1. plain \in BOOLEAN
      BY <1>2 DEF TypeOK
    <3>2. N <= N
      BY <1>2
    <3> QED
      BY <1>1, <1>2, <1>5, <3>1, <3>2
  <2> QED
    BY <1>1, <1>2, <1>5, <2>2, <2>3, PrintTypes
<1> QED
  BY <1>9, <1>10, <1>12, <1>13, <1>14 DEF IInv, PaneInv

-----------------------------------------------------------------------------
(* A poll. *)

\* A poll: what it captures, splices, finds and keeps.
LEMMA PollParts ==
  ASSUME IInv, Poll
  PROVE  \E cap, st, s, o, found, long :
           /\ Polls(cap, st, s, o) /\ found = Find(cap, s)
           /\ long \in Seq(Known(Len(pane)))
           /\ KeepsBegin(s) => KeepsBegin(long)
           /\ KeepsError(s) => KeepsError(long)
           /\ \E d \in 0..Len(s) : Len(long) = Len(s) - d /\ (Len(s) > 0 => d < Len(s))
                                   /\ \A i \in 1..(Len(s) - d) : long[i] = s[d + i]
           /\ pc = "poll" /\ last' = cap /\ acc' = AccOf(found, long) /\ extract' = ExtractOf(found, long)
           /\ trimmed' \in BOOLEAN
           /\ pc' = IF extract'.end THEN "ended" ELSE "poll"
           /\ polled' = Len(pane)
           /\ outrun' = (outrun \/ Len(pane) - polled > Window)
           /\ plain' = (plain /\ Len(pane) >= Height)
           /\ compacted' = (compacted \/ TooLong(found, long))
           /\ UNCHANGED paneVars
<1> DEFINE cap == Captured
           s == Splice(cap)
           found == Find(cap, s)
           trims == ~trimmed /\ found.begin /\ Contains(s, Marker("BEGIN"))
           long == IF trims THEN TrimToBegin(s) ELSE s
<1>1. /\ pc = "poll" /\ last' = cap /\ acc' = Bounded(found, long)
      /\ extract' = IF TooLong(found, long) /\ found.begin THEN ExtractBetweenMarkers(acc') ELSE found
      /\ trimmed' = (trimmed \/ found.begin)
      /\ pc' = IF extract'.end THEN "ended" ELSE "poll"
      /\ polled' = Len(pane)
      /\ outrun' = (outrun \/ Len(pane) - polled > Window)
      /\ plain' = (plain /\ Len(pane) >= Height)
      /\ compacted' = (compacted \/ TooLong(found, long))
      /\ UNCHANGED paneVars
  BY Zenon DEF Poll
<1>2. /\ pane \in Seq(Rows) /\ acc \in Seq(Rows) /\ last \in Seq(Rows) /\ prog \in Places
      /\ polled \in 0..Len(pane) /\ Printed(pane, prog) /\ MarkersSeen /\ MarkersKept
  BY TypeFacts DEF IInv, PaneInv, EvalInv
<1> HIDE DEF cap
<1>3. PICK st : Shows(cap, st)
  BY <1>2, CapturedShows DEF cap
<1> HIDE DEF s
<1>4. PICK o : Joins(s, cap, o)
  <2>1. cap \in Seq(Rows) /\ Len(cap) \in 1..Window
    BY <1>3 DEF Shows
  <2>2. cap # <<>>
    BY <2>1
  <2> QED
    BY <1>2, <2>1, <2>2, SpliceJoins DEF s
<1>5. Polls(cap, st, s, o)
  BY <1>1, <1>2, <1>3, <1>4 DEF Polls
<1>6. s \in Seq(Known(Len(pane))) /\ Known(Len(pane)) \in SUBSET Rows
  BY <1>5, KnownRows, KnownBase
<1> HIDE DEF found
<1>7. /\ long \in Seq(Known(Len(pane)))
      /\ KeepsBegin(s) => KeepsBegin(long)
      /\ KeepsError(s) => KeepsError(long)
      /\ \E d \in 0..Len(s) : Len(long) = Len(s) - d /\ (Len(s) > 0 => d < Len(s))
                              /\ \A i \in 1..(Len(s) - d) : long[i] = s[d + i]
  <2> DEFINE K == Known(Len(pane))
  <2>1. CASE trims
    <3>1. KeepsBegin(s)
      BY <2>1 DEF KeepsBegin
    <3> DEFINE t == TrimToBegin(s)
    <3>2. /\ t \in Seq(K) /\ KeepsBegin(t) /\ (KeepsError(s) => KeepsError(t))
          /\ \E d \in 0..(Len(s) - 1) : Len(t) = Len(s) - d /\ \A i \in 1..(Len(s) - d) : t[i] = s[d + i]
      <4> HIDE DEF K
      <4> QED
        BY <1>6, <3>1, TrimIs DEF K
    <3>3. long = t
      BY <2>1
    <3> HIDE DEF t, long, K
    <3>4. Len(s) \in Nat
      BY <1>6
    <3>5. \A d \in 0..(Len(s) - 1) : d \in 0..Len(s) /\ d < Len(s)
      BY <3>4
    <3> QED
      BY <3>2, <3>3, <3>5 DEF K
  <2>2. CASE ~trims
    <3>1. long = s
      BY <2>2
    <3> HIDE DEF long
    <3>2. Len(s) \in Nat
      BY <1>6
    <3>3. Len(s) = Len(s) - 0 /\ 0 \in 0..Len(s) /\ \A i \in 1..(Len(s) - 0) : s[i] = s[0 + i]
      BY <3>2
    <3> QED
      BY <1>6, <3>1, <3>2, <3>3
  <2> QED
    BY <2>1, <2>2
<1> HIDE DEF long
<1>8. acc' = AccOf(found, long) /\ extract' = ExtractOf(found, long)
  BY <1>1, Zenon DEF AccOf, ExtractOf
<1>9. trimmed' \in BOOLEAN
  BY <1>1
<1> QED
  <2>1. found = Find(cap, s)
    BY DEF found
  <2> HIDE DEF trims
  <2> QED
    BY <1>1, <1>5, <1>7, <1>8, <1>9, <2>1

\* A poll keeps the invariant, captures something, and misses no END that it could see.
LEMMA PollKeeps ==
  ASSUME IInv, Poll
  PROVE  /\ IInv'
         /\ last' \in Seq(Rows) /\ last' # <<>>
         /\ ~outrun' /\ Contains(pane, Marker("END")) => pc' = "ended"
<1> DEFINE N == Len(pane)
           K == Known(N)
<1>1. PICK cap, st, s, o, found, long :
        /\ Polls(cap, st, s, o) /\ found = Find(cap, s)
        /\ long \in Seq(Known(Len(pane)))
        /\ KeepsBegin(s) => KeepsBegin(long)
        /\ KeepsError(s) => KeepsError(long)
        /\ \E d \in 0..Len(s) : Len(long) = Len(s) - d /\ (Len(s) > 0 => d < Len(s))
                                /\ \A i \in 1..(Len(s) - d) : long[i] = s[d + i]
        /\ pc = "poll" /\ last' = cap /\ acc' = AccOf(found, long) /\ extract' = ExtractOf(found, long)
        /\ trimmed' \in BOOLEAN
        /\ pc' = IF extract'.end THEN "ended" ELSE "poll"
        /\ polled' = Len(pane)
        /\ outrun' = (outrun \/ Len(pane) - polled > Window)
        /\ plain' = (plain /\ Len(pane) >= Height)
        /\ compacted' = (compacted \/ TooLong(found, long))
        /\ UNCHANGED paneVars
  BY PollParts
<1>2. /\ TypeOK /\ Printed(pane, prog) /\ OutputIsText(pane, prog, output) /\ AllDifferent /\ Exact
      /\ pane \in Seq(Rows) /\ prog \in Places /\ polled \in 0..N /\ N \in Nat /\ polled \in Nat
  BY TypeFacts DEF IInv, PaneInv, EvalInv
<1>3. pane' = pane /\ alike' = alike /\ prog' = prog /\ output' = output
  BY <1>1 DEF paneVars
<1>4. /\ acc' \in Seq(K)
      /\ extract' \in Found(K)
      /\ extract'.end \/ Len(acc') <= MaxAcc
      /\ Complete /\ ~extract'.end => /\ ~Contains(pane, Marker("END"))
                                      /\ Contains(pane, Marker("BEGIN")) => KeepsBegin(acc')
                                      /\ Contains(pane, Marker("ERROR")) => KeepsError(acc')
      /\ Complete /\ extract'.end => (JuliaError(extract') <=> Contains(pane, Marker("ERROR")))
      /\ Complete /\ Contains(pane, Marker("END")) => extract'.end
      /\ extract'.end /\ Contains(cap, Marker("BEGIN")) => extract' = ExtractBetweenMarkers(pane)
      /\ ~TooLong(found, long) => acc' = long /\ extract' = found
  BY <1>1, PollValue
<1>5. K \in SUBSET Rows /\ cap \in Seq(K) /\ cap # <<>> /\ s \in Seq(K) /\ cap \in Seq(Rows) /\ s \in Seq(Rows)
      /\ Len(cap) <= Window
  <2>1. K \in SUBSET Rows /\ cap \in Seq(K) /\ cap # <<>> /\ s \in Seq(K)
    BY <1>1, KnownRows, KnownBase
  <2>2. cap \in Seq(Rows) /\ Len(cap) \in 1..Window
    BY <1>1 DEF Polls, Shows
  <2>3. s \in Seq(Rows)
    BY <1>1 DEF Polls, Joins
  <2>4. Len(cap) <= Window
    BY <2>2, WindowIs
  <2> QED
    BY <2>1, <2>2, <2>3, <2>4
<1>6. pc' = "poll" <=> ~extract'.end
  BY <1>1
<1>7. ~outrun' => Complete
  <2>1. outrun \in BOOLEAN /\ Window \in Nat
    BY <1>2, WindowIs DEF TypeOK
  <2>2. ~outrun' => ~outrun /\ ~(N - polled > Window)
    BY <1>1
  <2> QED
    BY <1>2, <2>1, <2>2 DEF Complete
<1>8. Known(polled)' = K
  BY <1>1, <1>3 DEF Known
<1>9. \A row : Seen(row)' <=> Contains(pane, row)
  BY <1>1, <1>3 DEF Seen, Contains
<1> HIDE DEF K
<1>10. TypeOK'
  <2>1. acc' \in Seq(Rows) /\ last' \in Seq(Rows) /\ pane' \in Seq(Rows)
    BY <1>1, <1>2, <1>3, <1>4, <1>5
  <2>2. extract' \in [begin : BOOLEAN, end : BOOLEAN, body : Seq(Rows)]
    <3>1. Seq(K) \subseteq Seq(Rows)
      BY <1>5
    <3> QED
      BY <1>4, <3>1 DEF Found
  <2>3. polled' \in 0..Len(pane') /\ Len(last') <= Window
    BY <1>1, <1>2, <1>3, <1>5
  <2>4. {trimmed', outrun', plain', compacted'} \subseteq BOOLEAN
    <3>1. {outrun, plain, compacted} \subseteq BOOLEAN
      BY <1>2 DEF TypeOK
    <3> QED
      BY <1>1, <3>1
  <2>5. pc' \in {"poll", "ended"}
    BY <1>1
  <2>6. alike' \in DOMAIN MaxRows /\ output' \in [Phases -> Seq(Rows)] /\ prog' \in Phases \cup {"echo", "shown", "prompt"}
    BY <1>2, <1>3 DEF TypeOK
  <2> QED
    BY <2>1, <2>2, <2>3, <2>4, <2>5, <2>6 DEF TypeOK
<1>11. PaneInv'
  <2>1. AllDifferent'
    BY <1>1, <1>2, <1>3 DEF AllDifferent
  <2> QED
    BY <1>2, <1>3, <2>1 DEF PaneInv
<1>12. MarkersSeen'
  <2>1. acc' \in Seq(K) /\ last' \in Seq(K)
    BY <1>1, <1>4, <1>5
  <2> QED
    BY <1>8, <2>1 DEF MarkersSeen
<1>13. MarkersKept'
  BY <1>4, <1>6, <1>7, <1>9 DEF MarkersKept, KeepsBegin, KeepsError, Contains
<1>14. AccumulatorBounded'
  BY <1>4, <1>6 DEF AccumulatorBounded
<1>15. VerdictIsRight'
  <2> SUFFICES ASSUME pc' = "ended", ~outrun'
               PROVE  JuliaError(extract') = Contains(pane, Marker("ERROR"))
    BY <1>3 DEF VerdictIsRight, JuliaError, Contains
  <2>1. extract'.end /\ Complete
    BY <1>6, <1>7
  <2>2. JuliaError(extract') <=> Contains(pane, Marker("ERROR"))
    BY <1>4, <2>1
  <2> QED
    BY <2>2 DEF JuliaError, Contains
<1>16. plain' /\ ~outrun' /\ ~compacted' =>
         /\ Part(cap, Top(N) - 1, N - (Top(N) - 1))
         /\ \E off \in 0..(N - 1) : Part(s, off, N - off)
         /\ acc' = long /\ extract' = found
  <2> SUFFICES ASSUME plain', ~outrun', ~compacted'
               PROVE  /\ Part(cap, Top(N) - 1, N - (Top(N) - 1))
                      /\ \E off \in 0..(N - 1) : Part(s, off, N - off)
                      /\ acc' = long /\ extract' = found
    OBVIOUS
  <2>1. plain /\ N >= Height /\ ~compacted /\ ~TooLong(found, long) /\ Complete
    BY <1>1, <1>7
  <2>2. acc = <<>> \/ (AccIsPane(polled) /\ LastIsPane(polled))
    BY <1>1, <1>2, <2>1 DEF Exact, Complete
  <2>3. \A i \in 1..Len(pane) : pane[i] # Same
    BY <1>2, <2>1 DEF AllDifferent
  <2> QED
    BY <1>1, <1>4, <2>1, <2>2, <2>3, ExactSplice
<1>17. Exact'
  <2> SUFFICES ASSUME plain', ~outrun', ~compacted'
               PROVE  AccIsPane(polled)' /\ LastIsPane(polled)'
    BY DEF Exact
  <2>1. /\ Part(cap, Top(N) - 1, N - (Top(N) - 1)) /\ acc' = long
    BY <1>16
  <2>2. PICK off \in 0..(N - 1) : Part(s, off, N - off)
    BY <1>16
  <2>3. PICK d \in 0..Len(s) : /\ Len(long) = Len(s) - d /\ (Len(s) > 0 => d < Len(s))
                               /\ \A i \in 1..(Len(s) - d) : long[i] = s[d + i]
    BY <1>1
  <2>4. Len(s) = N - off /\ \A i \in 1..(N - off) : s[i] = pane[off + i]
    BY <2>2 DEF Part
  <2> DEFINE at == off + d
  <2>5. at \in 0..(N - 1) /\ Len(s) - d = N - at /\ Len(long) = N - at
    BY <1>2, <2>2, <2>3, <2>4
  <2>6. \A i \in 1..(N - at) : long[i] = pane[at + i]
    <3> SUFFICES ASSUME NEW i \in 1..(N - at)
                 PROVE  long[i] = pane[at + i]
      OBVIOUS
    <3>1. i \in 1..(Len(s) - d) /\ d + i \in 1..(N - off) /\ off + (d + i) = at + i
      BY <1>2, <2>2, <2>3, <2>4, <2>5
    <3>2. long[i] = s[d + i] /\ s[d + i] = pane[off + (d + i)]
      BY <2>3, <2>4, <3>1
    <3> QED
      BY <3>1, <3>2
  <2>7. long \in Seq(Rows)
    BY <1>1, <1>5 DEF K
  <2> HIDE DEF at
  <2>8. Part(long, at, N - at)
    BY <2>5, <2>6, <2>7 DEF Part
  <2>9. AccIsPane(polled)'
    BY <1>1, <1>3, <2>1, <2>5, <2>8 DEF AccIsPane, Part
  <2>10. LastIsPane(polled)'
    BY <1>1, <1>3, <2>1 DEF LastIsPane, Part, Top
  <2> QED
    BY <2>9, <2>10
<1>18. ResultIsOutput'
  <2> SUFFICES ASSUME pc' = "ended", Contains(cap, Marker("BEGIN")) \/ (plain' /\ ~outrun' /\ ~compacted')
               PROVE  output = [p \in Phases |-> Slice(extract'.body, p)]
    <3>1. (last' = cap) /\ (output' = output)
      BY <1>1, <1>3
    <3> QED
      BY <3>1 DEF ResultIsOutput, Contains
  <2>1. extract'.end
    BY <1>6
  <2>2. extract' = ExtractBetweenMarkers(pane)
    <3>1. CASE Contains(cap, Marker("BEGIN"))
      BY <1>4, <2>1, <3>1
    <3>2. CASE ~Contains(cap, Marker("BEGIN"))
      <4>1. PICK off \in 0..(N - 1) : Part(s, off, N - off)
        BY <1>16, <3>2
      <4>2. extract' = found
        BY <1>16, <3>2
      <4>3. found = ExtractBetweenMarkers(s)
        BY <1>1, <3>2, FoundIs
      <4> QED
        BY <1>2, <2>1, <4>1, <4>2, <4>3, ExactText
    <3> QED
      BY <3>1, <3>2
  <2>3. output = [p \in Phases |-> Slice(Text(pane), p)]
    BY <1>2 DEF OutputIsText
  <2> QED
    BY <2>2, <2>3 DEF Text
<1>19. ~outrun' /\ Contains(pane, Marker("END")) => pc' = "ended"
  BY <1>1, <1>4, <1>7
<1> QED
  BY <1>1, <1>5, <1>10, <1>11, <1>12, <1>13, <1>14, <1>15, <1>17, <1>18, <1>19 DEF IInv, EvalInv

-----------------------------------------------------------------------------
(* The theorems. *)

\* The invariant speaks of the variables alone.
LEMMA StutterKeeps ==
  ASSUME IInv, UNCHANGED vars
  PROVE  IInv'
<1>1. /\ UNCHANGED <<pane, alike, prog, output>> /\ UNCHANGED plain
      /\ UNCHANGED <<pc, acc, last, extract, trimmed, polled, outrun, compacted>> /\ UNCHANGED evalVars
  BY DEF vars, paneVars, evalVars
<1>2. TypeOK' /\ PaneInv'
  <2>1. TypeOK'
    BY <1>1 DEF IInv, TypeOK
  <2>2. PaneInv'
    BY <1>1 DEF IInv, PaneInv, AllDifferent
  <2> QED
    BY <2>1, <2>2
<1>3. EvalInv'
  <2>1. CASE pc = "poll"
    <3>1. /\ \A j \in 1..polled : \A t \in MarkerTags : pane[j] = Marker(t) <=> pane'[j] = Marker(t)
          /\ plain' => plain /\ \A j \in 1..polled : pane'[j] = pane[j]
      BY <1>1
    <3> QED
      BY <1>1, <2>1, <3>1, EvalKept
  <2>2. CASE pc # "poll"
    <3>1. MarkersSeen'
      <4>1. Known(polled)' = Known(polled)
        BY <1>1 DEF Known
      <4> QED
        BY <1>1, <4>1 DEF IInv, EvalInv, MarkersSeen
    <3>2. MarkersKept' /\ Exact' /\ AccumulatorBounded'
      BY <1>1, <2>2 DEF MarkersKept, Exact, AccumulatorBounded
    <3>3. VerdictIsRight'
      BY <1>1 DEF IInv, EvalInv, VerdictIsRight
    <3>4. ResultIsOutput'
      BY <1>1 DEF IInv, EvalInv, ResultIsOutput
    <3> QED
      BY <3>1, <3>2, <3>3, <3>4 DEF EvalInv
  <2> QED
    BY <2>1, <2>2
<1> QED
  BY <1>2, <1>3 DEF IInv

\* The inductive invariant: what may stand in the pane and where its markers are, what
\* the accumulator keeps of them, and in which circumstances it is a part of the pane.
THEOREM CaptureInvariant == Spec => []IInv
<1>1. Init => IInv
  BY StartsWell
<1>2. IInv /\ [Next]_vars => IInv'
  BY PollKeeps, PrintMarkerKeeps, PrintTextKeeps, CompleteRowKeeps, StutterKeeps DEF Next
<1> QED
  BY <1>1, <1>2, PTL DEF Spec

\* run_marker_eval never holds anything but rows, and a capture is no longer than
\* poll_capture_lines and the screen.
THEOREM CaptureTypes == Spec => []TypeOK
<1>1. IInv => TypeOK
  BY DEF IInv
<1> QED
  BY <1>1, CaptureInvariant, PTL

\* append_marker_poll_capture keeps the accumulator within kMaxEvalAccumulatorBytes as
\* long as the eval polls, for every bound that leaves room for the tails and markers.
THEOREM AccumulatorStaysBounded == Spec => []AccumulatorBounded
<1>1. IInv => AccumulatorBounded
  BY DEF IInv, EvalInv
<1> QED
  BY <1>1, CaptureInvariant, PTL

\* An eval that ended reports an error exactly if run_command printed ERROR, however the
\* pane scrolled, repeated itself or was compacted, if no poll came too late.
THEOREM VerdictFollowsTheCode == Spec => []VerdictIsRight
<1>1. IInv => VerdictIsRight
  BY DEF IInv, EvalInv
<1> QED
  BY <1>1, CaptureInvariant, PTL

\* What slice_marker_output returns for each part is what the code printed in it.
THEOREM ResultFollowsTheCode == Spec => []ResultIsOutput
<1>1. IInv => ResultIsOutput
  BY DEF IInv, EvalInv
<1> QED
  BY <1>1, CaptureInvariant, PTL

\* Only a poll changes last_capture.
LEMMA OnlyPollCaptures ==
  ASSUME [Next]_vars, last' # last
  PROVE  Poll
BY DEF Next, PrintMarker, PrintText, CompleteRow, vars, evalVars

\* compute_kmp_overlap returns the longest overlap of every two captures that follow
\* each other.
THEOREM OverlapOfCapturesIsLongest == Spec => OverlapIsLongest
<1>1. ASSUME IInv, [Next]_vars, last # <<>>, last' # last
      PROVE  LET shorter == IF Len(last) < Len(last') THEN Len(last) ELSE Len(last')
             IN ComputeOverlap(last, last') =
                  CHOOSE k \in 0..shorter :
                    /\ IsOverlap(k, last, last')
                    /\ \A m \in (k + 1)..shorter : ~IsOverlap(m, last, last')
  <2>1. last \in Seq(Rows)
    BY <1>1, TypeFacts DEF IInv
  <2>2. last' \in Seq(Rows) /\ last' # <<>>
    BY <1>1, OnlyPollCaptures, PollKeeps
  <2> QED
    BY <1>1, <2>1, <2>2, OverlapUnique
<1> QED
  BY <1>1, CaptureInvariant, PTL DEF Spec, OverlapIsLongest

\* The poll after END finds it, unless rows were lost between two polls: no eval is
\* waited for once it has ended.
THEOREM EndIsFound == Spec => EndIsSeen
<1>1. ASSUME IInv, [Next]_vars, pc = "poll", last' # last, ~outrun', Contains(pane, Marker("END"))
      PROVE  pc' = "ended"
  BY <1>1, OnlyPollCaptures, PollKeeps
<1> QED
  BY <1>1, CaptureInvariant, PTL DEF Spec, EndIsSeen
=============================================================================
