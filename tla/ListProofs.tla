----------------------------- MODULE ListProofs -----------------------------
(***************************************************************************)
(* Facts about lists of any length.  Induction is on sets of numbers: a    *)
(* set that holds 0, and with every number the next one, holds them all.   *)
(***************************************************************************)
EXTENDS Lists, WellFoundedInduction, TLAPS

(***************************************************************************)
(* Sequences                                                               *)
(***************************************************************************)
LEMMA EmptySeq ==
    ASSUME NEW T
    PROVE  /\ <<>> \in Seq(T) /\ Len(<<>>) = 0
           /\ \A s \in Seq(T) : Len(s) = 0 => s = <<>>
OBVIOUS

LEMMA SeqEqual ==
    ASSUME NEW T, NEW s \in Seq(T), NEW t \in Seq(T),
           Len(s) = Len(t), \A i \in 1..Len(s) : s[i] = t[i]
    PROVE  s = t
OBVIOUS

LEMMA ConcatProperties ==
    ASSUME NEW T, NEW s \in Seq(T), NEW t \in Seq(T)
    PROVE  /\ s \o t \in Seq(T) /\ Len(s \o t) = Len(s) + Len(t)
           /\ \A i \in 1..(Len(s) + Len(t)) :
                 (s \o t)[i] = IF i <= Len(s) THEN s[i] ELSE t[i - Len(s)]
OBVIOUS

LEMMA ConcatEmptySeq ==
    ASSUME NEW T, NEW s \in Seq(T)
    PROVE  s \o <<>> = s /\ <<>> \o s = s
OBVIOUS

LEMMA ConcatAssociative ==
    ASSUME NEW T, NEW s \in Seq(T), NEW t \in Seq(T), NEW u \in Seq(T)
    PROVE  (s \o t) \o u = s \o (t \o u)
<1> DEFINE a == (s \o t) \o u
           b == s \o (t \o u)
<1>1. a \in Seq(T) /\ b \in Seq(T) /\ Len(a) = Len(b)
  OBVIOUS
<1>2. \A i \in 1..Len(a) : a[i] = b[i]
  OBVIOUS
<1> HIDE DEF a, b
<1>3. a = b
  BY <1>1, <1>2, SeqEqual
<1> QED BY <1>3 DEF a, b

LEMMA AppendProperties ==
    ASSUME NEW T, NEW s \in Seq(T), NEW x \in T
    PROVE  /\ Append(s, x) \in Seq(T) /\ Append(s, x) # <<>>
           /\ Len(Append(s, x)) = Len(s) + 1 /\ Append(s, x)[Len(s) + 1] = x
           /\ \A i \in 1..Len(s) : Append(s, x)[i] = s[i]
OBVIOUS

LEMMA AppendIsConcat ==
    ASSUME NEW T, NEW s \in Seq(T), NEW x \in T
    PROVE  Append(s, x) = s \o <<x>>
OBVIOUS

(***************************************************************************)
(* Numbers                                                                 *)
(***************************************************************************)
\* Every set of natural numbers has a least one.
LEMMA LeastNat ==
    ASSUME NEW T, T \subseteq Nat, T # {}
    PROVE  \E x \in T : \A y \in T : x <= y
<1> DEFINE R == {ss \in Nat \X Nat : ss[1] < ss[2]}
<1>1. IsWellFoundedOn(R, Nat)
  BY NatLessThanWellFounded, Zenon DEF OpToRel
<1> HIDE DEF R
<1>2. PICK x \in T : \A y \in T : ~(<<y, x>> \in R)
  BY <1>1, WFMin
<1>3. \A y \in T : ~(y < x)
  BY <1>2 DEF R
<1> QED BY <1>3

\* Induction on a set.
LEMMA Induction ==
    ASSUME NEW S, 0 \in S, \A n \in Nat : n \in S => n + 1 \in S
    PROVE  \A n \in Nat : n \in S
<1> DEFINE T == Nat \ S
<1> SUFFICES ASSUME T # {} PROVE FALSE
  OBVIOUS
<1>1. PICK x \in T : \A y \in T : x <= y
  BY LeastNat
<1>2. x # 0 /\ x - 1 \in Nat /\ x - 1 \notin T
  BY <1>1
<1>3. (x - 1) + 1 \in S
  BY <1>2
<1> QED BY <1>1, <1>2, <1>3

LEMMA InductionUpTo ==
    ASSUME NEW n \in Nat, NEW S, 0 \in S, \A k \in 0..(n - 1) : k \in S => k + 1 \in S
    PROVE  \A k \in 0..n : k \in S
<1> DEFINE R == {k \in Nat : k <= n => k \in S}
<1>1. 0 \in R /\ \A k \in Nat : k \in R => k + 1 \in R
  OBVIOUS
<1>2. \A k \in Nat : k \in R
  <2> HIDE DEF R
  <2> QED BY <1>1, Induction
<1> QED BY <1>2

\* Min and Max of a set of numbers below a bound.
LEMMA MinIsLeast ==
    ASSUME NEW T, T \subseteq Nat, T # {}
    PROVE  Min(T) \in T /\ \A y \in T : Min(T) <= y
BY LeastNat DEF Min

LEMMA MaxIsGreatest ==
    ASSUME NEW T, NEW n \in Nat, T \subseteq 0..n, T # {}
    PROVE  Max(T) \in T /\ \A y \in T : Max(T) >= y
<1> DEFINE U == {n - x : x \in T}
<1>1. U \subseteq Nat /\ U # {}
  <2>1. PICK x : x \in T
    OBVIOUS
  <2>2. n - x \in U
    BY <2>1
  <2>3. U \subseteq Nat
    OBVIOUS
  <2> QED BY <2>2, <2>3
<1>2. PICK u \in U : \A y \in U : u <= y
  BY <1>1, LeastNat
<1>3. PICK x \in T : u = n - x
  BY <1>2
<1>4. \A y \in T : n - y \in U
  OBVIOUS
<1>5. \A y \in T : x >= y
  BY <1>2, <1>3, <1>4
<1> QED BY <1>3, <1>5 DEF Max

\* The least of a set of positions: what SelectInSeq finds.
LEMMA FirstIn ==
    ASSUME NEW n \in Nat, NEW I, I \subseteq 1..n, I # {}
    PROVE  Min(I) \in I /\ Min(I) \in 1..n /\ \A k \in 1..(Min(I) - 1) : k \notin I
<1>1. I \subseteq Nat
  OBVIOUS
<1>2. Min(I) \in I /\ \A y \in I : Min(I) <= y
  BY <1>1, MinIsLeast
<1>3. Min(I) \in 1..n
  BY <1>2
<1>4. ASSUME NEW k \in 1..(Min(I) - 1) PROVE k \notin I
  BY <1>2, <1>3
<1> QED BY <1>2, <1>3, <1>4

(***************************************************************************)
(* Loops                                                                   *)
(***************************************************************************)
\* g: the values of A that a loop from a has computed after each of its k rounds.
History(g, A, a, k, step) ==
    g \in [0..k -> A] /\ g[0] = a /\ \A i \in 1..k : g[i] = step[i][g[i - 1]]

\* A loop of n rounds over values of A has a history.
LEMMA LoopHasHistory ==
    ASSUME NEW A, NEW a \in A, NEW n \in Nat, NEW step \in [1..n -> [A -> A]]
    PROVE  \E g : History(g, A, a, n, step)
<1> USE DEF History
<1> DEFINE H(k, g) == History(g, A, a, k, step)
           S == {k \in Nat : k <= n => \E g : H(k, g)}
<1>1. 0 \in S
  <2>1. H(0, [i \in 0..0 |-> a])
    OBVIOUS
  <2> QED BY <2>1
<1>2. ASSUME NEW k \in Nat, k \in S PROVE k + 1 \in S
  <2> SUFFICES ASSUME k + 1 <= n PROVE \E g : H(k + 1, g)
    OBVIOUS
  <2>1. PICK g : H(k, g)
    BY <1>2
  <2> DEFINE h == [i \in 0..(k + 1) |-> IF i = k + 1 THEN step[k + 1][g[k]] ELSE g[i]]
  <2>2. k + 1 \in 1..n /\ g[k] \in A
    BY <2>1
  <2>3. step[k + 1][g[k]] \in A
    BY <2>2
  <2>4. h \in [0..(k + 1) -> A] /\ h[0] = a
    BY <2>1, <2>3
  <2>5. ASSUME NEW i \in 1..(k + 1) PROVE h[i] = step[i][h[i - 1]]
    BY <2>1
  <2> QED BY <2>4, <2>5
<1>3. n \in S
  <2> HIDE DEF S
  <2> QED BY <1>1, <1>2, Induction
<1> QED BY <1>3

\* The middle of a range of two or more.
Mid(a, b) == (a + b) \div 2

LEMMA Middle ==
    ASSUME NEW n \in Nat, NEW a \in 0..n, NEW b \in 0..n, ~(b <= a), b # a + 1
    PROVE  LET m == Mid(a, b)
           IN  m \in 0..n /\ a < m /\ m < b /\ m - a < b - a /\ b - m < b - a
BY DEF Mid

\* A set of ranges that has the short ones, and any other whenever it has both halves.
HasRanges(E, n) ==
    \A a, b \in 0..n :
        b <= a + 1 \/ (<<a, Mid(a, b)>> \in E /\ <<Mid(a, b), b>> \in E) => <<a, b>> \in E

\* Induction on the length of a range.
LEMMA RangeInduction ==
    ASSUME NEW n \in Nat, NEW E, HasRanges(E, n)
    PROVE  \A a, b \in 0..n : <<a, b>> \in E
<1> DEFINE P(k) == \A a, b \in 0..n : b - a <= k => <<a, b>> \in E
           S == {k \in Nat : P(k)}
<1>1. 0 \in S
  <2>1. ASSUME NEW a \in 0..n, NEW b \in 0..n, b - a <= 0 PROVE <<a, b>> \in E
    <3>1. b <= a + 1
      BY <2>1
    <3> QED BY <3>1 DEF HasRanges
  <2> QED BY <2>1
<1>2. ASSUME NEW k \in Nat, k \in S PROVE k + 1 \in S
  <2>1. P(k)
    BY <1>2
  <2>2. ASSUME NEW a \in 0..n, NEW b \in 0..n, b - a <= k + 1 PROVE <<a, b>> \in E
    <3>1. CASE b <= a + 1
      BY <3>1 DEF HasRanges
    <3>2. CASE a + 1 < b
      <4>1. Mid(a, b) \in 0..n /\ Mid(a, b) - a <= k /\ b - Mid(a, b) <= k
        BY <2>2, <3>2, Middle
      <4>2. <<a, Mid(a, b)>> \in E /\ <<Mid(a, b), b>> \in E
        BY <2>1, <4>1
      <4> QED BY <4>2 DEF HasRanges
    <3> QED BY <3>1, <3>2
  <2>3. P(k + 1)
    BY <2>2
  <2> HIDE DEF P
  <2> QED BY <2>3
<1>3. \A k \in Nat : k \in S
  <2> HIDE DEF S
  <2> QED BY <1>1, <1>2, Induction
<1>4. P(n)
  <2> HIDE DEF P
  <2> QED BY <1>3
<1>5. \A a, b \in 0..n : b - a <= n
  OBVIOUS
<1> QED BY <1>4, <1>5

\* The sums of the first elements of a list of numbers.
LEMMA SumsSteps ==
    ASSUME NEW s \in Seq(Nat)
    PROVE  /\ Sums(s) \in [0..Len(s) -> Nat]
           /\ Sums(s)[0] = 0
           /\ \A i \in 1..Len(s) : Sums(s)[i] = Sums(s)[i - 1] + s[i]
<1> DEFINE n == Len(s)
           step == [i \in 1..n |-> [x \in Nat |-> x + s[i]]]
           Half(h, a, b) == IF b <= a THEN 0
                            ELSE IF b = a + 1 THEN s[b]
                            ELSE h[a][Mid(a, b)] + h[Mid(a, b)][b]
           Is(h) == h = [a \in 0..n |-> [b \in 0..n |-> Half(h, a, b)]]
           U == CHOOSE h : Is(h)
<1>1. n \in Nat /\ 0 \in Nat /\ \A i \in 1..n : s[i] \in Nat
  OBVIOUS
<1>2. SumOf(s) = U
  BY Zenon DEF SumOf, Mid
<1> SUFFICES /\ [i \in 0..n |-> U[0][i]] \in [0..n -> Nat]
             /\ U[0][0] = 0
             /\ \A i \in 1..n : U[0][i] = U[0][i - 1] + s[i]
  <2> HIDE DEF U
  <2> QED BY <1>1, <1>2 DEF Sums
<1> HIDE DEF n
<1>3. PICK g : History(g, Nat, 0, n, step)
  <2>1. step \in [1..n -> [Nat -> Nat]]
    BY <1>1
  <2> QED BY <1>1, <2>1, LoopHasHistory
<1>4. /\ g[0] = 0 /\ \A i \in 0..n : g[i] \in Nat
      /\ \A i \in 1..n : g[i] = g[i - 1] + s[i]
  <2>1. g \in [0..n -> Nat] /\ g[0] = 0
    BY <1>3 DEF History
  <2>2. ASSUME NEW i \in 1..n PROVE g[i] = g[i - 1] + s[i]
    <3>1. g[i - 1] \in Nat
      BY <1>1, <2>1
    <3> QED BY <1>3, <3>1 DEF History
  <2> QED BY <2>1, <2>2
<1> HIDE DEF step
<1> DEFINE G == [a \in 0..n |-> [b \in 0..n |-> IF b <= a THEN 0 ELSE g[b] - g[a]]]
<1>5. \A a, b \in 0..n : G[a][b] = IF b <= a THEN 0 ELSE g[b] - g[a]
  OBVIOUS
<1>6. Is(G)
  <2>1. ASSUME NEW a \in 0..n, NEW b \in 0..n
        PROVE  G[a][b] = Half(G, a, b)
    <3> HIDE DEF G
    <3>1. CASE b <= a
      BY <1>5, <3>1
    <3>2. CASE ~(b <= a) /\ b = a + 1
      <4>1. b \in 1..n /\ b - 1 = a
        BY <1>1, <3>2
      <4>2. g[b] = g[a] + s[b] /\ g[a] \in Nat /\ s[b] \in Nat
        BY <1>1, <1>4, <4>1
      <4> QED BY <1>5, <3>2, <4>2
    <3>3. CASE ~(b <= a) /\ b # a + 1
      <4> DEFINE m == Mid(a, b)
      <4>1. m \in 0..n /\ a < m /\ m < b
        BY <1>1, <3>3, Middle
      <4> HIDE DEF m
      <4>2. g[a] \in Nat /\ g[b] \in Nat /\ g[m] \in Nat
        BY <1>4, <4>1
      <4>3. G[a][m] = g[m] - g[a] /\ G[m][b] = g[b] - g[m] /\ G[a][b] = g[b] - g[a]
        BY <1>5, <3>3, <4>1
      <4>4. G[a][b] = G[a][m] + G[m][b]
        BY <4>2, <4>3
      <4> QED BY <3>3, <4>4 DEF m
    <3> QED BY <3>1, <3>2, <3>3
  <2> HIDE DEF Half
  <2> QED BY <2>1
<1>7. Is(U)
  BY <1>6, Zenon
<1> HIDE DEF U, G
<1>8. \A a, b \in 0..n : U[a][b] = G[a][b]
  <2> DEFINE E == {e \in (0..n) \X (0..n) : U[e[1]][e[2]] = G[e[1]][e[2]]}
  <2>1. \A a, b \in 0..n : <<a, b>> \in E <=> U[a][b] = G[a][b]
    OBVIOUS
  <2>2. ASSUME NEW a \in 0..n, NEW b \in 0..n
        PROVE  U[a][b] = Half(U, a, b) /\ G[a][b] = Half(G, a, b)
    <3> HIDE DEF Half
    <3>1. U[a] = [c \in 0..n |-> Half(U, a, c)] /\ G[a] = [c \in 0..n |-> Half(G, a, c)]
      BY <1>6, <1>7
    <3> QED BY <3>1
  <2> HIDE DEF Is, E, Half
  <2>3. ASSUME NEW a \in 0..n, NEW b \in 0..n,
               b <= a + 1 \/ (<<a, Mid(a, b)>> \in E /\ <<Mid(a, b), b>> \in E)
        PROVE  <<a, b>> \in E
    <3>1. CASE b <= a + 1
      <4>1. Half(U, a, b) = Half(G, a, b)
        BY <1>1, <3>1 DEF Half
      <4> QED BY <2>1, <2>2, <4>1
    <3>2. CASE a + 1 < b
      <4> DEFINE m == Mid(a, b)
      <4>1. m \in 0..n
        BY <1>1, <3>2, Middle
      <4>2. U[a][m] = G[a][m] /\ U[m][b] = G[m][b]
        BY <2>1, <2>3, <3>2, <4>1
      <4>3. \A h : Half(h, a, b) = h[a][m] + h[m][b]
        BY <1>1, <3>2 DEF Half
      <4> HIDE DEF m
      <4> QED BY <2>1, <2>2, <4>2, <4>3
    <3> QED BY <1>1, <3>1, <3>2
  <2>4. HasRanges(E, n)
    BY <2>3 DEF HasRanges
  <2>5. \A a, b \in 0..n : <<a, b>> \in E
    BY <1>1, <2>4, RangeInduction
  <2> QED BY <2>1, <2>5
<1>9. \A i \in 0..n : U[0][i] = g[i]
  BY <1>1, <1>4, <1>5, <1>8
<1> HIDE DEF Is
<1>10. U[0][0] = 0 /\ \A i \in 1..n : U[0][i] = U[0][i - 1] + s[i]
  BY <1>1, <1>4, <1>9
<1>11. [i \in 0..n |-> U[0][i]] \in [0..n -> Nat]
  BY <1>4, <1>9
<1> QED BY <1>10, <1>11

\* The elements a loop has kept after each round.
LEMMA KeptSteps ==
    \A T : \A s \in Seq(T) : \A I :
            /\ KeptUpTo(s, I) \in [0..Len(s) -> Seq(T)]
            /\ KeptUpTo(s, I)[0] = <<>>
            /\ \A i \in 1..Len(s) :
                  KeptUpTo(s, I)[i] = IF i \in I THEN Append(KeptUpTo(s, I)[i - 1], s[i])
                                      ELSE KeptUpTo(s, I)[i - 1]
\* Its values are of A if each round that starts from one ends in one.
<1>LoopStays. ASSUME NEW A, NEW n \in Nat, NEW g, g[0] \in A,
                     \A i \in 1..n : g[i - 1] \in A => g[i] \in A
              PROVE  \A i \in 0..n : g[i] \in A
  <2> USE <1>LoopStays
  <2> DEFINE S == {k \in 0..n : g[k] \in A}
  <2>1. 0 \in S /\ \A k \in 0..(n - 1) : k \in S => k + 1 \in S
    OBVIOUS
  <2>2. \A k \in 0..n : k \in S
    <3> HIDE DEF S
    <3> QED BY <2>1, InductionUpTo
  <2> QED BY <2>2
<1> SUFFICES ASSUME NEW T, NEW s \in Seq(T), NEW I
             PROVE /\ KeptUpTo(s, I) \in [0..Len(s) -> Seq(T)]
                   /\ KeptUpTo(s, I)[0] = <<>>
                   /\ \A i \in 1..Len(s) :
                         KeptUpTo(s, I)[i] = IF i \in I THEN Append(KeptUpTo(s, I)[i - 1], s[i])
                                             ELSE KeptUpTo(s, I)[i - 1]
  OBVIOUS
<1> DEFINE Round(i, x) == IF i \in I THEN Append(x, s[i]) ELSE x
           n == Len(s)
           step == [i \in 1..n |-> [x \in Seq(T) |-> Round(i, x)]]
           Is(h) == h = [i \in 0..n |-> IF i = 0 THEN <<>> ELSE Round(i, h[i - 1])]
           U == CHOOSE h : Is(h)
<1>1. <<>> \in Seq(T) /\ n \in Nat
  OBVIOUS
<1>2. \A i \in 1..n, x \in Seq(T) : Round(i, x) \in Seq(T)
  OBVIOUS
<1>3. KeptUpTo(s, I) = U
  BY Zenon DEF KeptUpTo
<1> SUFFICES /\ U \in [0..n -> Seq(T)]
             /\ U[0] = <<>>
             /\ \A i \in 1..n : U[i] = Round(i, U[i - 1])
  BY <1>3, Zenon
<1> HIDE DEF n, Round
<1>4. PICK g : History(g, Seq(T), <<>>, n, step)
  <2>1. step \in [1..n -> [Seq(T) -> Seq(T)]]
    BY <1>2
  <2> QED BY <1>1, <2>1, LoopHasHistory
<1>5. Is(g)
  <2>1. g \in [0..n -> Seq(T)] /\ g[0] = <<>>
    BY <1>4 DEF History
  <2>2. ASSUME NEW i \in 1..n PROVE g[i] = Round(i, g[i - 1])
    <3>1. g[i - 1] \in Seq(T)
      BY <1>1, <2>1
    <3> QED BY <1>4, <3>1 DEF History
  <2> QED BY <1>1, <2>1, <2>2
<1>6. Is(U)
  BY <1>5, Zenon
<1> HIDE DEF U
<1>7. U[0] = <<>> /\ \A i \in 1..n : U[i] = Round(i, U[i - 1])
  BY <1>1, <1>6
<1>8. \A i \in 0..n : U[i] \in Seq(T)
  BY <1>1, <1>2, <1>7, <1>LoopStays
<1>9. U \in [0..n -> Seq(T)]
  BY <1>6, <1>8
<1> QED BY <1>7, <1>9

\* The elements of a list.
LEMMA RangeElements ==
    ASSUME NEW T, NEW s \in Seq(T)
    PROVE  \A x : x \in Range(s) <=> \E i \in 1..Len(s) : x = s[i]
BY DEF Range

(***************************************************************************)
(* What is kept of a list                                                  *)
(***************************************************************************)
\* t has the elements of s at the positions of 1..n that are in I, in order: its
\* k-th element is the one at f[k].
Picks(f, t, s, I, n) ==
    /\ f \in [1..Len(t) -> 1..n]
    /\ \A j, k \in 1..Len(t) : j < k => f[j] < f[k]
    /\ \A k \in 1..Len(t) : f[k] \in I /\ t[k] = s[f[k]]
    /\ \A i \in 1..n : i \in I => \E k \in 1..Len(t) : f[k] = i

\* Keep(s, I) has the elements of s at the positions in I, in order.
LEMMA KeepPicks ==
    \A T : \A s \in Seq(T) : \A I :
            Keep(s, I) \in Seq(T) /\ \E f : Picks(f, Keep(s, I), s, I, Len(s))
<1>KeptPicks. ASSUME NEW T, NEW s \in Seq(T), NEW I
              PROVE  \A n \in 0..Len(s) : \E f : Picks(f, KeptUpTo(s, I)[n], s, I, n)
  <2> USE <1>KeptPicks
  <2> DEFINE K == KeptUpTo(s, I)
             S == {n \in 0..Len(s) : \E f : Picks(f, K[n], s, I, n)}
  <2>1. /\ K \in [0..Len(s) -> Seq(T)]
        /\ K[0] = <<>>
        /\ \A i \in 1..Len(s) : K[i] = IF i \in I THEN Append(K[i - 1], s[i]) ELSE K[i - 1]
    BY KeptSteps
  <2> HIDE DEF K
  <2>2. 0 \in S
    <3>1. Picks([k \in 1..0 |-> 0], K[0], s, I, 0)
      BY <2>1 DEF Picks
    <3> QED BY <3>1
  <2>3. ASSUME NEW n \in 0..(Len(s) - 1), n \in S PROVE n + 1 \in S
    <3>1. PICK f : Picks(f, K[n], s, I, n)
      BY <2>3
    <3>2. n + 1 \in 1..Len(s) /\ n \in 0..Len(s) /\ (n + 1) - 1 = n /\ s[n + 1] \in T
      OBVIOUS
    <3>3. CASE n + 1 \notin I
      <4>1. K[n + 1] = K[n]
        BY <2>1, <3>2, <3>3
      <4>2. Picks(f, K[n + 1], s, I, n + 1)
        BY <3>1, <3>2, <3>3, <4>1 DEF Picks
      <4> QED BY <3>2, <4>2
    <3>4. CASE n + 1 \in I
      <4> DEFINE t == K[n]
                 u == K[n + 1]
                 g == [k \in 1..(Len(t) + 1) |-> IF k = Len(t) + 1 THEN n + 1 ELSE f[k]]
      <4>1. t \in Seq(T) /\ u = Append(t, s[n + 1])
        BY <2>1, <3>2, <3>4
      <4>2. /\ Len(t) \in Nat
            /\ Len(u) = Len(t) + 1
            /\ u[Len(t) + 1] = s[n + 1]
            /\ \A k \in 1..Len(t) : u[k] = t[k]
        BY <3>2, <4>1, AppendProperties
      <4> HIDE DEF t, u
      <4>3. Picks(f, t, s, I, n)
        BY <3>1 DEF t
      <4>4. Picks(g, u, s, I, n + 1)
        <5> DEFINE m == Len(t)
        <5> HIDE DEF m
        <5>1. m \in Nat /\ Len(u) = m + 1
          BY <4>2 DEF m
        <5>2. f \in [1..m -> 1..n] /\ g = [k \in 1..(m + 1) |-> IF k = m + 1 THEN n + 1 ELSE f[k]]
          BY <4>3 DEF m, Picks
        <5> HIDE DEF g
        <5>3. g \in [1..(m + 1) -> 1..(n + 1)]
          BY <5>1, <5>2
        <5>4. ASSUME NEW j \in 1..(m + 1), NEW k \in 1..(m + 1), j < k PROVE g[j] < g[k]
          <6>1. \A a, b \in 1..m : a < b => f[a] < f[b]
            BY <4>3 DEF m, Picks
          <6>2. j \in 1..m /\ g[j] = f[j] /\ f[j] \in 1..n
            BY <5>1, <5>2, <5>4
          <6>3. CASE k = m + 1
            BY <5>1, <5>2, <6>2, <6>3
          <6>4. CASE k # m + 1
            <7>1. k \in 1..m /\ g[k] = f[k]
              BY <5>1, <5>2, <6>4
            <7> QED BY <5>4, <6>1, <6>2, <7>1
          <6> QED BY <6>3, <6>4
        <5>5. ASSUME NEW k \in 1..(m + 1) PROVE g[k] \in I /\ u[k] = s[g[k]]
          BY <3>4, <4>2, <4>3, <5>1, <5>2 DEF m, Picks
        <5>6. ASSUME NEW i \in 1..(n + 1), i \in I PROVE \E k \in 1..(m + 1) : g[k] = i
          <6>1. CASE i = n + 1
            BY <5>1, <5>2, <6>1
          <6>2. CASE i # n + 1
            <7>1. PICK k \in 1..m : f[k] = i
              BY <4>3, <5>6, <6>2 DEF m, Picks
            <7> QED BY <5>1, <5>2, <7>1
          <6> QED BY <6>1, <6>2
        <5> QED BY <5>1, <5>3, <5>4, <5>5, <5>6 DEF Picks
      <4> QED BY <3>2, <4>4 DEF u
    <3> QED BY <3>3, <3>4
  <2>4. \A n \in 0..Len(s) : n \in S
    <3>1. Len(s) \in Nat
      OBVIOUS
    <3> HIDE DEF S
    <3> QED BY <2>2, <2>3, <3>1, InductionUpTo
  <2> QED BY <2>4 DEF K
<1> SUFFICES ASSUME NEW T, NEW s \in Seq(T), NEW I
             PROVE Keep(s, I) \in Seq(T) /\ \E f : Picks(f, Keep(s, I), s, I, Len(s))
  OBVIOUS
<1>1. Len(s) \in 0..Len(s)
  OBVIOUS
<1>2. KeptUpTo(s, I)[Len(s)] \in Seq(T)
  BY <1>1, KeptSteps
<1>3. \E f : Picks(f, KeptUpTo(s, I)[Len(s)], s, I, Len(s))
  BY <1>1, <1>KeptPicks
<1> QED BY <1>2, <1>3 DEF Keep

\* t begins with s.
Begins(s, t) == Len(s) <= Len(t) /\ \A k \in 1..Len(s) : t[k] = s[k]

LEMMA BeginsIsCut ==
    ASSUME NEW T, NEW s \in Seq(T), NEW t \in Seq(T), Begins(s, t)
    PROVE  SubSeq(t, 1, Len(s)) = s
<1>1. /\ SubSeq(t, 1, Len(s)) \in Seq(T) /\ Len(SubSeq(t, 1, Len(s))) = Len(s)
      /\ \A k \in 1..Len(s) : SubSeq(t, 1, Len(s))[k] = s[k]
  BY DEF Begins
<1> QED BY <1>1, SeqEqual

(***************************************************************************)
(* Lists of lists                                                          *)
(***************************************************************************)
\* The lists of ss, one after the other.
Flat(ss) ==
    LET flat[i \in 1..Len(ss)] == IF i = 1 THEN ss[i] ELSE flat[i - 1] \o ss[i]
    IN  IF Len(ss) = 0 THEN ss ELSE flat[Len(ss)]

\* F[i]: the first i lists of ss, one after the other.
Joins(F, ss, T) ==
    /\ F \in [0..Len(ss) -> Seq(T)]
    /\ F[0] = <<>>
    /\ \A i \in 1..Len(ss) : F[i] = F[i - 1] \o ss[i]

LEMMA FlatJoins ==
    ASSUME NEW T, NEW ss \in Seq(Seq(T))
    PROVE  \E F : Joins(F, ss, T) /\ Flat(ss) = F[Len(ss)]
<1> DEFINE n == Len(ss)
           Round(i, x) == x \o ss[i]
           step == [i \in 1..n |-> [x \in Seq(T) |-> Round(i, x)]]
           Is(h) == h = [i \in 1..n |-> IF i = 1 THEN ss[i] ELSE Round(i, h[i - 1])]
           U == CHOOSE h : Is(h)
<1>1. <<>> \in Seq(T) /\ n \in Nat
  OBVIOUS
<1>2. /\ \A i \in 1..n, x \in Seq(T) : Round(i, x) \in Seq(T)
      /\ \A i \in 1..n : ss[i] \in Seq(T) /\ Round(i, <<>>) = ss[i]
  BY ConcatProperties, ConcatEmptySeq
<1>3. Flat(ss) = IF n = 0 THEN ss ELSE U[n]
  BY Zenon DEF Flat
<1>4. ss = <<>> <=> n = 0
  OBVIOUS
<1> SUFFICES \E F : /\ F \in [0..n -> Seq(T)]
                    /\ F[0] = <<>>
                    /\ \A i \in 1..n : F[i] = Round(i, F[i - 1])
                    /\ Flat(ss) = F[n]
  BY Zenon DEF Joins
<1> HIDE DEF n, Round
<1>5. PICK g : History(g, Seq(T), <<>>, n, step)
  <2>1. step \in [1..n -> [Seq(T) -> Seq(T)]]
    BY <1>2
  <2> QED BY <1>1, <2>1, LoopHasHistory
<1>6. g \in [0..n -> Seq(T)] /\ g[0] = <<>>
  BY <1>5 DEF History
<1>7. ASSUME NEW i \in 1..n PROVE g[i] = Round(i, g[i - 1])
  <2>1. g[i - 1] \in Seq(T)
    BY <1>1, <1>6
  <2> QED BY <1>5, <2>1 DEF History
<1> HIDE DEF step
<1>8. Is([i \in 1..n |-> g[i]])
  <2>1. ASSUME NEW i \in 1..n, i # 1 PROVE i - 1 \in 1..n
    BY <1>1, <2>1
  <2>2. 1 \in 1..n => g[1] = ss[1]
    BY <1>2, <1>6, <1>7
  <2> QED BY <1>7, <2>1, <2>2
<1>9. Is(U)
  BY <1>8, Zenon
<1> HIDE DEF U
<1> DEFINE S == {k \in 0..n : k = 0 \/ U[k] = g[k]}
<1>10. 0 \in S
  BY <1>1
<1>11. ASSUME NEW k \in 0..(n - 1), k \in S PROVE k + 1 \in S
  <2>1. k + 1 \in 1..n /\ (k + 1) - 1 = k
    BY <1>1
  <2>2. U[k + 1] = IF k + 1 = 1 THEN ss[k + 1] ELSE Round(k + 1, U[k])
    BY <1>9, <2>1
  <2>3. g[k + 1] = Round(k + 1, g[k])
    BY <1>7, <2>1
  <2>4. CASE k = 0
    BY <1>2, <1>6, <2>1, <2>2, <2>3, <2>4
  <2>5. CASE k # 0
    BY <1>11, <2>1, <2>2, <2>3, <2>5
  <2> QED BY <2>4, <2>5
<1>12. n \in S
  <2> HIDE DEF S
  <2>1. \A k \in 0..n : k \in S
    BY <1>1, <1>10, <1>11, InductionUpTo
  <2> QED BY <1>1, <2>1
<1>13. Flat(ss) = g[n]
  BY <1>3, <1>4, <1>6, <1>12
<1> QED BY <1>6, <1>7, <1>13

LEMMA FlatIsSeq ==
    ASSUME NEW T, NEW ss \in Seq(Seq(T))
    PROVE  Flat(ss) \in Seq(T)
<1>1. PICK F : Joins(F, ss, T) /\ Flat(ss) = F[Len(ss)]
  BY FlatJoins
<1>2. Len(ss) \in 0..Len(ss)
  OBVIOUS
<1> QED BY <1>1, <1>2 DEF Joins

LEMMA FlatEmpty == Flat(<<>>) = <<>>
BY DEF Flat

\* One more list at the end.
LEMMA FlatAppend ==
    \A T : \A ss \in Seq(Seq(T)), t \in Seq(T) :
            Flat(Append(ss, t)) = Flat(ss) \o t
\* There is only one way to join them.
<1>JoinsAgree. ASSUME NEW T, NEW ss \in Seq(Seq(T)), NEW tt \in Seq(Seq(T)), NEW F, NEW G,
                      Joins(F, ss, T), Joins(G, tt, T),
                      Len(ss) <= Len(tt), \A i \in 1..Len(ss) : ss[i] = tt[i]
               PROVE  \A i \in 0..Len(ss) : F[i] = G[i]
  <2> USE <1>JoinsAgree
  <2> DEFINE S == {k \in 0..Len(ss) : F[k] = G[k]}
  <2>1. Len(ss) \in Nat /\ Len(tt) \in Nat
    OBVIOUS
  <2>2. 0 \in S
    BY <2>1 DEF Joins
  <2>3. ASSUME NEW k \in 0..(Len(ss) - 1), k \in S PROVE k + 1 \in S
    <3>1. k + 1 \in 1..Len(ss) /\ k + 1 \in 1..Len(tt) /\ (k + 1) - 1 = k /\ k + 1 \in 0..Len(ss)
      BY <2>1
    <3>2. F[k + 1] = F[k] \o ss[k + 1] /\ G[k + 1] = G[k] \o tt[k + 1]
      BY <3>1 DEF Joins
    <3>3. F[k] = G[k] /\ ss[k + 1] = tt[k + 1]
      BY <2>3, <3>1
    <3>4. F[k + 1] = G[k + 1]
      BY <3>2, <3>3
    <3> QED BY <3>1, <3>4
  <2>4. \A k \in 0..Len(ss) : k \in S
    <3> HIDE DEF S
    <3> QED BY <2>1, <2>2, <2>3, InductionUpTo
  <2> QED BY <2>4
<1> SUFFICES ASSUME NEW T, NEW ss \in Seq(Seq(T)), NEW t \in Seq(T)
             PROVE Flat(Append(ss, t)) = Flat(ss) \o t
  OBVIOUS
<1> DEFINE tt == Append(ss, t)
<1>1. /\ tt \in Seq(Seq(T)) /\ Len(tt) = Len(ss) + 1 /\ tt[Len(tt)] = t
      /\ Len(ss) <= Len(tt) /\ \A i \in 1..Len(ss) : ss[i] = tt[i]
  BY AppendProperties
<1> HIDE DEF tt
<1>2. PICK F : Joins(F, ss, T) /\ Flat(ss) = F[Len(ss)]
  BY FlatJoins
<1>3. PICK G : Joins(G, tt, T) /\ Flat(tt) = G[Len(tt)]
  BY <1>1, FlatJoins
<1>4. \A i \in 0..Len(ss) : F[i] = G[i]
  BY <1>1, <1>2, <1>3, <1>JoinsAgree
<1>5. Len(ss) \in 0..Len(ss) /\ Len(tt) \in 1..Len(tt) /\ Len(tt) - 1 = Len(ss)
  BY <1>1
<1>6. G[Len(tt)] = G[Len(ss)] \o t
  BY <1>1, <1>3, <1>5 DEF Joins
<1>7. F[Len(ss)] = G[Len(ss)]
  BY <1>4, <1>5
<1> QED BY <1>2, <1>3, <1>6, <1>7 DEF tt

\* The lists of two lists of lists.
LEMMA FlatConcat ==
    \A T : \A ss \in Seq(Seq(T)) :
            \A tt \in Seq(Seq(T)) : Flat(ss \o tt) = Flat(ss) \o Flat(tt)
<1>LongerIsAppend. ASSUME NEW T, NEW s \in Seq(T), NEW n \in Nat, Len(s) = n + 1
                   PROVE  \E t \in Seq(T), x \in T : s = Append(t, x) /\ Len(t) = n
  <2> USE <1>LongerIsAppend
  <2> DEFINE t == SubSeq(s, 1, n)
  <2>1. t \in Seq(T) /\ Len(t) = n /\ s[n + 1] \in T
    OBVIOUS
  <2>2. s = Append(t, s[n + 1])
    OBVIOUS
  <2> HIDE DEF t
  <2> QED BY <2>1, <2>2
<1>ConcatAppend. ASSUME NEW T, NEW s \in Seq(T), NEW t \in Seq(T), NEW x \in T
                 PROVE  s \o Append(t, x) = Append(s \o t, x)
  <2> USE <1>ConcatAppend
  <2>1. <<x>> \in Seq(T) /\ s \o t \in Seq(T)
    BY ConcatProperties
  <2>2. Append(t, x) = t \o <<x>> /\ Append(s \o t, x) = (s \o t) \o <<x>>
    BY <2>1, AppendIsConcat
  <2>3. (s \o t) \o <<x>> = s \o (t \o <<x>>)
    BY <2>1, ConcatAssociative
  <2> QED BY <2>2, <2>3
<1> SUFFICES ASSUME NEW T, NEW ss \in Seq(Seq(T))
             PROVE \A tt \in Seq(Seq(T)) : Flat(ss \o tt) = Flat(ss) \o Flat(tt)
  OBVIOUS
<1> DEFINE P(tt) == Flat(ss \o tt) = Flat(ss) \o Flat(tt)
           S == {n \in Nat : \A tt \in Seq(Seq(T)) : Len(tt) = n => P(tt)}
<1>1. Flat(ss) \in Seq(T)
  BY FlatIsSeq
<1>2. 0 \in S
  <2>1. ss \o <<>> = ss /\ Flat(ss) \o <<>> = Flat(ss)
    BY <1>1, ConcatEmptySeq
  <2>2. P(<<>>)
    BY <2>1, FlatEmpty
  <2>3. \A tt \in Seq(Seq(T)) : Len(tt) = 0 => tt = <<>>
    BY EmptySeq
  <2> QED BY <2>2, <2>3
<1>3. ASSUME NEW n \in Nat, n \in S PROVE n + 1 \in S
  <2> SUFFICES ASSUME NEW tt \in Seq(Seq(T)), Len(tt) = n + 1 PROVE P(tt)
    OBVIOUS
  <2>1. PICK uu \in Seq(Seq(T)), x \in Seq(T) : tt = Append(uu, x) /\ Len(uu) = n
    BY <1>LongerIsAppend
  <2>2. Flat(ss \o uu) = Flat(ss) \o Flat(uu)
    BY <1>3, <2>1
  <2>3. ss \o tt = Append(ss \o uu, x)
    BY <2>1, <1>ConcatAppend
  <2>4. ss \o uu \in Seq(Seq(T)) /\ Flat(uu) \in Seq(T)
    BY ConcatProperties, FlatIsSeq
  <2>5. Flat(ss \o tt) = Flat(ss \o uu) \o x /\ Flat(tt) = Flat(uu) \o x
    BY <2>1, <2>3, <2>4, FlatAppend
  <2>6. (Flat(ss) \o Flat(uu)) \o x = Flat(ss) \o (Flat(uu) \o x)
    <3>1. \A a, b, c \in Seq(T) : (a \o b) \o c = a \o (b \o c)
      <4> TAKE a, b, c \in Seq(T)
      <4> QED BY ConcatAssociative, SMTT(20)
    <3> QED BY <1>1, <2>4, <3>1, Zenon
  <2> QED BY <2>2, <2>5, <2>6, Zenon
<1>4. \A n \in Nat : n \in S
  <2> HIDE DEF S
  <2> QED BY <1>2, <1>3, Induction
<1> QED BY <1>4

\* The sums grow.
LEMMA SumsGrow ==
    ASSUME NEW s \in Seq(Nat), NEW i \in 0..Len(s)
    PROVE  \A k \in i..Len(s) : Sums(s)[i] <= Sums(s)[k]
<1> DEFINE S == Sums(s)
           n == Len(s)
           A == {k \in 0..n : i <= k => S[i] <= S[k]}
<1>1. n \in Nat /\ \A k \in 1..n : s[k] \in Nat
  OBVIOUS
<1>2. S \in [0..n -> Nat] /\ \A k \in 1..n : S[k] = S[k - 1] + s[k]
  BY SumsSteps
<1> HIDE DEF S, n
<1>3. i \in 0..n
  BY DEF n
<1>4. 0 \in A
  BY <1>1, <1>2, <1>3
<1>5. ASSUME NEW k \in 0..(n - 1), k \in A PROVE k + 1 \in A
  <2>1. k \in 0..n /\ k + 1 \in 1..n /\ k + 1 \in 0..n /\ (k + 1) - 1 = k
    BY <1>1
  <2>2. S[k + 1] = S[k] + s[k + 1] /\ s[k + 1] \in Nat /\ S[k] \in Nat /\ S[i] \in Nat
    BY <1>1, <1>2, <1>3, <2>1
  <2>3. i <= k + 1 => S[i] <= S[k + 1]
    BY <1>3, <1>5, <2>1, <2>2
  <2> QED BY <2>1, <2>3
<1>6. \A k \in 0..n : k \in A
  <2> HIDE DEF A
  <2> QED BY <1>1, <1>4, <1>5, InductionUpTo
<1>7. ASSUME NEW k \in i..n PROVE S[i] <= S[k]
  <2>1. k \in 0..n /\ i <= k
    BY <1>1, <1>3
  <2> QED BY <1>6, <2>1
<1> QED BY <1>7 DEF S, n

\* Two members of a sequence of numbers are together at most its sum.
LEMMA TwoOfSum ==
    ASSUME NEW s \in Seq(Nat), NEW i \in 1..Len(s), NEW j \in 1..Len(s), i < j
    PROVE  s[i] + s[j] <= Sums(s)[Len(s)]
<1> DEFINE S == Sums(s)
           n == Len(s)
<1>1. n \in Nat /\ i \in 1..n /\ j \in 1..n /\ s[i] \in Nat /\ s[j] \in Nat
  OBVIOUS
<1>2. S \in [0..n -> Nat] /\ \A k \in 1..n : S[k] = S[k - 1] + s[k]
  BY SumsSteps
<1>3. i \in 0..n /\ j \in 0..n /\ i - 1 \in 0..n /\ j - 1 \in 0..n /\ n \in 0..n
      /\ j - 1 \in i..n /\ n \in j..n
  BY <1>1
<1>4. S[i] <= S[j - 1] /\ S[j] <= S[n]
  BY <1>3, SumsGrow
<1> HIDE DEF S, n
<1>5. S[i] = S[i - 1] + s[i] /\ S[j] = S[j - 1] + s[j]
  BY <1>1, <1>2
<1>6. S[i - 1] \in Nat /\ S[j - 1] \in Nat /\ S[i] \in Nat /\ S[j] \in Nat /\ S[n] \in Nat
  BY <1>2, <1>3
<1> DEFINE a == S[i - 1]
           b == S[j - 1]
           x == s[i]
           y == s[j]
           c == S[n]
<1>7. a \in Nat /\ b \in Nat /\ c \in Nat /\ x \in Nat /\ y \in Nat /\ a + x <= b /\ b + y <= c
  BY <1>1, <1>4, <1>5, <1>6
<1> HIDE DEF a, b, x, y, c
<1>8. x + y <= c
  BY <1>7
<1> QED BY <1>8 DEF S, n, x, y, c

\* The two parts of a concatenation.
LEMMA ConcatParts ==
    ASSUME NEW T, NEW u \in Seq(T), NEW v \in Seq(T), NEW w, w = u \o v,
           NEW a, NEW b, a = Len(u), b = Len(v)
    PROVE  /\ w \in Seq(T) /\ Len(w) = a + b
           /\ \A p \in 1..a : w[p] = u[p]
           /\ \A p \in 1..b : w[a + p] = v[p]
<1>1. /\ w \in Seq(T) /\ Len(w) = a + b
      /\ \A p \in 1..(a + b) : w[p] = IF p <= a THEN u[p] ELSE v[p - a]
  BY ConcatProperties
<1>2. a \in Nat /\ b \in Nat
  OBVIOUS
<1>3. ASSUME NEW p \in 1..a PROVE w[p] = u[p]
  BY <1>1, <1>2
<1>4. ASSUME NEW p \in 1..b PROVE w[a + p] = v[p]
  <2>1. a + p \in 1..(a + b) /\ ~(a + p <= a) /\ (a + p) - a = p
    BY <1>2
  <2> QED BY <1>1, <2>1
<1> QED BY <1>1, <1>3, <1>4

\* lens has the lengths of the lists of ss.
Measures(lens, ss) ==
    lens \in Seq(Nat) /\ Len(lens) = Len(ss) /\ \A i \in 1..Len(ss) : Len(ss[i]) = lens[i]

\* d has the lists of ss one after the other, from position q + 1 on.
Holds(d, q, ss, lens) ==
    \A i \in 1..Len(ss) : \A j \in 1..lens[i] : d[q + (Sums(lens)[i - 1] + j)] = ss[i][j]

\* Where the lists of ss lie in their concatenation.
LEMMA FlatPlaces ==
    ASSUME NEW T, NEW ss \in Seq(Seq(T)), NEW lens, Measures(lens, ss)
    PROVE  /\ Len(Flat(ss)) = Sums(lens)[Len(ss)]
           /\ \A i \in 1..Len(ss) :
                 /\ Sums(lens)[i] <= Sums(lens)[Len(ss)]
                 /\ \A j \in 1..lens[i] : Flat(ss)[Sums(lens)[i - 1] + j] = ss[i][j]
<1> DEFINE n == Len(ss)
           S == Sums(lens)
           There(f, i) == \A j \in 1..lens[i] : f[S[i - 1] + j] = ss[i][j]
<1>1. PICK F : Joins(F, ss, T) /\ Flat(ss) = F[Len(ss)]
  BY FlatJoins
<1>2. /\ n \in Nat /\ F \in [0..n -> Seq(T)] /\ F[0] = <<>>
      /\ \A i \in 1..n : F[i] = F[i - 1] \o ss[i]
  <2>1. n \in Nat
    OBVIOUS
  <2> QED BY <1>1, <2>1, Zenon DEF Joins
<1>3. S \in [0..n -> Nat] /\ S[0] = 0 /\ \A i \in 1..n : S[i] = S[i - 1] + lens[i]
  BY SumsSteps DEF Measures
<1>4. \A i \in 1..n : ss[i] \in Seq(T) /\ Len(ss[i]) = lens[i] /\ lens[i] \in Nat
  BY DEF Measures
<1> HIDE DEF n, S, There
<1> DEFINE P(k) == Len(F[k]) = S[k] /\ \A i \in 1..k : S[i] <= S[k] /\ There(F[k], i)
           A == {k \in 0..n : P(k)}
<1>5. 0 \in A
  BY <1>2, <1>3
<1>6. ASSUME NEW k \in 0..(n - 1), k \in A PROVE k + 1 \in A
  <2>1. k \in 0..n /\ k + 1 \in 1..n /\ k + 1 \in 0..n /\ (k + 1) - 1 = k
    BY <1>2
  <2>2. Len(F[k]) = S[k] /\ \A i \in 1..k : S[i] <= S[k] /\ There(F[k], i)
    BY <1>6
  <2> DEFINE u == F[k]
             v == ss[k + 1]
             w == F[k + 1]
             a == S[k]
             b == lens[k + 1]
  <2>3. u \in Seq(T) /\ v \in Seq(T) /\ w = u \o v /\ b = Len(v) /\ b \in Nat
    BY <1>2, <1>4, <2>1
  <2>4. S[k + 1] = a + b /\ a \in Nat /\ a = Len(u)
    BY <1>3, <2>1, <2>2
  <2> HIDE DEF P, A, u, v, w, a, b
  <2>5. /\ Len(w) = a + b /\ \A p \in 1..a : w[p] = u[p]
        /\ \A p \in 1..b : w[a + p] = v[p]
    BY <2>3, <2>4, ConcatParts
  <2>6. ASSUME NEW i \in 1..(k + 1) PROVE S[i] <= S[k + 1] /\ There(w, i)
    <3>1. CASE i = k + 1
      <4>1. There(w, k + 1)
        BY <2>1, <2>5 DEF There, a, b, v
      <4>2. S[i] <= S[k + 1]
        BY <2>3, <2>4, <3>1
      <4> QED BY <3>1, <4>1, <4>2
    <3>2. CASE i \in 1..k
      <4>1. S[i] <= a /\ There(u, i)
        BY <2>2, <3>2 DEF a, u
      <4>2. S[i - 1] \in Nat /\ S[i] = S[i - 1] + lens[i] /\ lens[i] \in Nat
        <5>1. n \in Nat /\ i \in 1..n /\ i - 1 \in 0..n
          BY <1>2, <2>1, <3>2
        <5> QED BY <1>3, <1>4, <5>1
      <4>3. ASSUME NEW j \in 1..lens[i] PROVE w[S[i - 1] + j] = ss[i][j]
        <5>1. S[i - 1] + j \in 1..a
          BY <2>4, <4>1, <4>2
        <5>2. u[S[i - 1] + j] = ss[i][j]
          BY <4>1 DEF There
        <5> QED BY <2>5, <5>1, <5>2
      <4>4. There(w, i)
        BY <4>3 DEF There
      <4> QED BY <2>3, <2>4, <4>1, <4>2, <4>4
    <3> QED BY <2>1, <3>1, <3>2
  <2>7. P(k + 1)
    BY <2>4, <2>5, <2>6 DEF P, w
  <2> QED BY <2>1, <2>7 DEF A
<1>7. \A k \in 0..n : k \in A
  <2> HIDE DEF A
  <2> QED BY <1>2, <1>5, <1>6, InductionUpTo
<1>8. n \in 0..n
  BY <1>2
<1>9. P(n)
  BY <1>7, <1>8
<1> QED BY <1>1, <1>9 DEF n, S, There

\* What holds the lists of ss holds their concatenation.
LEMMA FlatFound ==
    ASSUME NEW T, NEW ss \in Seq(Seq(T)), NEW lens, Measures(lens, ss),
           NEW d, NEW q \in Nat, Holds(d, q, ss, lens)
    PROVE  \A p \in 1..Len(Flat(ss)) : Flat(ss)[p] = d[q + p]
<1> DEFINE n == Len(ss)
           S == Sums(lens)
           There(i) == \A j \in 1..lens[i] : d[q + (S[i - 1] + j)] = ss[i][j]
<1>1. PICK F : Joins(F, ss, T) /\ Flat(ss) = F[Len(ss)]
  BY FlatJoins
<1>2. /\ n \in Nat /\ F \in [0..n -> Seq(T)] /\ F[0] = <<>>
      /\ \A i \in 1..n : F[i] = F[i - 1] \o ss[i]
  <2>1. n \in Nat
    OBVIOUS
  <2> QED BY <1>1, <2>1, Zenon DEF Joins
<1>3. S \in [0..n -> Nat] /\ S[0] = 0 /\ \A i \in 1..n : S[i] = S[i - 1] + lens[i]
  BY SumsSteps DEF Measures
<1>4. \A i \in 1..n : ss[i] \in Seq(T) /\ Len(ss[i]) = lens[i] /\ lens[i] \in Nat /\ There(i)
  <2>1. \A i \in 1..n : There(i)
    BY Zenon DEF Holds
  <2> HIDE DEF There
  <2>2. \A i \in 1..n : ss[i] \in Seq(T) /\ Len(ss[i]) = lens[i] /\ lens[i] \in Nat
    BY DEF Measures
  <2> QED BY <2>1, <2>2
<1> HIDE DEF n, S, There
<1> DEFINE P(k) == Len(F[k]) = S[k] /\ \A p \in 1..S[k] : F[k][p] = d[q + p]
           A == {k \in 0..n : P(k)}
<1>5. 0 \in A
  BY <1>2, <1>3
<1>6. ASSUME NEW k \in 0..(n - 1), k \in A PROVE k + 1 \in A
  <2>1. k \in 0..n /\ k + 1 \in 1..n /\ k + 1 \in 0..n /\ (k + 1) - 1 = k
    BY <1>2
  <2> DEFINE u == F[k]
             v == ss[k + 1]
             w == F[k + 1]
             a == S[k]
             b == lens[k + 1]
  <2>2. a = Len(u) /\ \A p \in 1..a : u[p] = d[q + p]
    BY <1>6
  <2>3. u \in Seq(T) /\ v \in Seq(T) /\ w = u \o v /\ b = Len(v) /\ b \in Nat
    BY <1>2, <1>4, <2>1
  <2>4. S[k + 1] = a + b /\ a \in Nat /\ b \in Nat
    BY <1>3, <1>4, <2>1
  <2>5. \A j \in 1..b : d[q + (a + j)] = v[j]
    BY <1>4, <2>1 DEF There
  <2> HIDE DEF P, A, u, v, w, a, b
  <2>6. /\ Len(w) = a + b /\ \A p \in 1..a : w[p] = u[p]
        /\ \A p \in 1..b : w[a + p] = v[p]
    BY <2>2, <2>3, ConcatParts
  <2>7. ASSUME NEW p \in 1..(a + b) PROVE w[p] = d[q + p]
    <3>1. CASE p <= a
      BY <2>2, <2>4, <2>6, <3>1
    <3>2. CASE p > a
      <4> DEFINE j == p - a
      <4>1. j \in 1..b /\ a + j = p
        BY <2>3, <2>4, <3>2
      <4> HIDE DEF j
      <4>2. d[q + (a + j)] = v[j] /\ w[a + j] = v[j]
        BY <2>5, <2>6, <4>1
      <4> QED BY <4>1, <4>2
    <3> QED BY <2>4, <3>1, <3>2
  <2>8. P(k + 1)
    BY <2>4, <2>6, <2>7 DEF P, w
  <2> QED BY <2>1, <2>8 DEF A
<1>7. \A k \in 0..n : k \in A
  <2> HIDE DEF A
  <2> QED BY <1>2, <1>5, <1>6, InductionUpTo
<1>8. n \in 0..n
  BY <1>2
<1>9. P(n)
  BY <1>7, <1>8
<1> QED BY <1>1, <1>9 DEF n, S

\* A list of one list.
LEMMA FlatOne ==
    ASSUME NEW T, NEW t \in Seq(T)
    PROVE  Flat(<<t>>) = t
<1>1. <<>> \in Seq(Seq(T)) /\ Append(<<>>, t) = <<t>>
  OBVIOUS
<1>2. Flat(<<t>>) = Flat(<<>>) \o t
  BY <1>1, FlatAppend
<1> QED BY <1>2, FlatEmpty, ConcatEmptySeq

\* A part of a list.
LEMMA SubSeqParts ==
    ASSUME NEW T, NEW s \in Seq(T), NEW a \in 0..Len(s), NEW b \in 0..Len(s), a <= b
    PROVE  LET u == SubSeq(s, a + 1, b)
           IN  u \in Seq(T) /\ Len(u) = b - a /\ \A i \in 1..(b - a) : u[i] = s[a + i]
OBVIOUS

\* Join, which works by halves, is the concatenation from left to right.
LEMMA JoinIsFlat ==
    \A T : \A ss \in Seq(Seq(T)) :
            Join(ss) = Flat(ss)
\* A part of a list is cut in two.
<1>SubSeqCut. ASSUME NEW T, NEW s \in Seq(T), NEW a \in 0..Len(s), NEW m \in 0..Len(s), NEW b \in 0..Len(s),
                     a <= m, m <= b
              PROVE  SubSeq(s, a + 1, b) = SubSeq(s, a + 1, m) \o SubSeq(s, m + 1, b)
  <2> USE <1>SubSeqCut
  <2> DEFINE u == SubSeq(s, a + 1, m)
             v == SubSeq(s, m + 1, b)
             w == SubSeq(s, a + 1, b)
             x == u \o v
  <2>1. /\ u \in Seq(T) /\ Len(u) = m - a /\ \A i \in 1..(m - a) : u[i] = s[a + i]
        /\ v \in Seq(T) /\ Len(v) = b - m /\ \A i \in 1..(b - m) : v[i] = s[m + i]
        /\ w \in Seq(T) /\ Len(w) = b - a /\ \A i \in 1..(b - a) : w[i] = s[a + i]
    <3>1. a <= b
      OBVIOUS
    <3>2. u \in Seq(T) /\ Len(u) = m - a /\ \A i \in 1..(m - a) : u[i] = s[a + i]
      BY SubSeqParts, Zenon
    <3>3. v \in Seq(T) /\ Len(v) = b - m /\ \A i \in 1..(b - m) : v[i] = s[m + i]
      BY SubSeqParts, Zenon
    <3>4. w \in Seq(T) /\ Len(w) = b - a /\ \A i \in 1..(b - a) : w[i] = s[a + i]
      BY <3>1, SubSeqParts, Zenon
    <3> HIDE DEF u, v, w
    <3> QED BY <3>2, <3>3, <3>4
  <2> HIDE DEF u, v, w
  <2>2. /\ x \in Seq(T) /\ Len(x) = (m - a) + (b - m)
        /\ \A p \in 1..(m - a) : x[p] = u[p]
        /\ \A p \in 1..(b - m) : x[(m - a) + p] = v[p]
    <3>1. x = u \o v
      OBVIOUS
    <3> DEFINE k == m - a
               l == b - m
    <3>2. u \in Seq(T) /\ v \in Seq(T) /\ k = Len(u) /\ l = Len(v)
      BY <2>1
    <3> HIDE DEF x, k, l
    <3>3. /\ x \in Seq(T) /\ Len(x) = k + l
          /\ \A p \in 1..k : x[p] = u[p]
          /\ \A p \in 1..l : x[k + p] = v[p]
      BY <3>1, <3>2, ConcatParts
    <3> QED BY <3>3 DEF k, l
  <2> HIDE DEF x
  <2>3. ASSUME NEW i \in 1..(b - a) PROVE w[i] = x[i]
    <3>1. CASE i <= m - a
      BY <2>1, <2>2, <3>1
    <3>2. CASE i > m - a
      <4> DEFINE j == i - (m - a)
      <4>1. j \in 1..(b - m) /\ (m - a) + j = i /\ m + j = a + i
        BY <3>2
      <4> HIDE DEF j
      <4>2. x[(m - a) + j] = v[j] /\ v[j] = s[m + j] /\ w[i] = s[a + i]
        BY <2>1, <2>2, <4>1
      <4> QED BY <4>1, <4>2
    <3> QED BY <3>1, <3>2
  <2>4. w = x
    <3>1. (m - a) + (b - m) = b - a
      OBVIOUS
    <3>2. Len(w) = Len(x) /\ Len(w) = b - a /\ w \in Seq(T) /\ x \in Seq(T)
      BY <2>1, <2>2, <3>1, Zenon
    <3> QED BY <2>3, <3>2, SeqEqual
  <2> QED BY <2>4 DEF u, v, w, x
<1>SubSeqOne. ASSUME NEW T, NEW s \in Seq(T), NEW b \in 1..Len(s)
              PROVE  SubSeq(s, b, b) = <<s[b]>>
  <2> USE <1>SubSeqOne
  <2> DEFINE u == SubSeq(s, b, b)
             v == <<s[b]>>
  <2>1. u \in Seq(T) /\ Len(u) = 1 /\ u[1] = s[b]
    OBVIOUS
  <2>2. v \in Seq(T) /\ Len(v) = 1 /\ v[1] = s[b]
    OBVIOUS
  <2> HIDE DEF u, v
  <2>3. u = v
    BY <2>1, <2>2, SeqEqual
  <2> QED BY <2>3 DEF u, v
<1> SUFFICES ASSUME NEW T, NEW ss \in Seq(Seq(T))
             PROVE Join(ss) = Flat(ss)
  OBVIOUS
<1> DEFINE n == Len(ss)
           Half(h, a, b) == IF b <= a THEN <<>>
                            ELSE IF b = a + 1 THEN ss[b]
                            ELSE h[a][Mid(a, b)] \o h[Mid(a, b)][b]
           Is(h) == h = [a \in 0..n |-> [b \in 0..n |-> Half(h, a, b)]]
           U == CHOOSE h : Is(h)
<1>1. n \in Nat /\ \A i \in 1..n : ss[i] \in Seq(T)
  OBVIOUS
<1>2. JoinOf(ss) = U
  BY Zenon DEF JoinOf, Mid
<1>3. Join(ss) = U[0][n]
  <2> HIDE DEF U
  <2> QED BY <1>2 DEF Join
<1> DEFINE G == [a \in 0..n |-> [b \in 0..n |-> IF b <= a THEN <<>> ELSE Flat(SubSeq(ss, a + 1, b))]]
<1>4. \A a, b \in 0..n : G[a][b] = IF b <= a THEN <<>> ELSE Flat(SubSeq(ss, a + 1, b))
  OBVIOUS
<1>5. ASSUME NEW a \in 0..n, NEW b \in 0..n PROVE G[a][b] = Half(G, a, b)
  <2> HIDE DEF G
  <2>1. CASE b <= a
    BY <1>4, <2>1
  <2>2. CASE ~(b <= a) /\ b = a + 1
    <3>1. b \in 1..n
      BY <1>1, <2>2
    <3>3. SubSeq(ss, b, b) = <<ss[b]>>
      BY <3>1, <1>SubSeqOne
    <3>2. Flat(<<ss[b]>>) = ss[b]
      BY <1>1, <3>1, FlatOne
    <3> QED BY <1>4, <2>2, <3>2, <3>3
  <2>3. CASE ~(b <= a) /\ b # a + 1
    <3> DEFINE m == Mid(a, b)
               u == SubSeq(ss, a + 1, m)
               v == SubSeq(ss, m + 1, b)
    <3>1. m \in 0..n /\ a < m /\ m < b
      BY <1>1, <2>3, Middle
    <3> HIDE DEF m
    <3>2. u \in Seq(Seq(T)) /\ v \in Seq(Seq(T))
      BY <1>1, <3>1
    <3>3. SubSeq(ss, a + 1, b) = u \o v
      <4>1. a <= m /\ m <= b
        BY <1>1, <3>1
      <4> QED BY <3>1, <4>1, <1>SubSeqCut
    <3>4. G[a][m] = Flat(u) /\ G[m][b] = Flat(v) /\ G[a][b] = Flat(SubSeq(ss, a + 1, b))
      <4>1. ~(b <= a) /\ ~(m <= a) /\ ~(b <= m)
        BY <1>1, <3>1
      <4> QED BY <1>4, <3>1, <4>1
    <3> HIDE DEF u, v
    <3>5. G[a][b] = G[a][m] \o G[m][b]
      <4>1. Flat(u \o v) = Flat(u) \o Flat(v)
        BY <3>2, FlatConcat
      <4> QED BY <3>3, <3>4, <4>1, Zenon
    <3> QED BY <2>3, <3>5 DEF m
  <2> QED BY <2>1, <2>2, <2>3
<1>6. Is(G)
  <2> HIDE DEF Half
  <2> QED BY <1>5
<1>7. Is(U)
  BY <1>6, Zenon
<1> HIDE DEF U
<1> DEFINE E == {e \in (0..n) \X (0..n) : U[e[1]][e[2]] = G[e[1]][e[2]]}
<1>8. \A a, b \in 0..n : <<a, b>> \in E <=> U[a][b] = G[a][b]
  <2> HIDE DEF G
  <2> QED OBVIOUS
<1>9. ASSUME NEW a \in 0..n, NEW b \in 0..n
      PROVE  U[a][b] = Half(U, a, b) /\ G[a][b] = Half(G, a, b)
  <2> HIDE DEF Half, G
  <2>1. U[a] = [c \in 0..n |-> Half(U, a, c)]
    BY <1>7
  <2> QED BY <1>5, <2>1
<1> HIDE DEF Is, E, Half, G, n
<1>10. ASSUME NEW a \in 0..n, NEW b \in 0..n,
              b <= a + 1 \/ (<<a, Mid(a, b)>> \in E /\ <<Mid(a, b), b>> \in E)
       PROVE  <<a, b>> \in E
  <2>1. CASE b <= a + 1
    <3>1. Half(U, a, b) = Half(G, a, b)
      BY <1>1, <2>1 DEF Half
    <3> QED BY <1>8, <1>9, <3>1
  <2>2. CASE a + 1 < b
    <3> DEFINE m == Mid(a, b)
    <3>1. m \in 0..n
      BY <1>1, <2>2, Middle
    <3>2. U[a][m] = G[a][m] /\ U[m][b] = G[m][b]
      BY <1>1, <1>8, <1>10, <2>2, <3>1
    <3>3. ~(b <= a) /\ b # a + 1
      BY <1>1, <2>2
    <3>4. Half(U, a, b) = U[a][m] \o U[m][b] /\ Half(G, a, b) = G[a][m] \o G[m][b]
      BY <3>3, Zenon DEF Half
    <3> HIDE DEF m
    <3>5. U[a][b] = G[a][b]
      BY <1>9, <3>2, <3>4
    <3> QED BY <1>8, <3>5
  <2> QED BY <1>1, <2>1, <2>2
<1>11. HasRanges(E, n)
  BY <1>10 DEF HasRanges
<1>12. \A a, b \in 0..n : <<a, b>> \in E
  BY <1>1, <1>11, RangeInduction
<1>13. U[0][n] = G[0][n]
  <2>1. 0 \in 0..n /\ n \in 0..n
    BY <1>1
  <2> QED BY <1>8, <1>12, <2>1
<1>14. G[0][n] = Flat(ss)
  <2>1. CASE n = 0
    <3>1. ss = <<>>
      BY <2>1 DEF n
    <3>2. G[0][n] = <<>>
      BY <1>1, <1>4, <2>1
    <3> QED BY <3>1, <3>2, FlatEmpty
  <2>2. CASE n # 0
    <3>1. SubSeq(ss, 0 + 1, n) = ss
      BY DEF n
    <3>2. G[0][n] = Flat(SubSeq(ss, 0 + 1, n))
      BY <1>1, <1>4, <2>2
    <3> QED BY <3>1, <3>2
  <2> QED BY <2>1, <2>2
<1> QED BY <1>3, <1>13, <1>14

=============================================================================
