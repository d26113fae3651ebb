--------------------------- MODULE StringyProofs ---------------------------
(***************************************************************************)
(* Theorems about Stringy, for users with any number of entries and groups *)
(* and for requests of any length.                                         *)
(***************************************************************************)
EXTENDS Stringy, ListProofs

(***************************************************************************)
(* What is kept of a list, and the lists of a list of lists                *)
(***************************************************************************)
LEMMA SeqDomain ==
    ASSUME NEW T, NEW s \in Seq(T)
    PROVE  Len(s) \in Nat /\ s \in [1..Len(s) -> T] /\ DOMAIN s = 1..Len(s)
OBVIOUS

LEMMA RangeOfConcat ==
    ASSUME NEW T, NEW s \in Seq(T), NEW t \in Seq(T)
    PROVE  Range(s \o t) = Range(s) \cup Range(t)
<1>1. /\ s \o t \in Seq(T) /\ Len(s \o t) = Len(s) + Len(t) /\ Len(s) \in Nat /\ Len(t) \in Nat
      /\ \A i \in 1..(Len(s) + Len(t)) :
            (s \o t)[i] = IF i <= Len(s) THEN s[i] ELSE t[i - Len(s)]
  BY ConcatProperties
<1> DEFINE w == s \o t
<1>2. ASSUME NEW x \in Range(w) PROVE x \in Range(s) \cup Range(t)
  <2>1. PICK i \in 1..Len(w) : x = w[i]
    BY <1>1, RangeElements
  <2>2. i \in 1..Len(s) \/ i - Len(s) \in 1..Len(t)
    BY <1>1, <2>1
  <2> QED BY <1>1, <2>1, <2>2, RangeElements
<1>3. ASSUME NEW x \in Range(s) PROVE x \in Range(w)
  <2>1. PICK i \in 1..Len(s) : x = s[i]
    BY RangeElements
  <2>2. i \in 1..Len(w) /\ w[i] = x
    BY <1>1, <2>1
  <2> QED BY <1>1, <2>2, RangeElements
<1>4. ASSUME NEW x \in Range(t) PROVE x \in Range(w)
  <2>1. PICK i \in 1..Len(t) : x = t[i]
    BY RangeElements
  <2>2. Len(s) + i \in 1..Len(w) /\ w[Len(s) + i] = x
    BY <1>1, <2>1
  <2> QED BY <1>1, <2>2, RangeElements
<1> QED BY <1>2, <1>3, <1>4

LEMMA KeepElements ==
    ASSUME NEW T, NEW s \in Seq(T), NEW I
    PROVE  Range(Keep(s, I)) = {s[i] : i \in {j \in 1..Len(s) : j \in I}}
<1>1. PICK f : Picks(f, Keep(s, I), s, I, Len(s))
  BY KeepPicks
<1>2. Keep(s, I) \in Seq(T)
  BY KeepPicks
<1>3. ASSUME NEW x \in Range(Keep(s, I)) PROVE x \in {s[i] : i \in {j \in 1..Len(s) : j \in I}}
  <2>1. PICK k \in 1..Len(Keep(s, I)) : x = Keep(s, I)[k]
    BY <1>2 DEF Range
  <2> QED BY <1>1, <2>1 DEF Picks
<1>4. ASSUME NEW i \in 1..Len(s), i \in I PROVE s[i] \in Range(Keep(s, I))
  <2>1. PICK k \in 1..Len(Keep(s, I)) : f[k] = i
    BY <1>1, <1>4 DEF Picks
  <2>2. Keep(s, I)[k] = s[i]
    BY <1>1, <2>1 DEF Picks
  <2> QED BY <1>2, <2>2 DEF Range
<1> QED BY <1>3, <1>4

\* What is kept of the first n elements depends on these alone.
LEMMA KeptAgrees ==
    ASSUME NEW T, NEW s \in Seq(T), NEW t \in Seq(T), NEW I, NEW J, Len(s) <= Len(t),
           \A i \in 1..Len(s) : s[i] = t[i] /\ (i \in I <=> i \in J)
    PROVE  \A n \in 0..Len(s) : KeptUpTo(s, I)[n] = KeptUpTo(t, J)[n]
<1> DEFINE K == KeptUpTo(s, I)
           L == KeptUpTo(t, J)
           S == {n \in 0..Len(s) : K[n] = L[n]}
<1>1. /\ K[0] = <<>>
      /\ \A i \in 1..Len(s) : K[i] = IF i \in I THEN Append(K[i - 1], s[i]) ELSE K[i - 1]
  BY KeptSteps
<1>2. /\ L[0] = <<>>
      /\ \A i \in 1..Len(t) : L[i] = IF i \in J THEN Append(L[i - 1], t[i]) ELSE L[i - 1]
  BY KeptSteps
<1>3. Len(s) \in Nat /\ Len(t) \in Nat
  OBVIOUS
<1> HIDE DEF K, L
<1>4. 0 \in S
  BY <1>1, <1>2, <1>3
<1>5. ASSUME NEW n \in 0..(Len(s) - 1), n \in S PROVE n + 1 \in S
  <2>1. n + 1 \in 1..Len(s) /\ n + 1 \in 1..Len(t) /\ (n + 1) - 1 = n /\ n + 1 \in 0..Len(s)
    BY <1>3
  <2>2. K[n + 1] = IF n + 1 \in I THEN Append(K[n], s[n + 1]) ELSE K[n]
    BY <1>1, <2>1
  <2>3. L[n + 1] = IF n + 1 \in J THEN Append(L[n], t[n + 1]) ELSE L[n]
    BY <1>2, <2>1
  <2>4. s[n + 1] = t[n + 1] /\ (n + 1 \in I <=> n + 1 \in J) /\ K[n] = L[n]
    BY <1>5, <2>1
  <2>5. K[n + 1] = L[n + 1]
    BY <2>2, <2>3, <2>4
  <2> QED BY <2>1, <2>5
<1>6. \A n \in 0..Len(s) : n \in S
  <2> HIDE DEF S
  <2> QED BY <1>3, <1>4, <1>5, InductionUpTo
<1> QED BY <1>6 DEF K, L

LEMMA BeginsIsPrefix ==
    ASSUME NEW T, NEW s \in Seq(T), NEW t \in Seq(T), Begins(s, t)
    PROVE  IsPrefix(s, t)
<1> USE DEF Begins
<1>1. /\ SubSeq(s, 1, Len(s)) \in Seq(T) /\ SubSeq(t, 1, Len(s)) \in Seq(T)
      /\ Len(SubSeq(s, 1, Len(s))) = Len(s) /\ Len(SubSeq(t, 1, Len(s))) = Len(s)
  OBVIOUS
<1>2. \A k \in 1..Len(s) : SubSeq(s, 1, Len(s))[k] = SubSeq(t, 1, Len(s))[k]
  OBVIOUS
<1>3. SubSeq(s, 1, Len(s)) = SubSeq(t, 1, Len(s))
  BY <1>1, <1>2, SeqEqual
<1> QED BY <1>3 DEF IsPrefix

\* The rounds of the loop only add to the end.
LEMMA KeptGrows ==
    ASSUME NEW T, NEW s \in Seq(T), NEW I, NEW m \in 0..Len(s)
    PROVE  \A n \in m..Len(s) : Begins(KeptUpTo(s, I)[m], KeptUpTo(s, I)[n])
<1> USE DEF Begins
<1> DEFINE K == KeptUpTo(s, I)
           P(n) == Begins(K[m], K[n])
           S == {n \in 0..Len(s) : n >= m => P(n)}
<1>1. /\ K \in [0..Len(s) -> Seq(T)]
      /\ \A i \in 1..Len(s) : K[i] = IF i \in I THEN Append(K[i - 1], s[i]) ELSE K[i - 1]
  BY KeptSteps
<1>2. Len(s) \in Nat
  OBVIOUS
<1> HIDE DEF K
<1>3. P(m)
  BY <1>1
<1>4. 0 \in S
  BY <1>2, <1>3
<1>5. ASSUME NEW n \in 0..(Len(s) - 1), n \in S PROVE n + 1 \in S
  <2> SUFFICES ASSUME n + 1 > m PROVE P(n + 1)
    BY <1>2, <1>3
  <2>1. n + 1 \in 1..Len(s) /\ n \in 0..Len(s) /\ (n + 1) - 1 = n /\ s[n + 1] \in T /\ n >= m
    BY <1>2
  <2>2. K[n + 1] = IF n + 1 \in I THEN Append(K[n], s[n + 1]) ELSE K[n]
    BY <1>1, <2>1
  <2>3. K[n] \in Seq(T) /\ K[m] \in Seq(T)
    BY <1>1, <2>1
  <2>4. /\ Len(K[n]) \in Nat /\ Len(K[m]) \in Nat
        /\ Len(K[n + 1]) >= Len(K[n])
        /\ \A k \in 1..Len(K[n]) : K[n + 1][k] = K[n][k]
    BY <2>1, <2>2, <2>3, AppendProperties
  <2>5. P(n)
    BY <1>5, <2>1
  <2> QED BY <2>4, <2>5
<1>6. \A n \in 0..Len(s) : n \in S
  <2> HIDE DEF S
  <2> QED BY <1>2, <1>4, <1>5, InductionUpTo
<1> QED BY <1>6 DEF K

\* What is kept of the beginning of a list is the beginning of what is kept.
LEMMA KeepOfPrefix ==
    ASSUME NEW T, NEW s \in Seq(T), NEW t \in Seq(T), NEW I, NEW J, Len(s) <= Len(t),
           \A i \in 1..Len(s) : s[i] = t[i] /\ (i \in I <=> i \in J)
    PROVE  IsPrefix(Keep(s, I), Keep(t, J))
<1> DEFINE K == KeptUpTo(s, I)[Len(s)]
           M == KeptUpTo(t, J)[Len(s)]
           L == KeptUpTo(t, J)[Len(t)]
<1>1. Len(s) \in 0..Len(s) /\ Len(s) \in 0..Len(t) /\ Len(t) \in Len(s)..Len(t)
  OBVIOUS
<1>2. K = M
  BY <1>1, KeptAgrees
<1>3. Begins(M, L)
  BY <1>1, KeptGrows
<1>4. Keep(s, I) = K /\ Keep(t, J) = L
  BY DEF Keep
<1>5. Keep(s, I) \in Seq(T) /\ Keep(t, J) \in Seq(T)
  BY KeepPicks
<1> HIDE DEF K, L, M
<1> QED BY <1>2, <1>3, <1>4, <1>5, BeginsIsPrefix

\* Keeping and changing the elements one by one commute.
LEMMA KeepMapped ==
    ASSUME NEW T, NEW V, NEW f \in [T -> V], NEW s \in Seq(T), NEW t \in Seq(V), NEW I,
           Len(s) = Len(t), \A i \in 1..Len(s) : i \in I => t[i] = f[s[i]]
    PROVE  /\ Len(Keep(t, I)) = Len(Keep(s, I))
           /\ \A k \in 1..Len(Keep(s, I)) : Keep(t, I)[k] = f[Keep(s, I)[k]]
<1> DEFINE K == KeptUpTo(s, I)
           L == KeptUpTo(t, I)
           P(n) == Len(L[n]) = Len(K[n]) /\ \A k \in 1..Len(K[n]) : L[n][k] = f[K[n][k]]
           S == {n \in 0..Len(s) : P(n)}
<1>1. /\ K \in [0..Len(s) -> Seq(T)] /\ K[0] = <<>>
      /\ \A i \in 1..Len(s) : K[i] = IF i \in I THEN Append(K[i - 1], s[i]) ELSE K[i - 1]
  BY KeptSteps
<1>2. /\ L \in [0..Len(s) -> Seq(V)] /\ L[0] = <<>>
      /\ \A i \in 1..Len(s) : L[i] = IF i \in I THEN Append(L[i - 1], t[i]) ELSE L[i - 1]
  BY KeptSteps
<1>3. Len(s) \in Nat
  OBVIOUS
<1>4. Keep(s, I) = K[Len(s)] /\ Keep(t, I) = L[Len(s)]
  BY DEF Keep
<1> HIDE DEF K, L
<1>5. 0 \in S
  BY <1>1, <1>2, <1>3
<1>6. ASSUME NEW n \in 0..(Len(s) - 1), n \in S PROVE n + 1 \in S
  <2>1. n + 1 \in 1..Len(s) /\ n \in 0..Len(s) /\ (n + 1) - 1 = n /\ s[n + 1] \in T /\ t[n + 1] \in V
    BY <1>3
  <2>2. K[n] \in Seq(T) /\ L[n] \in Seq(V)
    BY <1>1, <1>2, <2>1
  <2>3. CASE n + 1 \notin I
    <3>1. K[n + 1] = K[n] /\ L[n + 1] = L[n]
      BY <1>1, <1>2, <2>1, <2>3
    <3> QED BY <1>6, <2>1, <3>1
  <2>4. CASE n + 1 \in I
    <3>1. K[n + 1] = Append(K[n], s[n + 1]) /\ L[n + 1] = Append(L[n], t[n + 1])
      BY <1>1, <1>2, <2>1, <2>4
    <3>2. /\ Len(K[n]) \in Nat /\ Len(K[n + 1]) = Len(K[n]) + 1
          /\ K[n + 1][Len(K[n]) + 1] = s[n + 1] /\ \A k \in 1..Len(K[n]) : K[n + 1][k] = K[n][k]
      BY <2>1, <2>2, <3>1, AppendProperties
    <3>3. /\ Len(L[n]) \in Nat /\ Len(L[n + 1]) = Len(L[n]) + 1
          /\ L[n + 1][Len(L[n]) + 1] = t[n + 1] /\ \A k \in 1..Len(L[n]) : L[n + 1][k] = L[n][k]
      BY <2>1, <2>2, <3>1, AppendProperties
    <3>4. P(n) /\ t[n + 1] = f[s[n + 1]]
      BY <1>6, <2>1, <2>4
    <3>5. ASSUME NEW k \in 1..Len(K[n + 1]) PROVE L[n + 1][k] = f[K[n + 1][k]]
      <4>1. CASE k = Len(K[n]) + 1
        BY <3>2, <3>3, <3>4, <4>1
      <4>2. CASE k # Len(K[n]) + 1
        <5>1. k \in 1..Len(K[n])
          BY <3>2, <4>2
        <5> QED BY <3>2, <3>3, <3>4, <5>1
      <4> QED BY <4>1, <4>2
    <3>6. Len(L[n + 1]) = Len(K[n + 1])
      BY <3>2, <3>3, <3>4
    <3> QED BY <2>1, <3>5, <3>6
  <2> QED BY <2>3, <2>4
<1>7. \A n \in 0..Len(s) : n \in S
  <2> HIDE DEF S
  <2> QED BY <1>3, <1>5, <1>6, InductionUpTo
<1> QED BY <1>3, <1>4, <1>7

\* FlattenSeq is Flat.
LEMMA FlattenIsFlat ==
    ASSUME NEW ss
    PROVE  FlattenSeq(ss) = Flat(ss)
BY Zenon DEF FlattenSeq, Flat

LEMMA FlattenJoins ==
    ASSUME NEW T, NEW ss \in Seq(Seq(T))
    PROVE  \E F : Joins(F, ss, T) /\ FlattenSeq(ss) = F[Len(ss)]
BY FlatJoins, FlattenIsFlat

LEMMA FlattenIsSeq ==
    ASSUME NEW T, NEW ss \in Seq(Seq(T))
    PROVE  FlattenSeq(ss) \in Seq(T)
BY FlatIsSeq, FlattenIsFlat

LEMMA FlattenConcat ==
    ASSUME NEW T, NEW ss \in Seq(Seq(T)), NEW tt \in Seq(Seq(T))
    PROVE  FlattenSeq(ss \o tt) = FlattenSeq(ss) \o FlattenSeq(tt)
BY FlatConcat, FlattenIsFlat

\* Leaving out empty lists changes nothing.
LEMMA FlattenKeep ==
    ASSUME NEW T, NEW ss \in Seq(Seq(T)), NEW I,
           \A i \in 1..Len(ss) : i \notin I => ss[i] = <<>>
    PROVE  FlattenSeq(Keep(ss, I)) = FlattenSeq(ss)
<1> DEFINE K == KeptUpTo(ss, I)
           n == Len(ss)
<1>1. /\ K \in [0..n -> Seq(Seq(T))] /\ K[0] = <<>>
      /\ \A i \in 1..n : K[i] = IF i \in I THEN Append(K[i - 1], ss[i]) ELSE K[i - 1]
  BY KeptSteps
<1>2. PICK F : Joins(F, ss, T) /\ FlattenSeq(ss) = F[n]
  BY FlattenJoins
<1>3. n \in Nat /\ \A i \in 1..n : ss[i] \in Seq(T) /\ (i \notin I => ss[i] = <<>>)
  OBVIOUS
<1>4. F \in [0..n -> Seq(T)] /\ F[0] = <<>> /\ \A i \in 1..n : F[i] = F[i - 1] \o ss[i]
  BY <1>2 DEF Joins
<1>5. Keep(ss, I) = K[n]
  BY DEF Keep
<1> HIDE DEF K, n
<1> DEFINE S == {k \in 0..n : FlattenSeq(K[k]) = F[k]}
<1>6. 0 \in S
  BY <1>1, <1>3, <1>4, FlatEmpty, FlattenIsFlat
<1>7. ASSUME NEW k \in 0..(n - 1), k \in S PROVE k + 1 \in S
  <2>1. k + 1 \in 1..n /\ (k + 1) - 1 = k /\ k \in 0..n /\ k + 1 \in 0..n
    BY <1>3
  <2>2. /\ K[k] \in Seq(Seq(T)) /\ F[k] \in Seq(T) /\ ss[k + 1] \in Seq(T)
        /\ F[k + 1] = F[k] \o ss[k + 1] /\ FlattenSeq(K[k]) = F[k]
        /\ K[k + 1] = IF k + 1 \in I THEN Append(K[k], ss[k + 1]) ELSE K[k]
        /\ k + 1 \notin I => ss[k + 1] = <<>>
    BY <1>1, <1>3, <1>4, <1>7, <2>1
  <2>3. CASE k + 1 \in I
    BY <2>1, <2>2, <2>3, FlatAppend, FlattenIsFlat
  <2>4. CASE k + 1 \notin I
    BY <2>1, <2>2, <2>4, ConcatEmptySeq
  <2> QED BY <2>3, <2>4
<1>8. n \in S
  <2> HIDE DEF S
  <2>1. \A k \in 0..n : k \in S
    BY <1>3, <1>6, <1>7, InductionUpTo
  <2> QED BY <1>3, <2>1
<1> QED BY <1>2, <1>5, <1>8

\* The elements of the lists of ss.
LEMMA FlattenElements ==
    ASSUME NEW T, NEW ss \in Seq(Seq(T))
    PROVE  \A x : x \in Range(FlattenSeq(ss)) <=> \E i \in 1..Len(ss) : x \in Range(ss[i])
<1>1. PICK F : Joins(F, ss, T) /\ FlattenSeq(ss) = F[Len(ss)]
  BY FlattenJoins
<1> DEFINE n == Len(ss)
           P(k) == \A x : x \in Range(F[k]) <=> \E i \in 1..k : x \in Range(ss[i])
           S == {k \in 0..n : P(k)}
<1>2. n \in Nat /\ \A i \in 1..n : ss[i] \in Seq(T)
  OBVIOUS
<1>3. F \in [0..n -> Seq(T)] /\ F[0] = <<>> /\ \A i \in 1..n : F[i] = F[i - 1] \o ss[i]
  BY <1>1 DEF Joins
<1>4. FlattenSeq(ss) = F[n]
  BY <1>1
<1> HIDE DEF n
<1>5. 0 \in S
  <2>1. Range(F[0]) = {}
    BY <1>3 DEF Range
  <2> QED BY <1>2, <2>1
<1>6. ASSUME NEW k \in 0..(n - 1), k \in S PROVE k + 1 \in S
  <2>1. k + 1 \in 1..n /\ (k + 1) - 1 = k /\ k \in 0..n /\ k + 1 \in 0..n
    BY <1>2
  <2>2. F[k] \in Seq(T) /\ ss[k + 1] \in Seq(T) /\ F[k + 1] = F[k] \o ss[k + 1]
    BY <1>2, <1>3, <2>1
  <2>3. Range(F[k + 1]) = Range(F[k]) \cup Range(ss[k + 1])
    BY <2>2, RangeOfConcat
  <2>4. P(k)
    BY <1>6
  <2>5. 1..(k + 1) = 1..k \cup {k + 1}
    OBVIOUS
  <2>6. P(k + 1)
    BY <2>3, <2>4, <2>5, Zenon
  <2> QED BY <2>1, <2>6
<1>7. n \in S
  <2> HIDE DEF S
  <2>1. \A k \in 0..n : k \in S
    BY <1>2, <1>5, <1>6, InductionUpTo
  <2> QED BY <1>2, <2>1
<1> QED BY <1>4, <1>7 DEF n

(***************************************************************************)
(* The inductive invariant                                                 *)
(***************************************************************************)
\* The authorizer keeps the user that New has reduced; a reply is the answer
\* to the request in hand for that user.
Inv ==
    /\ config \in Configs
    /\ user = ReduceAll(config)
    /\ reply # None => request \in Requests /\ reply = Reply(user, request)

LEMMA InitInv == Init => Inv
BY DEF Init, Inv

LEMMA NextInv == Inv /\ [Next]_vars => Inv'
<1> SUFFICES ASSUME Inv, [Next]_vars PROVE Inv'
  OBVIOUS
<1>1. CASE Replied
  BY <1>1 DEF Inv, Replied
<1>2. ASSUME NEW args \in Requests, Handle(args) PROVE Inv'
  BY <1>2 DEF Inv, Handle
<1>3. CASE UNCHANGED vars
  BY <1>3 DEF Inv, vars
<1> QED BY <1>1, <1>2, <1>3 DEF Next

(***************************************************************************)
(* Users                                                                   *)
(***************************************************************************)
LEMMA ConfigType ==
    ASSUME NEW u \in Configs
    PROVE  /\ u \in UserEntry
           /\ u.services \in Seq(ServiceEntry) /\ u.commands \in Seq(CommandEntry)
           /\ u.groups \in Seq(GroupEntry) /\ u.scopes \in Seq(Text) /\ Len(u.scopes) = 1
BY StringyAssumption DEF UserEntry

\* What the groups of a user add.
GroupServices(u) == FlattenSeq([i \in 1..Len(u.groups) |-> u.groups[i].services])

GroupCommands(u) == FlattenSeq([i \in 1..Len(u.groups) |-> u.groups[i].commands])

LEMMA ReduceAllAdds ==
    ASSUME NEW u \in Configs
    PROVE  /\ GroupServices(u) \in Seq(ServiceEntry) /\ GroupCommands(u) \in Seq(CommandEntry)
           /\ ReduceAll(u).services = u.services \o GroupServices(u)
           /\ ReduceAll(u).commands = u.commands \o GroupCommands(u)
           /\ ReduceAll(u).scopes = u.scopes
           /\ ReduceAll(u) \in UserEntry
<1> DEFINE ss == [i \in 1..Len(u.groups) |-> u.groups[i].services]
           cc == [i \in 1..Len(u.groups) |-> u.groups[i].commands]
<1>0. u.groups \in Seq(GroupEntry) /\ Len(u.groups) \in Nat
  BY ConfigType
<1>1. \A i \in 1..Len(u.groups) : u.groups[i].services \in Seq(ServiceEntry)
                                  /\ u.groups[i].commands \in Seq(CommandEntry)
  <2>1. \A i \in 1..Len(u.groups) : u.groups[i] \in GroupEntry
    BY <1>0
  <2> QED BY <2>1 DEF GroupEntry
<1>2. ss \in Seq(Seq(ServiceEntry)) /\ cc \in Seq(Seq(CommandEntry))
  BY <1>0, <1>1
<1>3. FlattenSeq(ss) \in Seq(ServiceEntry) /\ FlattenSeq(cc) \in Seq(CommandEntry)
  BY <1>2, FlattenIsSeq
<1> HIDE DEF ss, cc
<1>4. GroupServices(u) = FlattenSeq(ss) /\ GroupCommands(u) = FlattenSeq(cc)
  BY DEF GroupServices, GroupCommands, ss, cc
<1>5. ReduceAll(u) = [u EXCEPT !.services = @ \o GroupServices(u),
                               !.commands = @ \o GroupCommands(u)]
  BY DEF ReduceAll, GroupServices, GroupCommands
<1>6. /\ u.services \o GroupServices(u) \in Seq(ServiceEntry)
      /\ u.commands \o GroupCommands(u) \in Seq(CommandEntry)
  BY <1>3, <1>4, ConfigType, ConcatProperties
<1> QED BY <1>3, <1>4, <1>5, <1>6, ConfigType DEF UserEntry

(***************************************************************************)
(* Command based authorization                                             *)
(***************************************************************************)
\* A rule applies where it is about the command and no condition is open.
LEMMA RuleSettles ==
    ASSUME NEW c \in CommandEntry, NEW args
    PROVE  /\ Rule(c, args) # "next" <=> Settles(c, args)
           /\ Rule(c, args) = "PERMIT" <=> Permits(c, args)
<1> DEFINE words == CommandArgs(args)
           I == {i \in 1..Len(c.match) : Stops(c.match[i], words)}
           hit == IF I # {} THEN Min(I) ELSE 0
<1>1. c.match \in Seq(Text) /\ Len(c.match) \in Nat /\ c.action # "next"
  BY DEF CommandEntry
<1>0. \A p : p \in Range(c.match) <=> \E i \in 1..Len(c.match) : p = c.match[i]
  BY <1>1 DEF Range
<1>2. SelectInSeq(c.match, LAMBDA p : Stops(p, words)) = hit
  BY DEF SelectInSeq
<1>3. Rule(c, args) = IF Trim[c.name] = "*" THEN c.action
                      ELSE IF Word(Trim[c.name]) # Command(args) THEN "next"
                      ELSE IF c.match = <<>> THEN c.action
                      ELSE IF hit = 0 THEN "next"
                      ELSE IF Trim[c.match[hit]] \notin Compiles THEN "DENY"
                      ELSE c.action
  BY <1>2, Zenon DEF Rule
<1>4. CASE Trim[c.name] = "*" \/ Word(Trim[c.name]) # Command(args) \/ c.match = <<>>
  BY <1>1, <1>3, <1>4 DEF Settles, Permits, Concerns, Unconditional
<1>5. CASE /\ ~(Trim[c.name] = "*" \/ Word(Trim[c.name]) # Command(args) \/ c.match = <<>>)
           /\ I = {}
  <2>1. Rule(c, args) = "next"
    BY <1>3, <1>5
  <2>2. \A i \in 1..Len(c.match) : ~Stops(c.match[i], words)
    BY <1>5
  <2>3. ~Settles(c, args) /\ ~Permits(c, args)
    BY <1>0, <1>5, <2>2 DEF Settles, Permits, Unconditional, Fits, Stops
  <2> QED BY <2>1, <2>3
<1>6. CASE /\ ~(Trim[c.name] = "*" \/ Word(Trim[c.name]) # Command(args) \/ c.match = <<>>)
           /\ I # {}
  <2>1. hit \in I /\ hit \in 1..Len(c.match) /\ \A k \in 1..(hit - 1) : k \notin I
    BY <1>1, <1>6, FirstIn
  <2>2. Stops(c.match[hit], words)
    BY <2>1
  <2>3. \A k \in 1..(hit - 1) : ~Stops(c.match[k], words)
    BY <1>1, <2>1
  <2> HIDE DEF I, hit
  <2>4. Rule(c, args) = IF Trim[c.match[hit]] \notin Compiles THEN "DENY" ELSE c.action
    BY <1>3, <1>6, <2>1
  <2>5. Settles(c, args)
    <3>1. c.match[hit] \in Range(c.match)
      BY <1>0, <2>1
    <3> QED BY <1>6, <2>2, <3>1 DEF Settles, Concerns, Fits, Stops
  <2>6. ASSUME NEW j \in 1..Len(c.match), Fits(c.match[j], args),
               \A k \in 1..(j - 1) : Trim[c.match[k]] \in Compiles
        PROVE  Trim[c.match[hit]] \in Compiles
    <3>1. ~(j < hit)
      BY <1>1, <2>1, <2>3, <2>6 DEF Fits, Stops
    <3> QED BY <1>1, <2>1, <2>6, <3>1 DEF Fits
  <2>7. Trim[c.match[hit]] \in Compiles => Fits(c.match[hit], args)
    BY <2>2 DEF Fits, Stops
  <2>8. \A k \in 1..(hit - 1) : Trim[c.match[k]] \in Compiles
    BY <2>3 DEF Stops
  <2> QED BY <1>1, <1>6, <2>1, <2>4, <2>5, <2>6, <2>7, <2>8
          DEF Permits, Concerns, Unconditional
<1> QED BY <1>4, <1>5, <1>6

\* The loop over the commands stops at the first rule that settles.
LEMMA LoopOverCommands ==
    ASSUME NEW u, u.commands \in Seq(CommandEntry), NEW args
    PROVE  CommandEvaluate(u, args) <=>
               \E i \in 1..Len(u.commands) :
                   /\ Permits(u.commands[i], args)
                   /\ \A k \in 1..(i - 1) : ~Settles(u.commands[k], args)
<1> DEFINE cc == u.commands
           I == {i \in 1..Len(cc) : Rule(cc[i], args) # "next"}
           hit == IF I # {} THEN Min(I) ELSE 0
<1>1. Len(cc) \in Nat /\ \A i \in 1..Len(cc) : cc[i] \in CommandEntry
  OBVIOUS
<1>2. \A i \in 1..Len(cc) : /\ Rule(cc[i], args) # "next" <=> Settles(cc[i], args)
                            /\ Rule(cc[i], args) = "PERMIT" <=> Permits(cc[i], args)
  BY <1>1, RuleSettles
<1>3. CommandEvaluate(u, args) <=> hit # 0 /\ Rule(cc[hit], args) = "PERMIT"
  <2>1. SelectInSeq(u.commands, LAMBDA c : Rule(c, args) # "next") = hit
    BY DEF SelectInSeq
  <2> QED BY <2>1, Zenon DEF CommandEvaluate
<1> HIDE DEF cc
<1>4. CASE I = {}
  <2>1. \A i \in 1..Len(cc) : ~Permits(cc[i], args)
    BY <1>2, <1>4
  <2> QED BY <1>3, <1>4, <2>1 DEF cc
<1>5. CASE I # {}
  <2>1. hit \in I /\ hit \in 1..Len(cc) /\ \A k \in 1..(hit - 1) : k \notin I
    BY <1>1, <1>5, FirstIn
  <2>2. Settles(cc[hit], args) /\ \A k \in 1..(hit - 1) : ~Settles(cc[k], args)
    <3>1. \A k \in 1..(hit - 1) : k \in 1..Len(cc) /\ k \notin I
      BY <1>1, <2>1
    <3> QED BY <1>2, <2>1, <3>1
  <2> HIDE DEF I, hit
  <2>3. ASSUME NEW i \in 1..Len(cc), Permits(cc[i], args),
               \A k \in 1..(i - 1) : ~Settles(cc[k], args)
        PROVE  i = hit
    <3>1. Settles(cc[i], args)
      BY <1>2, <2>3
    <3>2. ~(i < hit)
      BY <1>1, <2>1, <2>2, <3>1
    <3>3. ~(hit < i)
      BY <1>1, <2>1, <2>2, <2>3
    <3> QED BY <1>1, <2>1, <3>2, <3>3
  <2>4. CommandEvaluate(u, args) <=> Permits(cc[hit], args)
    BY <1>2, <1>3, <2>1
  <2>5. CommandEvaluate(u, args) <=> \E i \in 1..Len(cc) :
            Permits(cc[i], args) /\ \A k \in 1..(i - 1) : ~Settles(cc[k], args)
    BY <2>1, <2>2, <2>3, <2>4
  <2> QED BY <2>5 DEF cc
<1> QED BY <1>4, <1>5

\* A rule of the first list that settles leaves nothing to the second.
LEMMA EarlierCommandsDecide ==
    ASSUME NEW u, u.commands \in Seq(CommandEntry),
           NEW w, NEW more \in Seq(CommandEntry), w.commands = u.commands \o more, NEW args,
           NEW m \in 1..Len(u.commands), Settles(u.commands[m], args)
    PROVE  CommandEvaluate(w, args) <=> CommandEvaluate(u, args)
<1> DEFINE cc == u.commands
           ww == w.commands
           P(dd, i) == Permits(dd[i], args) /\ \A k \in 1..(i - 1) : ~Settles(dd[k], args)
<1>1. /\ ww \in Seq(CommandEntry) /\ Len(cc) \in Nat /\ Len(ww) \in Nat
      /\ Len(cc) <= Len(ww) /\ \A i \in 1..Len(cc) : ww[i] = cc[i]
  BY ConcatProperties
<1>2. CommandEvaluate(u, args) <=> \E i \in 1..Len(cc) : P(cc, i)
  BY LoopOverCommands
<1>3. CommandEvaluate(w, args) <=> \E i \in 1..Len(ww) : P(ww, i)
  BY <1>1, LoopOverCommands
<1> HIDE DEF cc, ww
<1>4. m \in 1..Len(cc) /\ Settles(ww[m], args)
  BY <1>1 DEF cc
<1>5. ASSUME NEW i \in 1..Len(ww), P(ww, i) PROVE i \in 1..Len(cc)
  <2>1. ~(m < i)
    BY <1>1, <1>4, <1>5
  <2> QED BY <1>1, <1>4, <2>1
<1>6. ASSUME NEW i \in 1..Len(cc) PROVE P(ww, i) <=> P(cc, i)
  <2>1. \A k \in 1..(i - 1) : k \in 1..Len(cc)
    BY <1>1
  <2> QED BY <1>1, <2>1
<1>7. \A i \in 1..Len(cc) : i \in 1..Len(ww)
  BY <1>1
<1> HIDE DEF P
<1> QED BY <1>2, <1>3, <1>5, <1>6, <1>7

(***************************************************************************)
(* Arguments without duplicates                                            *)
(***************************************************************************)
FirstOnes(s) == {i \in 1..Len(s) : \A j \in 1..(i - 1) : s[j] # s[i]}

LEMMA UniqueKeeps ==
    ASSUME NEW T, NEW s \in Seq(T)
    PROVE  /\ Unique(s) \in Seq(T)
           /\ IsInjective(Unique(s))
           /\ Range(Unique(s)) = Range(s)
<1> DEFINE t == Keep(s, FirstOnes(s))
<1>1. Unique(s) = t
  BY DEF Unique, FirstOnes
<1>2. t \in Seq(T) /\ \E f : Picks(f, t, s, FirstOnes(s), Len(s))
  BY KeepPicks
<1>3. PICK f : Picks(f, t, s, FirstOnes(s), Len(s))
  BY <1>2
<1>4. Range(t) = {s[i] : i \in {j \in 1..Len(s) : j \in FirstOnes(s)}}
  BY KeepElements
<1>5. Len(s) \in Nat /\ \A x : x \in Range(s) <=> \E i \in 1..Len(s) : x = s[i]
  BY DEF Range
<1> HIDE DEF t
<1>6. DOMAIN t = 1..Len(t) /\ Len(t) \in Nat
  BY <1>2
<1>7. ASSUME NEW j \in 1..Len(t), NEW k \in 1..Len(t), j < k PROVE t[j] # t[k]
  <2>1. /\ f[j] \in 1..Len(s) /\ f[k] \in 1..Len(s) /\ f[j] < f[k] /\ f[k] \in FirstOnes(s)
        /\ t[j] = s[f[j]] /\ t[k] = s[f[k]]
    BY <1>3, <1>7 DEF Picks
  <2>2. f[j] \in 1..(f[k] - 1)
    BY <1>5, <2>1
  <2> QED BY <2>1, <2>2 DEF FirstOnes
<1>8. IsInjective(t)
  <2>1. ASSUME NEW j \in 1..Len(t), NEW k \in 1..Len(t), t[j] = t[k] PROVE j = k
    <3>1. ~(j < k) /\ ~(k < j)
      BY <1>7, <2>1
    <3> QED BY <1>6, <3>1
  <2> QED BY <1>6, <2>1 DEF IsInjective
<1>9. ASSUME NEW i \in 1..Len(s) PROVE s[i] \in Range(t)
  <2> DEFINE E == {j \in 1..Len(s) : s[j] = s[i]}
  <2>1. E \subseteq 1..Len(s) /\ E # {}
    OBVIOUS
  <2> HIDE DEF E
  <2>2. Min(E) \in E /\ Min(E) \in 1..Len(s) /\ \A k \in 1..(Min(E) - 1) : k \notin E
    BY <1>5, <2>1, FirstIn
  <2>3. \A k \in 1..(Min(E) - 1) : s[k] # s[Min(E)]
    <3>1. \A k \in 1..(Min(E) - 1) : k \in 1..Len(s) /\ k \notin E
      BY <1>5, <2>2
    <3>2. s[Min(E)] = s[i]
      BY <2>2 DEF E
    <3> QED BY <3>1, <3>2 DEF E
  <2>4. Min(E) \in 1..Len(s) /\ s[Min(E)] = s[i]
    BY <2>2 DEF E
  <2>5. Min(E) \in FirstOnes(s)
    BY <2>3, <2>4 DEF FirstOnes
  <2> QED BY <1>4, <2>4, <2>5
<1>10. Range(t) = Range(s)
  BY <1>4, <1>5, <1>9
<1> QED BY <1>1, <1>2, <1>8, <1>10

LEMMA UniqueOfPrefix ==
    ASSUME NEW T, NEW s \in Seq(T), NEW t \in Seq(T)
    PROVE  IsPrefix(Unique(s), Unique(s \o t))
<1> DEFINE st == s \o t
<1>1. /\ st \in Seq(T) /\ Len(s) \in Nat /\ Len(s) <= Len(st) /\ Len(st) \in Nat
      /\ \A i \in 1..Len(s) : s[i] = st[i]
  BY ConcatProperties
<1> HIDE DEF st
<1>2. ASSUME NEW i \in 1..Len(s)
      PROVE  s[i] = st[i] /\ (i \in FirstOnes(s) <=> i \in FirstOnes(st))
  <2>1. i \in 1..Len(st) /\ \A j \in 1..(i - 1) : j \in 1..Len(s)
    BY <1>1
  <2> QED BY <1>1, <2>1 DEF FirstOnes
<1>3. IsPrefix(Keep(s, FirstOnes(s)), Keep(st, FirstOnes(st)))
  BY <1>1, <1>2, KeepOfPrefix
<1> QED BY <1>3 DEF Unique, FirstOnes, st

(***************************************************************************)
(* Session based authorization                                             *)
(***************************************************************************)
LEMMA WordType ==
    ASSUME NEW t \in Text
    PROVE  Word(t) \in Words /\ \A r \in Text : Word(r) = Word(t) <=> r = t
<1>1. Word(t) \in Words
  <2>1. <<>> \in Seq(Text) /\ <<t>> \in Seq(Text)
    OBVIOUS
  <2> QED BY <2>1 DEF Word, Words
<1>2. ASSUME NEW r \in Text PROVE Word(r) = Word(t) <=> r = t
  <2>1. <<>> # <<t>> /\ <<r>> # <<>> /\ (<<r>> = <<t>> => r = t)
    OBVIOUS
  <2> QED BY <2>1 DEF Word
<1> QED BY <1>1, <1>2

LEMMA ScopeArgument ==
    ASSUME NEW u, u.scopes \in Seq(Text), Len(u.scopes) = 1
    PROVE  /\ u.scopes[1] \in Text
           /\ GetLocalizedScope(u) = Arg("scope", "=", Word(u.scopes[1]))
           /\ GetLocalizedScope(u) \in Argument
<1>1. u.scopes # <<>> /\ u.scopes[1] \in Text
  OBVIOUS
<1>2. Word(u.scopes[1]) \in Words
  BY <1>1, WordType
<1>3. GetLocalizedScope(u) = Arg("scope", "=", Word(u.scopes[1]))
  BY <1>1 DEF GetLocalizedScope
<1>4. Arg("scope", "=", Word(u.scopes[1])) \in Argument
  BY <1>2, StringyAssumption DEF Arg, Argument
<1> QED BY <1>1, <1>3, <1>4

LEMMA ArgsWithScopeType ==
    ASSUME NEW u, u.scopes \in Seq(Text), Len(u.scopes) = 1, NEW args \in Seq(Argument)
    PROVE  /\ ArgsWithScope(u, args) \in Seq(Argument)
           /\ Range(ArgsWithScope(u, args)) = Range(args) \cup {GetLocalizedScope(u)}
<1> DEFINE x == GetLocalizedScope(u)
           more == Append(args, x)
           last == <<x>>
<1>1. x \in Argument
  BY ScopeArgument
<1> HIDE DEF x
<1>2. more \in Seq(Argument) /\ more = args \o last /\ last \in Seq(Argument)
  BY <1>1, AppendIsConcat
<1>3. Range(last) = {x}
  BY DEF Range
<1> HIDE DEF last
<1>4. Range(more) = Range(args) \cup Range(last)
  BY <1>2, RangeOfConcat
<1>5. Unique(more) \in Seq(Argument) /\ Range(Unique(more)) = Range(more)
  BY <1>2, UniqueKeeps
<1> QED BY <1>3, <1>4, <1>5 DEF ArgsWithScope, x

LEMMA SetValuesType ==
    ASSUME NEW s \in ServiceEntry
    PROVE  /\ SetValues(s) \in Seq(Argument)
           /\ \A x : x \in Range(SetValues(s)) <=>
                        \E j \in 1..Len(s.setValues) : x = ValueString(s.setValues[j])
<1>1. s.setValues \in Seq(ValueEntry) /\ Len(s.setValues) \in Nat
  BY DEF ServiceEntry
<1>2. \A j \in 1..Len(s.setValues) : s.setValues[j] \in ValueEntry
  BY <1>1
<1>3. \A v \in ValueEntry : ValueString(v) \in Argument
  <2> TAKE v \in ValueEntry
  <2>1. v.name \in Text /\ v.values \in Words
    BY DEF ValueEntry
  <2>2. (IF v.optional THEN "*" ELSE "=") \in Text
    BY StringyAssumption
  <2> QED BY <2>1, <2>2 DEF ValueString, Arg, Argument
<1>4. \A j \in 1..Len(s.setValues) : ValueString(s.setValues[j]) \in Argument
  BY <1>2, <1>3
<1>5. /\ SetValues(s) \in Seq(Argument) /\ DOMAIN SetValues(s) = 1..Len(s.setValues)
      /\ \A j \in 1..Len(s.setValues) : SetValues(s)[j] = ValueString(s.setValues[j])
  BY <1>1, <1>4 DEF SetValues
<1> QED BY <1>5, Zenon DEF Range

\* Whether argument i makes service s add its values.
Hits(args, i, s) == Names(args[i], s) /\ ServiceMatcher(args, s.match)

LEMMA MatchedType ==
    ASSUME NEW s \in ServiceEntry, NEW args \in Seq(Argument)
    PROVE  /\ Matched(args, s) \in Seq(Argument)
           /\ \A x : x \in Range(Matched(args, s)) <=>
                        /\ \E i \in 1..Len(args) : Hits(args, i, s)
                        /\ x \in Range(SetValues(s))
<1> DEFINE V == SetValues(s)
           ss == [i \in 1..Len(args) |-> IF Hits(args, i, s) THEN V ELSE <<>>]
<1>1. V \in Seq(Argument) /\ <<>> \in Seq(Argument) /\ Len(args) \in Nat
  BY SetValuesType
<1>2. Matched(args, s) = FlattenSeq(ss)
  BY DEF Matched, Hits
<1> HIDE DEF V
<1>3. ss \in Seq(Seq(Argument)) /\ Len(ss) = Len(args)
  BY <1>1
<1>4. \A i \in 1..Len(args) : ss[i] = IF Hits(args, i, s) THEN V ELSE <<>>
  OBVIOUS
<1> HIDE DEF ss
<1>5. \A x : x \in Range(FlattenSeq(ss)) <=> \E i \in 1..Len(args) : x \in Range(ss[i])
  BY <1>3, FlattenElements
<1>6. FlattenSeq(ss) \in Seq(Argument)
  BY <1>3, FlattenIsSeq
<1>7. Range(<<>>) = {}
  BY DEF Range
<1>8. \A x : \A i \in 1..Len(args) : x \in Range(ss[i]) <=> Hits(args, i, s) /\ x \in Range(V)
  BY <1>4, <1>7
<1> QED BY <1>2, <1>5, <1>6, <1>8 DEF V

\* What the services of a list add, one after the other.
Contributions(args, ss) == [i \in 1..Len(ss) |-> Matched(args, ss[i])]

LEMMA ContributionsType ==
    ASSUME NEW ss \in Seq(ServiceEntry), NEW args \in Seq(Argument)
    PROVE  /\ Contributions(args, ss) \in Seq(Seq(Argument))
           /\ Len(Contributions(args, ss)) = Len(ss)
           /\ \A i \in 1..Len(ss) : Contributions(args, ss)[i] = Matched(args, ss[i])
<1>1. Len(ss) \in Nat /\ \A i \in 1..Len(ss) : ss[i] \in ServiceEntry
  OBVIOUS
<1>2. \A i \in 1..Len(ss) : Matched(args, ss[i]) \in Seq(Argument)
  BY <1>1, MatchedType
<1> QED BY <1>1, <1>2 DEF Contributions

LEMMA ResponseType ==
    ASSUME NEW u, u.services \in Seq(ServiceEntry), NEW args \in Seq(Argument)
    PROVE  /\ ResponseArgs(u, args) \in Seq(Argument)
           /\ IsInjective(ResponseArgs(u, args))
           /\ \A x : x \in Range(ResponseArgs(u, args)) <=>
                 \E k \in 1..Len(u.services) :
                     /\ \E i \in 1..Len(args) : Hits(args, i, u.services[k])
                     /\ x \in Range(SetValues(u.services[k]))
<1> DEFINE ss == u.services
           cc == Contributions(args, ss)
<1>0. ss \in Seq(ServiceEntry) /\ \A i \in 1..Len(ss) : ss[i] \in ServiceEntry
  OBVIOUS
<1>2. ResponseArgs(u, args) = Unique(FlattenSeq(cc))
  BY DEF ResponseArgs, Contributions
<1> HIDE DEF ss
<1>1. /\ cc \in Seq(Seq(Argument)) /\ Len(cc) = Len(ss)
      /\ \A i \in 1..Len(ss) : cc[i] = Matched(args, ss[i]) /\ ss[i] \in ServiceEntry
  BY <1>0, ContributionsType
<1> HIDE DEF cc
<1>3. FlattenSeq(cc) \in Seq(Argument)
  BY <1>1, FlattenIsSeq
<1>4. /\ Unique(FlattenSeq(cc)) \in Seq(Argument) /\ IsInjective(Unique(FlattenSeq(cc)))
      /\ Range(Unique(FlattenSeq(cc))) = Range(FlattenSeq(cc))
  BY <1>3, UniqueKeeps
<1>5. \A x : x \in Range(FlattenSeq(cc)) <=> \E k \in 1..Len(ss) : x \in Range(cc[k])
  BY <1>1, FlattenElements
<1>6. ASSUME NEW k \in 1..Len(ss)
      PROVE  \A x : x \in Range(cc[k]) <=> /\ \E i \in 1..Len(args) : Hits(args, i, ss[k])
                                           /\ x \in Range(SetValues(ss[k]))
  <2>1. ss[k] \in ServiceEntry /\ cc[k] = Matched(args, ss[k])
    BY <1>1
  <2> QED BY <2>1, MatchedType
<1>7. \A x : x \in Range(ResponseArgs(u, args)) <=>
            \E k \in 1..Len(ss) : /\ \E i \in 1..Len(args) : Hits(args, i, ss[k])
                                  /\ x \in Range(SetValues(ss[k]))
  BY <1>2, <1>4, <1>5, <1>6
<1> QED BY <1>2, <1>4, <1>7 DEF ss

\* The replies: what a command gets, and what a session gets.
LEMMA CommandReplies ==
    ASSUME NEW u, NEW args, CommandBased(args)
    PROVE  /\ Reply(u, args).args = <<>>
           /\ Reply(u, args).status \in {"PassAdd", "Fail"}
           /\ Reply(u, args).status = "PassAdd" <=> CommandEvaluate(u, args)
BY DEF Reply, CommandReply

LEMMA SessionReplies ==
    ASSUME NEW u, NEW args, ~CommandBased(args)
    PROVE  LET full == ArgsWithScope(u, args) IN
           /\ Reply(u, args) = SessionReply(u, args)
           /\ Reply(u, args).args = ResponseArgs(u, full)
           /\ Reply(u, args).status \in {"PassAdd", "PassRepl", "Fail"}
           /\ Reply(u, args).status = "Fail" <=> ResponseArgs(u, full) = <<>>
           /\ Reply(u, args).status = "PassAdd" =>
                 ~\E k \in 1..Len(u.services) : Optional(full, u.services[k])
BY DEF Reply, SessionReply

\* The state when a reply is out.
LEMMA InHand ==
    ASSUME Inv, reply # None
    PROVE  /\ config \in Configs /\ user = ReduceAll(config) /\ user \in UserEntry
           /\ user.services \in Seq(ServiceEntry) /\ user.commands \in Seq(CommandEntry)
           /\ user.scopes \in Seq(Text) /\ Len(user.scopes) = 1
           /\ request \in Seq(Argument) /\ reply = Reply(user, request)
           /\ ArgsWithScope(user, request) \in Seq(Argument)
<1>1. /\ config \in Configs /\ user = ReduceAll(config)
      /\ request \in Seq(Argument) /\ reply = Reply(user, request)
  BY StringyAssumption DEF Inv
<1>2. user \in UserEntry /\ user.scopes = config.scopes
  BY <1>1, ReduceAllAdds
<1>3. user.services \in Seq(ServiceEntry) /\ user.commands \in Seq(CommandEntry)
  BY <1>2 DEF UserEntry
<1>4. user.scopes \in Seq(Text) /\ Len(user.scopes) = 1
  BY <1>1, <1>2, ConfigType
<1>5. ArgsWithScope(user, request) \in Seq(Argument)
  BY <1>1, <1>4, ArgsWithScopeType
<1> QED BY <1>1, <1>2, <1>3, <1>4, <1>5

-----------------------------------------------------------------------------
(***************************************************************************)
(* Where the services of the user come from                                *)
(***************************************************************************)
LEMMA ServicesFromConfig ==
    ASSUME NEW u \in Configs, NEW k \in 1..Len(ReduceAll(u).services)
    PROVE  ReduceAll(u).services[k] \in
               Range(u.services) \cup UNION {Range(g.services) : g \in Range(u.groups)}
<1> DEFINE own == u.services
           gg == u.groups
           ss == [i \in 1..Len(gg) |-> gg[i].services]
           x == ReduceAll(u).services[k]
<1>1. own \in Seq(ServiceEntry) /\ gg \in Seq(GroupEntry) /\ Len(gg) \in Nat
  BY ConfigType
<1>2. /\ ReduceAll(u).services = own \o FlattenSeq(ss)
      /\ FlattenSeq(ss) \in Seq(ServiceEntry)
  BY ReduceAllAdds DEF GroupServices
<1>3. Range(own \o FlattenSeq(ss)) = Range(own) \cup Range(FlattenSeq(ss))
  BY <1>1, <1>2, RangeOfConcat, SMTT(20)
<1>4. x \in Range(own \o FlattenSeq(ss))
  <2>1. own \o FlattenSeq(ss) \in Seq(ServiceEntry)
    BY <1>1, <1>2, ConcatProperties
  <2>2. DOMAIN (own \o FlattenSeq(ss)) = 1..Len(own \o FlattenSeq(ss))
    BY <2>1, SeqDomain
  <2> QED BY <1>2, <2>2, Zenon DEF Range
<1>5. ss \in Seq(Seq(ServiceEntry)) /\ Len(ss) = Len(gg)
  <2>1. \A i \in 1..Len(gg) : gg[i] \in GroupEntry
    BY <1>1
  <2>2. \A i \in 1..Len(gg) : gg[i].services \in Seq(ServiceEntry)
    BY <2>1 DEF GroupEntry
  <2> QED BY <1>1, <2>2
<1>6. \A i \in 1..Len(gg) : ss[i] = gg[i].services /\ gg[i] \in Range(gg)
  BY <1>1 DEF Range
<1> HIDE DEF own, gg, ss, x
<1>7. \A y : y \in Range(FlattenSeq(ss)) <=> \E i \in 1..Len(ss) : y \in Range(ss[i])
  BY <1>5, FlattenElements
<1>8. ASSUME x \in Range(FlattenSeq(ss))
      PROVE  x \in UNION {Range(g.services) : g \in Range(gg)}
  <2>1. PICK i \in 1..Len(gg) : x \in Range(ss[i])
    BY <1>5, <1>7, <1>8
  <2>2. gg[i] \in Range(gg) /\ x \in Range(gg[i].services)
    BY <1>6, <2>1
  <2> QED BY <2>2
<1>9. x \in Range(own) \cup UNION {Range(g.services) : g \in Range(gg)}
  BY <1>3, <1>4, <1>8
<1> QED BY <1>9 DEF x, own, gg

LEMMA InvType == Inv => TypeOK
<1> SUFFICES ASSUME Inv PROVE TypeOK
  OBVIOUS
<1>1. CASE reply = None
  <2>1. Range(<<>>) = {}
    BY DEF Range
  <2> QED BY <1>1, <2>1 DEF TypeOK, None
<1>2. CASE reply # None /\ CommandBased(request)
  <2>1. reply.args = <<>> /\ reply.status \in {"PassAdd", "Fail"}
    BY <1>2, InHand, CommandReplies
  <2>2. Range(<<>>) = {}
    BY DEF Range
  <2> QED BY <1>2, <2>1, <2>2 DEF TypeOK
<1>3. CASE reply # None /\ ~CommandBased(request)
  <2> DEFINE full == ArgsWithScope(user, request)
             resp == ResponseArgs(user, full)
  <2>1. /\ reply.args = resp /\ reply.status \in {"PassAdd", "PassRepl", "Fail"}
        /\ reply.status = "Fail" <=> resp = <<>>
    BY <1>3, InHand, SessionReplies
  <2>2. full \in Seq(Argument) /\ user.services \in Seq(ServiceEntry)
    BY <1>3, InHand
  <2> HIDE DEF full
  <2>3. \A x : x \in Range(resp) => \E k \in 1..Len(user.services) :
                                       x \in Range(SetValues(user.services[k]))
    BY <2>2, ResponseType
  <2> HIDE DEF resp
  <2>4. \A k \in 1..Len(user.services) : user.services[k] \in AllServices
    BY <1>3, InHand, ServicesFromConfig DEF AllServices
  <2>5. Range(resp) \subseteq UNION {Range(SetValues(s)) : s \in AllServices}
    BY <2>3, <2>4
  <2> QED BY <2>1, <2>5 DEF TypeOK
<1> QED BY <1>1, <1>2, <1>3

LEMMA InvMandatory == Inv => PassAddIsMandatory
<1> SUFFICES ASSUME Inv, reply.status = "PassAdd", NEW x \in Range(reply.args)
             PROVE  x.sep = "="
  BY DEF PassAddIsMandatory
<1>1. reply # None
  BY DEF None
<1>2. ~CommandBased(request)
  <2> SUFFICES ASSUME CommandBased(request) PROVE FALSE
    OBVIOUS
  <2>1. reply.args = <<>>
    BY <1>1, InHand, CommandReplies
  <2> QED BY <2>1 DEF Range
<1> DEFINE full == ArgsWithScope(user, request)
           ss == user.services
<1>3. /\ full \in Seq(Argument) /\ ss \in Seq(ServiceEntry)
      /\ reply.args = ResponseArgs(user, full)
      /\ ~\E k \in 1..Len(ss) : Optional(full, ss[k])
  BY <1>1, <1>2, InHand, SessionReplies
<1> HIDE DEF full
<1>4. PICK k \in 1..Len(ss) : /\ \E i \in 1..Len(full) : Hits(full, i, ss[k])
                             /\ x \in Range(SetValues(ss[k]))
  BY <1>3, ResponseType
<1>5. ss[k] \in ServiceEntry
  BY <1>3
<1> HIDE DEF ss
<1>6. PICK j \in 1..Len(ss[k].setValues) : x = ValueString(ss[k].setValues[j])
  BY <1>4, <1>5, SetValuesType
<1>7. ~ss[k].setValues[j].optional
  BY <1>3, <1>4, <1>6 DEF Optional, Hits
<1> QED BY <1>6, <1>7 DEF ValueString, Arg

LEMMA InvUnique == Inv => NoDuplicates
<1> SUFFICES ASSUME Inv PROVE IsInjective(reply.args)
  BY DEF NoDuplicates
<1>1. IsInjective(<<>>)
  BY DEF IsInjective
<1>2. CASE reply = None
  BY <1>1, <1>2 DEF None
<1>3. CASE reply # None /\ CommandBased(request)
  BY <1>1, <1>3, InHand, CommandReplies
<1>4. CASE reply # None /\ ~CommandBased(request)
  <2>1. reply.args = ResponseArgs(user, ArgsWithScope(user, request))
    BY <1>4, InHand, SessionReplies
  <2> QED BY <1>4, <2>1, InHand, ResponseType
<1> QED BY <1>2, <1>3, <1>4

LEMMA InvFirstRule == Inv => FirstRuleDecides
BY InHand, CommandReplies, LoopOverCommands DEF FirstRuleDecides

(***************************************************************************)
(* The user before the groups                                              *)
(***************************************************************************)
\* What a session gets from a longer list of services begins with what it gets
\* from the shorter one.
LEMMA MoreServicesAppend ==
    ASSUME NEW u, NEW w, NEW more \in Seq(ServiceEntry), u.services \in Seq(ServiceEntry),
           w.services = u.services \o more, NEW args \in Seq(Argument)
    PROVE  IsPrefix(ResponseArgs(u, args), ResponseArgs(w, args))
<1> DEFINE ss == u.services
           cs == Contributions(args, ss)
           cm == Contributions(args, more)
           cw == Contributions(args, ss \o more)
<1>1. ss \in Seq(ServiceEntry) /\ ss \o more \in Seq(ServiceEntry)
  BY ConcatProperties
<1>2. /\ ResponseArgs(u, args) = Unique(FlattenSeq(cs))
      /\ ResponseArgs(w, args) = Unique(FlattenSeq(cw))
  BY DEF ResponseArgs, Contributions
<1> HIDE DEF ss
<1>3. /\ cs \in Seq(Seq(Argument)) /\ Len(cs) = Len(ss)
      /\ \A i \in 1..Len(ss) : cs[i] = Matched(args, ss[i])
  BY <1>1, ContributionsType
<1>4. /\ cm \in Seq(Seq(Argument)) /\ Len(cm) = Len(more)
      /\ \A i \in 1..Len(more) : cm[i] = Matched(args, more[i])
  BY ContributionsType
<1>5. /\ cw \in Seq(Seq(Argument)) /\ Len(cw) = Len(ss \o more)
      /\ \A i \in 1..Len(ss \o more) : cw[i] = Matched(args, (ss \o more)[i])
  BY <1>1, ContributionsType
<1> HIDE DEF cs, cm, cw
<1>6. cw = cs \o cm
  <2>1. /\ Len(ss) \in Nat /\ Len(more) \in Nat /\ Len(ss \o more) = Len(ss) + Len(more)
        /\ \A i \in 1..(Len(ss) + Len(more)) :
              (ss \o more)[i] = IF i <= Len(ss) THEN ss[i] ELSE more[i - Len(ss)]
    BY <1>1, ConcatProperties
  <2>2. /\ cs \o cm \in Seq(Seq(Argument)) /\ Len(cs \o cm) = Len(ss) + Len(more)
        /\ \A i \in 1..(Len(ss) + Len(more)) :
              (cs \o cm)[i] = IF i <= Len(ss) THEN cs[i] ELSE cm[i - Len(ss)]
    <3>1. /\ cs \o cm \in Seq(Seq(Argument)) /\ Len(cs \o cm) = Len(cs) + Len(cm)
          /\ \A i \in 1..(Len(cs) + Len(cm)) :
                (cs \o cm)[i] = IF i <= Len(cs) THEN cs[i] ELSE cm[i - Len(cs)]
      <4>1. cs \in Seq(Seq(Argument)) /\ cm \in Seq(Seq(Argument))
        BY <1>3, <1>4
      <4> QED BY <4>1, ConcatProperties
    <3> QED BY <1>3, <1>4, <3>1
  <2>3. ASSUME NEW i \in 1..Len(cw) PROVE cw[i] = (cs \o cm)[i]
    <3>1. CASE i <= Len(ss)
      BY <1>3, <1>5, <2>1, <2>2, <3>1, SMTT(20)
    <3>2. CASE ~(i <= Len(ss))
      <4>1. i - Len(ss) \in 1..Len(more)
        BY <1>5, <2>1, <3>2
      <4> QED BY <1>4, <1>5, <2>1, <2>2, <3>2, <4>1
    <3> QED BY <3>1, <3>2
  <2>4. Len(cw) = Len(cs \o cm)
    BY <1>5, <2>1, <2>2
  <2> QED BY <1>5, <2>2, <2>3, <2>4, SeqEqual
<1>7. FlattenSeq(cw) = FlattenSeq(cs) \o FlattenSeq(cm)
  BY <1>3, <1>4, <1>6, FlattenConcat
<1>8. FlattenSeq(cs) \in Seq(Argument) /\ FlattenSeq(cm) \in Seq(Argument)
  BY <1>3, <1>4, FlattenIsSeq
<1> QED BY <1>2, <1>7, <1>8, UniqueOfPrefix

LEMMA InvUserFirst == Inv => UserBeforeGroups
<1> SUFFICES ASSUME Inv, reply # None PROVE UserBeforeGroups
  BY DEF UserBeforeGroups
<1> DEFINE own == [config EXCEPT !.groups = <<>>]
           alone == Reply(own, request)
<1>1. /\ config \in Configs /\ user = ReduceAll(config) /\ request \in Seq(Argument)
      /\ reply = Reply(user, request) /\ ArgsWithScope(user, request) \in Seq(Argument)
  BY InHand
<1>2. /\ config.services \in Seq(ServiceEntry) /\ config.commands \in Seq(CommandEntry)
      /\ GroupServices(config) \in Seq(ServiceEntry) /\ GroupCommands(config) \in Seq(CommandEntry)
      /\ user.services = config.services \o GroupServices(config)
      /\ user.commands = config.commands \o GroupCommands(config)
      /\ user.scopes = config.scopes
  BY <1>1, ConfigType, ReduceAllAdds
<1>3. /\ own.services = config.services /\ own.commands = config.commands
      /\ own.scopes = config.scopes
  BY <1>1, ConfigType DEF UserEntry
<1> HIDE DEF own
<1>4. ASSUME CommandBased(request), NEW c \in Range(config.commands), Settles(c, request)
      PROVE  reply = alone
  <2>1. PICK m \in 1..Len(config.commands) : c = config.commands[m]
    <3>1. config.commands \in Seq(CommandEntry)
      BY <1>2
    <3> QED BY <1>4, <3>1, RangeElements
  <2>2. CommandEvaluate(user, request) <=> CommandEvaluate(own, request)
    BY <1>2, <1>3, <1>4, <2>1, EarlierCommandsDecide
  <2> QED BY <1>1, <1>4, <2>2 DEF Reply, CommandReply
<1>5. ASSUME ~CommandBased(request) PROVE IsPrefix(alone.args, reply.args)
  <2> DEFINE full == ArgsWithScope(user, request)
  <2>1. ArgsWithScope(own, request) = full
    BY <1>2, <1>3 DEF ArgsWithScope, GetLocalizedScope
  <2>2. alone.args = ResponseArgs(own, full) /\ reply.args = ResponseArgs(user, full)
    BY <1>1, <1>5, <2>1, SessionReplies
  <2> HIDE DEF full
  <2>3. full \in Seq(Argument)
    BY <1>1 DEF full
  <2>4. IsPrefix(ResponseArgs(own, full), ResponseArgs(user, full))
    BY <1>2, <1>3, <2>3, MoreServicesAppend
  <2> QED BY <2>2, <2>4
<1> QED BY <1>4, <1>5 DEF UserBeforeGroups, own

(***************************************************************************)
(* Conditions on the scope                                                 *)
(***************************************************************************)
\* Where the client sends no scope of its own, the last argument with that
\* attribute is the one that was added.
LEMMA ScopeIsAdded ==
    ASSUME NEW u, u.scopes \in Seq(Text), Len(u.scopes) = 1, NEW args \in Seq(Argument),
           First(args, "scope") = 0
    PROVE  LET full == ArgsWithScope(u, args)
               last == LastOf(full, "scope")
           IN  last \in 1..Len(full) /\ ASV(full[last]).v = Word(u.scopes[1])
<1> DEFINE x == GetLocalizedScope(u)
           full == ArgsWithScope(u, args)
           I == {i \in 1..Len(full) : ASV(full[i]).a = "scope"}
           J == {i \in 1..Len(args) : ASV(args[i]).a = "scope"}
<1>1. x = Arg("scope", "=", Word(u.scopes[1])) /\ x \in Argument
  BY ScopeArgument
<1>2. full \in Seq(Argument) /\ Range(full) = Range(args) \cup {x}
  BY ArgsWithScopeType
<1>3. First(args, "scope") = IF J # {} THEN Min(J) ELSE 0
  BY DEF First, SelectInSeq
<1>4. LastOf(full, "scope") = IF I # {} THEN Max(I) ELSE 0
  BY DEF LastOf, SelectLastInSeq
<1>5. ASV(x).a = "scope" /\ ASV(x).v = Word(u.scopes[1])
  BY <1>1 DEF ASV, Arg
<1> HIDE DEF x, full
<1>6. J = {}
  <2> SUFFICES ASSUME J # {} PROVE FALSE
    OBVIOUS
  <2> DEFINE n == Len(args)
  <2>1. J \subseteq 1..n /\ n \in Nat
    OBVIOUS
  <2> HIDE DEF J, n
  <2>2. Min(J) \in 1..n
    BY <2>1, FirstIn
  <2> QED BY <1>3, <2>2
<1>7. \A y \in Range(args) : ASV(y).a # "scope"
  <2>1. \A i \in 1..Len(args) : ASV(args[i]).a # "scope"
    BY <1>6
  <2> QED BY <2>1, RangeElements
<1>8. \A i \in 1..Len(full) : full[i] \in Range(full)
  BY <1>2, RangeElements
<1>9. \A i \in I : full[i] = x
  BY <1>2, <1>7, <1>8
<1>10. I # {}
  <2>1. PICK i \in 1..Len(full) : x = full[i]
    <3>1. x \in Range(full) /\ full \in Seq(Argument)
      BY <1>2
    <3> QED BY <3>1, RangeElements
  <2> QED BY <1>5, <2>1
<1>11. I \subseteq 1..Len(full) /\ I \subseteq 0..Len(full) /\ Len(full) \in Nat
  BY <1>2
<1> HIDE DEF I
<1>12. Max(I) \in I
  BY <1>10, <1>11, MaxIsGreatest
<1>13. LastOf(full, "scope") \in 1..Len(full) /\ ASV(full[LastOf(full, "scope")]).v = Word(u.scopes[1])
  BY <1>4, <1>5, <1>9, <1>10, <1>11, <1>12
<1> QED BY <1>13 DEF full

\* One condition of serviceMatcher.
Meets(args, m) ==
    LET last == LastOf(args, m.name) IN
    /\ last # 0
    /\ \A j \in 1..Len(m.values) : ASV(args[last]).v = Word(m.values[j])

LEMMA MatcherMeets ==
    ASSUME NEW args, NEW mm \in Seq(ValueEntry)
    PROVE  ServiceMatcher(args, mm) <=> \A m \in Range(mm) : Meets(args, m)
<1>1. ServiceMatcher(args, mm) <=> \A i \in 1..Len(mm) : Meets(args, mm[i])
  BY DEF ServiceMatcher, Meets
<1>2. \A x : x \in Range(mm) <=> \E i \in 1..Len(mm) : x = mm[i]
  BY RangeElements
<1> QED BY <1>1, <1>2

\* A condition on the scope holds for the values that are the user's scope.
LEMMA ScopeMeets ==
    ASSUME NEW u, u.scopes \in Seq(Text), Len(u.scopes) = 1, NEW args \in Seq(Argument),
           First(args, "scope") = 0, NEW m \in ValueEntry, m.name = "scope"
    PROVE  Meets(ArgsWithScope(u, args), m) <=> Range(m.values) \subseteq Range(u.scopes)
<1> DEFINE full == ArgsWithScope(u, args)
           last == LastOf(full, "scope")
           scope == u.scopes[1]
<1>1. last \in 1..Len(full) /\ ASV(full[last]).v = Word(scope)
  BY ScopeIsAdded
<1>2. scope \in Text
  OBVIOUS
<1>3. m.values \in Seq(Text)
  BY DEF ValueEntry, Words
<1>4. full \in Seq(Argument)
  BY ArgsWithScopeType
<1>5. \A j \in 1..Len(m.values) : m.values[j] \in Text
  BY <1>3
<1>6. Range(u.scopes) = {scope}
  <2>1. \A x : x \in Range(u.scopes) <=> \E i \in 1..Len(u.scopes) : x = u.scopes[i]
    BY RangeElements
  <2> QED BY <2>1
<1> HIDE DEF scope
<1>7. last # 0
  BY <1>1, <1>4
<1>8. Meets(full, m) <=> \A j \in 1..Len(m.values) : Word(scope) = Word(m.values[j])
  BY <1>1, <1>7 DEF Meets
<1>9. \A j \in 1..Len(m.values) : Word(scope) = Word(m.values[j]) <=> m.values[j] = scope
  BY <1>2, <1>5, WordType
<1>10. \A x : x \in Range(m.values) <=> \E j \in 1..Len(m.values) : x = m.values[j]
  BY <1>3, RangeElements
<1> QED BY <1>6, <1>8, <1>9, <1>10

\* A service adds what it adds without its conditions on the scope, if these
\* hold, and else nothing.
LEMMA ScopeWorkedOut ==
    ASSUME NEW u, u.scopes \in Seq(Text), Len(u.scopes) = 1, NEW args \in Seq(Argument),
           First(args, "scope") = 0, NEW s \in ServiceEntry
    PROVE  LET full == ArgsWithScope(u, args) IN
           /\ WithoutScope(s) \in ServiceEntry
           /\ InScope(u, s) => Matched(full, s) = Matched(full, WithoutScope(s))
           /\ ~InScope(u, s) => Matched(full, s) = <<>>
<1> DEFINE full == ArgsWithScope(u, args)
           mm == s.match
           I == {i \in 1..Len(mm) : mm[i].name # "scope"}
           w == WithoutScope(s)
<1>1. mm \in Seq(ValueEntry)
  BY DEF ServiceEntry
<1>2. Keep(mm, I) \in Seq(ValueEntry)
  BY <1>1, KeepPicks
<1>3. Range(Keep(mm, I)) = {mm[i] : i \in {j \in 1..Len(mm) : j \in I}}
  BY <1>1, KeepElements
<1>4. /\ w.match = Keep(mm, I) /\ w.name = s.name /\ w.setValues = s.setValues
      /\ w \in ServiceEntry
  BY <1>2 DEF WithoutScope, ServiceEntry
<1> HIDE DEF w, full
<1>5. \A m : m \in Range(w.match) <=> m \in Range(mm) /\ m.name # "scope"
  <2>1. \A m : m \in Range(mm) <=> \E i \in 1..Len(mm) : m = mm[i]
    BY <1>1, RangeElements
  <2> QED BY <1>3, <1>4, <2>1
<1>6. \A m \in Range(mm) : m \in ValueEntry
  <2>1. \A m : m \in Range(mm) <=> \E i \in 1..Len(mm) : m = mm[i]
    BY <1>1, RangeElements
  <2> QED BY <1>1, <2>1
<1>7. \A m \in Range(mm) :
          m.name = "scope" => (Meets(full, m) <=> Range(m.values) \subseteq Range(u.scopes))
  BY <1>6, ScopeMeets DEF full
<1>8. ServiceMatcher(full, mm) <=> \A m \in Range(mm) : Meets(full, m)
  BY <1>1, MatcherMeets
<1>9. ServiceMatcher(full, w.match) <=> \A m \in Range(w.match) : Meets(full, m)
  BY <1>2, <1>4, MatcherMeets
<1> HIDE DEF I
<1>10. ServiceMatcher(full, mm) <=> InScope(u, s) /\ ServiceMatcher(full, w.match)
  BY <1>5, <1>7, <1>8, <1>9 DEF InScope
<1>11. SetValues(w) = SetValues(s) /\ \A a : Names(a, w) <=> Names(a, s)
  BY <1>4 DEF SetValues, Names
<1>12. InScope(u, s) => Matched(full, s) = Matched(full, w)
  BY <1>10, <1>11 DEF Matched
<1>13. ASSUME ~InScope(u, s) PROVE Matched(full, s) = <<>>
  <2>1. \A i : ~Hits(full, i, s)
    BY <1>10, <1>13 DEF Hits
  <2>2. full \in Seq(Argument)
    BY ArgsWithScopeType DEF full
  <2>3. Matched(full, s) \in Seq(Argument) /\ \A y : y \notin Range(Matched(full, s))
    BY <2>1, <2>2, MatchedType
  <2> DEFINE t == Matched(full, s)
  <2> HIDE DEF t
  <2>4. t \in Seq(Argument) /\ ~\E i \in 1..Len(t) : t[i] \in Range(t)
    BY <2>3 DEF t
  <2>5. \A i \in 1..Len(t) : t[i] \in Range(t)
    BY <2>4, RangeElements
  <2>6. t = <<>>
    BY <2>4, <2>5
  <2> QED BY <2>6 DEF t
<1> QED BY <1>4, <1>12, <1>13 DEF w, full

LEMMA InvScope == Inv => ScopeSelects
<1> SUFFICES ASSUME Inv, reply # None, ~CommandBased(request), First(request, "scope") = 0
             PROVE  reply.args = SessionReply(Specialised(user), request).args
  BY DEF ScopeSelects
<1> DEFINE full == ArgsWithScope(user, request)
           ss == user.services
           n == Len(ss)
           I == {i \in 1..n : InScope(user, ss[i])}
           local == Keep(ss, I)
           spec == Specialised(user)
           cs == Contributions(full, ss)
           ct == Contributions(full, spec.services)
           f == [s \in ServiceEntry |-> Matched(full, WithoutScope(s))]
<1>1. /\ user \in UserEntry /\ ss \in Seq(ServiceEntry) /\ request \in Seq(Argument)
      /\ user.scopes \in Seq(Text) /\ Len(user.scopes) = 1
      /\ reply = Reply(user, request) /\ full \in Seq(Argument)
  BY InHand
<1>2. /\ spec.services = [i \in 1..Len(local) |-> WithoutScope(local[i])]
      /\ spec.scopes = user.scopes
  BY <1>1 DEF Specialised, UserEntry
<1>3. ArgsWithScope(spec, request) = full
  BY <1>2 DEF ArgsWithScope, GetLocalizedScope
<1>4. ASSUME NEW s \in ServiceEntry
      PROVE  /\ WithoutScope(s) \in ServiceEntry
             /\ InScope(user, s) => Matched(full, s) = Matched(full, WithoutScope(s))
             /\ ~InScope(user, s) => Matched(full, s) = <<>>
  BY <1>1, ScopeWorkedOut
<1>5. reply.args = ResponseArgs(user, full)
  BY <1>1, SessionReplies
<1>6. SessionReply(spec, request).args = ResponseArgs(spec, full)
  BY <1>3, SessionReplies
<1> HIDE DEF full, spec
<1>7. ResponseArgs(user, full) = Unique(FlattenSeq(cs)) /\ ResponseArgs(spec, full) = Unique(FlattenSeq(ct))
  BY DEF ResponseArgs, Contributions
<1> HIDE DEF ss
<1>8. n \in Nat /\ \A i \in 1..n : ss[i] \in ServiceEntry
  BY <1>1
<1>9. local \in Seq(ServiceEntry)
  BY <1>1, KeepPicks
<1>10. /\ cs \in Seq(Seq(Argument)) /\ Len(cs) = n
       /\ \A i \in 1..n : cs[i] = Matched(full, ss[i])
  BY <1>1, ContributionsType
<1>11. f \in [ServiceEntry -> Seq(Argument)]
  <2>1. \A s \in ServiceEntry : Matched(full, WithoutScope(s)) \in Seq(Argument)
    BY <1>1, <1>4, MatchedType
  <2> QED BY <2>1
<1>12. \A s \in ServiceEntry : f[s] = Matched(full, WithoutScope(s))
  OBVIOUS
<1> HIDE DEF f, cs
<1>13. \A i \in 1..n : i \in I => cs[i] = f[ss[i]]
  BY <1>4, <1>8, <1>10, <1>12
<1>14. \A i \in 1..n : i \notin I => cs[i] = <<>>
  BY <1>4, <1>8, <1>10
<1> HIDE DEF I
<1>15. /\ Len(Keep(cs, I)) = Len(local)
       /\ \A k \in 1..Len(local) : Keep(cs, I)[k] = f[local[k]]
  <2> DEFINE V == Seq(Argument)
  <2>1. f \in [ServiceEntry -> V] /\ ss \in Seq(ServiceEntry) /\ cs \in Seq(V) /\ Len(ss) = Len(cs)
    BY <1>1, <1>10, <1>11
  <2>2. \A i \in 1..Len(ss) : i \in I => cs[i] = f[ss[i]]
    BY <1>13
  <2> HIDE DEF V
  <2> QED BY <2>1, <2>2, KeepMapped
<1>16. Keep(cs, I) \in Seq(Seq(Argument))
  BY <1>10, KeepPicks
<1>17. FlattenSeq(Keep(cs, I)) = FlattenSeq(cs)
  BY <1>10, <1>14, FlattenKeep
<1> HIDE DEF local
<1>18. Len(local) \in Nat /\ \A k \in 1..Len(local) : local[k] \in ServiceEntry
  BY <1>9
<1>19. /\ spec.services \in Seq(ServiceEntry) /\ Len(spec.services) = Len(local)
       /\ \A k \in 1..Len(local) : spec.services[k] = WithoutScope(local[k])
  BY <1>2, <1>4, <1>18
<1>20. /\ ct \in Seq(Seq(Argument)) /\ Len(ct) = Len(local)
       /\ \A k \in 1..Len(local) : ct[k] = Matched(full, WithoutScope(local[k]))
  <2>1. spec.services \in Seq(ServiceEntry) /\ full \in Seq(Argument)
    BY <1>1, <1>19
  <2>2. /\ ct \in Seq(Seq(Argument)) /\ Len(ct) = Len(spec.services)
        /\ \A k \in 1..Len(spec.services) : ct[k] = Matched(full, spec.services[k])
    BY <2>1, ContributionsType
  <2> HIDE DEF ct
  <2> QED BY <1>19, <2>2
<1> HIDE DEF ct
<1>21. ct = Keep(cs, I)
  <2>1. \A k \in 1..Len(ct) : ct[k] = Keep(cs, I)[k]
    BY <1>12, <1>15, <1>18, <1>20
  <2> QED BY <1>15, <1>16, <1>20, <2>1, SeqEqual
<1> QED BY <1>5, <1>6, <1>7, <1>17, <1>21 DEF spec

-----------------------------------------------------------------------------
(***************************************************************************)
(* Theorems                                                                *)
(***************************************************************************)
\* The authorizer answers every request from the reduced user alone (stringy.go
\* New and Handle).
THEOREM InvHolds == Spec => []Inv
BY InitInv, NextInv, PTL DEF Spec

\* A reply has a status of authorization, its arguments are set values of the
\* configuration, and a failure has none (session.go evaluate).
THEOREM RepliesFromConfig == Spec => []TypeOK
BY InvHolds, InvType, PTL

\* The first rule that settles a command decides it (command.go evaluate).
THEOREM FirstRuleWins == Spec => []FirstRuleDecides
BY InvHolds, InvFirstRule, PTL

\* The user's own entries come before those of the groups (stringy.go New).
THEOREM UserComesFirst == Spec => []UserBeforeGroups
BY InvHolds, InvUserFirst, PTL

\* PassAdd never carries an optional value (session.go evaluate).
THEOREM AddsMandatoryOnly == Spec => []PassAddIsMandatory
BY InvHolds, InvMandatory, PTL

\* No argument is sent twice (session.go evaluate, Args.Unique).
THEOREM NothingTwice == Spec => []NoDuplicates
BY InvHolds, InvUnique, PTL

\* Conditions on the scope select by the scope the user was localized to
\* (session.go Handle and serviceMatcher).
THEOREM ScopeDecides == Spec => []ScopeSelects
BY InvHolds, InvScope, PTL

=============================================================================
