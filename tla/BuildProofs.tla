----------------------------- MODULE BuildProofs -----------------------------
(***************************************************************************)
(* Theorems about Build, for configurations with any number of users,      *)
(* groups, scopes and prefixes.                                            *)
(***************************************************************************)
EXTENDS Build, ListProofs

\* Nothing is left out.
LEMMA KeepAll ==
    ASSUME NEW T, NEW s \in Seq(T), NEW I, \A i \in 1..Len(s) : i \in I
    PROVE  Keep(s, I) = s
<1> DEFINE K == KeptUpTo(s, I)
           P(n) == Len(K[n]) = n /\ \A k \in 1..n : K[n][k] = s[k]
           S == {n \in 0..Len(s) : P(n)}
<1>1. /\ K \in [0..Len(s) -> Seq(T)] /\ K[0] = <<>>
      /\ \A i \in 1..Len(s) : K[i] = IF i \in I THEN Append(K[i - 1], s[i]) ELSE K[i - 1]
  BY KeptSteps
<1>2. Len(s) \in Nat
  OBVIOUS
<1> HIDE DEF K
<1>3. 0 \in S
  BY <1>1, <1>2
<1>4. ASSUME NEW n \in 0..(Len(s) - 1), n \in S PROVE n + 1 \in S
  <2>1. /\ n + 1 \in 1..Len(s) /\ n + 1 \in 0..Len(s) /\ n \in 0..Len(s) /\ (n + 1) - 1 = n
        /\ s[n + 1] \in T
    BY <1>2
  <2>2. K[n + 1] = Append(K[n], s[n + 1]) /\ K[n] \in Seq(T) /\ P(n)
    BY <1>1, <1>4, <2>1
  <2>3. P(n + 1)
    BY <2>1, <2>2, AppendProperties
  <2> QED BY <2>1, <2>3
<1>5. \A n \in 0..Len(s) : n \in S
  <2> HIDE DEF S
  <2> QED BY <1>2, <1>3, <1>4, InductionUpTo
<1>6. P(Len(s)) /\ K[Len(s)] \in Seq(T)
  BY <1>1, <1>2, <1>5
<1>7. K[Len(s)] = s
  BY <1>6, SeqEqual
<1> QED BY <1>7 DEF Keep, K

(***************************************************************************)
(* The inductive invariant                                                 *)
(***************************************************************************)
\* The providers are those of the configuration once it is built, and none
\* before; an answer is what they say.
Inv ==
    /\ config \in Configs
    /\ built \in BOOLEAN
    /\ providers = IF built THEN BuildProviders(config) ELSE <<>>
    /\ answer # None => answer = AnswerTo(providers, answer.remote, answer.name)

LEMMA AnswerNames ==
    ASSUME NEW ps, NEW r, NEW n
    PROVE  AnswerTo(ps, r, n).remote = r /\ AnswerTo(ps, r, n).name = n
BY DEF AnswerTo, None

LEMMA InitInv == Init => Inv
BY DEF Init, Inv

LEMMA NextInv == Inv /\ [Next]_vars => Inv'
<1> SUFFICES ASSUME Inv, [Next]_vars PROVE Inv'
  OBVIOUS
<1>1. CASE Update
  BY <1>1 DEF Inv, Update
<1>2. CASE Answered
  BY <1>2 DEF Inv, Answered
<1>3. ASSUME NEW r \in Remote, NEW n \in Name, Query(r, n) PROVE Inv'
  BY <1>3, AnswerNames DEF Inv, Query
<1>4. CASE UNCHANGED vars
  BY <1>4 DEF Inv, vars
<1> QED BY <1>1, <1>2, <1>3, <1>4 DEF Next

(***************************************************************************)
(* A user in a scope                                                       *)
(***************************************************************************)
LEMMA ConfigType ==
    ASSUME NEW c \in Configs
    PROVE  /\ c.users \in Seq(UserEntry) /\ Len(c.users) \in Nat
           /\ \A i \in 1..Len(c.users) : c.users[i] \in UserEntry
           /\ c.secrets \in Seq(SecretEntry) /\ Len(c.secrets) \in Nat
           /\ \A i \in 1..Len(c.secrets) : c.secrets[i] \in SecretEntry
<1>1. c.users \in Seq(UserEntry) /\ c.secrets \in Seq(SecretEntry)
  BY BuildAssumption
<1> QED BY <1>1

\* What the loop over the groups finds is the setting of the first group with one.
LEMMA LoopOverGroups ==
    ASSUME NEW u \in UserEntry, NEW scope, NEW field \in {"authenticator", "accounter"}
    PROVE  FirstOfGroups([u EXCEPT !.scopes = <<scope>>], field) =
               LET having == {i \in 1..Len(u.groups) : u.groups[i][field] # Nil}
               IN  IF having = {} THEN Nil ELSE u.groups[Min(having)][field]
<1> DEFINE w == [u EXCEPT !.scopes = <<scope>>]
           having == {i \in 1..Len(u.groups) : u.groups[i][field] # Nil}
           hit == IF having # {} THEN Min(having) ELSE 0
<1>1. w.groups = u.groups
  BY DEF UserEntry
<1> HIDE DEF w
<1>2. SelectInSeq(w.groups, LAMBDA g : g[field] # Nil) = hit
  BY <1>1 DEF SelectInSeq
<1>3. FirstOfGroups(w, field) = IF hit = 0 THEN Nil ELSE u.groups[hit][field]
  BY <1>1, <1>2, Zenon DEF FirstOfGroups
<1>4. having # {} => hit # 0
  <2>1. u.groups \in Seq(GroupEntry)
    BY DEF UserEntry
  <2>2. having \subseteq 1..Len(u.groups) /\ Len(u.groups) \in Nat
    BY <2>1
  <2> HIDE DEF having
  <2>3. having # {} => Min(having) \in 1..Len(u.groups)
    BY <2>2, FirstIn
  <2> QED BY <2>2, <2>3
<1> HIDE DEF having
<1> QED BY <1>3, <1>4 DEF w, having

LEMMA LocalizedSettings ==
    ASSUME NEW u \in UserEntry, NEW scope
    PROVE  Localized(u, scope) = [u EXCEPT !.scopes = <<scope>>,
                                           !.authenticator = Setting(u, "authenticator"),
                                           !.accounter = Setting(u, "accounter")]
<1> DEFINE w == [u EXCEPT !.scopes = <<scope>>]
<1>1. w.authenticator = u.authenticator /\ w.accounter = u.accounter
  BY DEF UserEntry
<1>2. /\ (IF w.authenticator # Nil THEN w.authenticator ELSE FirstOfGroups(w, "authenticator"))
           = Setting(u, "authenticator")
      /\ (IF w.accounter # Nil THEN w.accounter ELSE FirstOfGroups(w, "accounter"))
           = Setting(u, "accounter")
  BY <1>1, LoopOverGroups DEF Setting
<1>3. Localized(u, scope) =
          [w EXCEPT !.authenticator = IF @ # Nil THEN @ ELSE FirstOfGroups(w, "authenticator"),
                    !.accounter = IF @ # Nil THEN @ ELSE FirstOfGroups(w, "accounter")]
  BY DEF Localized, ReduceFromGroups
<1> QED BY <1>1, <1>2, <1>3 DEF UserEntry

\* The same for the parts that AddUser looks at.
LEMMA LocalizedFields ==
    ASSUME NEW u \in UserEntry, NEW scope
    PROVE  LET l == Localized(u, scope) IN
           /\ l.name = u.name
           /\ l.authenticator = Setting(u, "authenticator")
           /\ l.accounter = Setting(u, "accounter")
           /\ FactoryFails(l) <=> Unusable(u)
           /\ HasScope(u, scope) <=> scope \in Range(u.scopes)
<1> DEFINE l == Localized(u, scope)
<1>1. /\ l.name = u.name /\ l.authenticator = Setting(u, "authenticator")
      /\ l.accounter = Setting(u, "accounter")
  <2> DEFINE a == Setting(u, "authenticator")
             b == Setting(u, "accounter")
  <2>1. l = [u EXCEPT !.scopes = <<scope>>, !.authenticator = a, !.accounter = b]
    BY LocalizedSettings
  <2> HIDE DEF l, a, b
  <2>2. l.name = u.name /\ l.authenticator = a /\ l.accounter = b
    BY <2>1 DEF UserEntry
  <2> QED BY <2>2 DEF a, b
<1>2. FactoryFails(l) <=> Unusable(u)
  BY <1>1 DEF FactoryFails, Unusable
<1>3. u.scopes \in Seq(Text)
  BY DEF UserEntry
<1>4. HasScope(u, scope) <=> scope \in Range(u.scopes)
  BY <1>3, RangeElements DEF HasScope, Contains
<1> QED BY <1>1, <1>2, <1>4

(***************************************************************************)
(* The users of a scope                                                    *)
(***************************************************************************)
\* Whether a user stands for a name in a scope.
Stands(u, scope, n) == u.name = n /\ scope \in Range(u.scopes) /\ ~Unusable(u)

\* The entries among the first k.
EntriesIn(uu, scope, n, k) == {i \in 1..k : Stands(uu[i], scope, n)}

\* What the loop has collected after k rounds: for each name its last entry.
LastOnes(uu, scope, k) ==
    [n \in {m \in Text : EntriesIn(uu, scope, m, k) # {}} |->
        NewAAA(Localized(uu[Max(EntriesIn(uu, scope, n, k))], scope))]

LEMMA MaxGrows ==
    ASSUME NEW k \in Nat, NEW E, E \subseteq 1..k
    PROVE  Max(E \cup {k + 1}) = k + 1
<1> DEFINE F == E \cup {k + 1}
<1>1. F \subseteq 0..(k + 1) /\ F # {} /\ k + 1 \in Nat
  OBVIOUS
<1>2. k + 1 \in F
  OBVIOUS
<1> HIDE DEF F
<1>3. Max(F) \in F /\ \A y \in F : Max(F) >= y
  BY <1>1, MaxIsGreatest
<1>4. Max(F) >= k + 1 /\ Max(F) \in 0..(k + 1)
  BY <1>1, <1>2, <1>3
<1> QED BY <1>4 DEF F

LEMMA OneMoreRound ==
    ASSUME NEW uu \in Seq(UserEntry), NEW scope, NEW k \in Nat, k + 1 <= Len(uu)
    PROVE  LastOnes(uu, scope, k + 1) = AddUser(LastOnes(uu, scope, k), uu[k + 1], scope)
<1> DEFINE u == uu[k + 1]
           E(n) == EntriesIn(uu, scope, n, k)
           F(n) == EntriesIn(uu, scope, n, k + 1)
           L(i) == NewAAA(Localized(uu[i], scope))
<1>1. u \in UserEntry /\ 1..(k + 1) = 1..k \cup {k + 1}
  OBVIOUS
<1>2. u.name \in Text
  BY <1>1 DEF UserEntry
<1>3. HasScope(u, scope) /\ ~FactoryFails(Localized(u, scope)) <=> Stands(u, scope, u.name)
  BY <1>1, LocalizedFields DEF Stands
<1>4. \A n : E(n) \subseteq 1..k
  BY DEF EntriesIn
<1>5. \A n : F(n) = IF Stands(u, scope, n) THEN E(n) \cup {k + 1} ELSE E(n)
  BY <1>1 DEF EntriesIn
<1> DEFINE old == LastOnes(uu, scope, k)
<1>6. old = [n \in {m \in Text : E(m) # {}} |-> L(Max(E(n)))]
  BY DEF LastOnes
<1>7. LastOnes(uu, scope, k + 1) = [n \in {m \in Text : F(m) # {}} |-> L(Max(F(n)))]
  BY DEF LastOnes
<1> HIDE DEF E, F, old
<1>8. CASE ~Stands(u, scope, u.name)
  <2>1. \A n : F(n) = E(n)
    BY <1>5, <1>8 DEF Stands
  <2>2. AddUser(old, u, scope) = old
    BY <1>3, <1>8 DEF AddUser
  <2> QED BY <1>6, <1>7, <2>1, <2>2 DEF old
<1>9. CASE Stands(u, scope, u.name)
  <2>1. \A n : n # u.name => F(n) = E(n)
    BY <1>5 DEF Stands
  <2>2. F(u.name) = E(u.name) \cup {k + 1}
    BY <1>5, <1>9
  <2>3. Max(F(u.name)) = k + 1
    BY <1>4, <2>2, MaxGrows
  <2>4. AddUser(old, u, scope) = Put(old, u.name, L(k + 1))
    BY <1>3, <1>9 DEF AddUser
  <2> HIDE DEF L, u
  <2>5. DOMAIN old = {m \in Text : E(m) # {}} /\ \A n \in DOMAIN old : old[n] = L(Max(E(n)))
    BY <1>6
  <2>6. {m \in Text : F(m) # {}} = DOMAIN old \cup {u.name}
    BY <1>2, <2>1, <2>2, <2>5
  <2>7. \A n \in DOMAIN old \cup {u.name} :
            L(Max(F(n))) = IF n = u.name THEN L(k + 1) ELSE old[n]
    BY <2>1, <2>3, <2>5
  <2>8. LastOnes(uu, scope, k + 1) = Put(old, u.name, L(k + 1))
    BY <1>7, <2>6, <2>7 DEF Put
  <2> QED BY <2>4, <2>8 DEF old, u
<1> QED BY <1>8, <1>9

LEMMA UsersAreLastOnes ==
    ASSUME NEW c, c.users \in Seq(UserEntry), NEW scope
    PROVE  UsersOf(c, scope) = LastOnes(c.users, scope, Len(c.users))
<1> DEFINE uu == c.users
           n == Len(uu)
           Is(h) == h = [i \in 0..n |-> IF i = 0 THEN <<>> ELSE AddUser(h[i - 1], uu[i], scope)]
           U == CHOOSE h : Is(h)
           g == [i \in 0..n |-> LastOnes(uu, scope, i)]
<1>1. n \in Nat /\ uu \in Seq(UserEntry)
  OBVIOUS
<1>2. UsersUpTo(c, scope) = U
  BY Zenon DEF UsersUpTo
<1>3. LastOnes(uu, scope, 0) = <<>>
  <2>1. \A m : EntriesIn(uu, scope, m, 0) = {}
    BY DEF EntriesIn
  <2> QED BY <2>1 DEF LastOnes
<1> SUFFICES U[n] = LastOnes(uu, scope, n)
  BY <1>2 DEF UsersOf
<1> HIDE DEF uu, n
<1>4. ASSUME NEW i \in 1..n PROVE LastOnes(uu, scope, i) = AddUser(LastOnes(uu, scope, i - 1), uu[i], scope)
  <2>1. i - 1 \in Nat /\ (i - 1) + 1 = i /\ (i - 1) + 1 <= Len(uu)
    BY <1>1 DEF n
  <2> QED BY <1>1, <2>1, OneMoreRound
<1>5. Is(g)
  BY <1>1, <1>3, <1>4
<1>6. Is(U)
  BY <1>5, Zenon
<1> HIDE DEF U, g
<1> DEFINE S == {i \in 0..n : U[i] = LastOnes(uu, scope, i)}
<1>7. 0 \in S
  BY <1>1, <1>3, <1>6
<1>8. ASSUME NEW k \in 0..(n - 1), k \in S PROVE k + 1 \in S
  <2>1. k + 1 \in 1..n /\ (k + 1) - 1 = k
    BY <1>1
  <2>2. U[k + 1] = AddUser(U[k], uu[k + 1], scope)
    BY <1>1, <1>6, <2>1
  <2>3. LastOnes(uu, scope, k + 1) = AddUser(LastOnes(uu, scope, k), uu[k + 1], scope)
    BY <1>4, <2>1
  <2>4. U[k] = LastOnes(uu, scope, k)
    BY <1>8
  <2> QED BY <2>1, <2>2, <2>3, <2>4
<1>9. \A k \in 0..n : k \in S
  <2> HIDE DEF S
  <2> QED BY <1>1, <1>7, <1>8, InductionUpTo
<1> QED BY <1>1, <1>9

\* The answer to a name: its last entry, if it has one.
LEMMA UsersByName ==
    ASSUME NEW c, c.users \in Seq(UserEntry), NEW scope, NEW n
    PROVE  LET E == EntriesIn(c.users, scope, n, Len(c.users)) IN
           /\ n \in DOMAIN UsersOf(c, scope) <=> E # {}
           /\ E # {} => /\ Max(E) \in 1..Len(c.users)
                        /\ UsersOf(c, scope)[n] = NewAAA(Localized(c.users[Max(E)], scope))
<1> DEFINE uu == c.users
           E == EntriesIn(uu, scope, n, Len(uu))
<1>1. uu \in Seq(UserEntry) /\ Len(uu) \in Nat
  OBVIOUS
<1>2. UsersOf(c, scope) = LastOnes(uu, scope, Len(uu))
  BY UsersAreLastOnes
<1> HIDE DEF uu
<1>3. E # {} => n \in Text
  <2> SUFFICES ASSUME NEW i \in E PROVE n \in Text
    OBVIOUS
  <2>1. i \in 1..Len(uu) /\ uu[i].name = n
    BY DEF EntriesIn, Stands
  <2>2. uu[i] \in UserEntry
    BY <1>1, <2>1
  <2> QED BY <2>1, <2>2 DEF UserEntry
<1>4. n \in DOMAIN UsersOf(c, scope) <=> E # {}
  BY <1>2, <1>3 DEF LastOnes
<1>5. E # {} => UsersOf(c, scope)[n] = NewAAA(Localized(uu[Max(E)], scope))
  BY <1>2, <1>3 DEF LastOnes
<1>6. E # {} => Max(E) \in 1..Len(uu)
  <2>1. E \subseteq 1..Len(uu) /\ E \subseteq 0..Len(uu)
    BY <1>1 DEF EntriesIn
  <2> HIDE DEF E
  <2>2. E # {} => Max(E) \in E
    BY <1>1, <2>1, MaxIsGreatest
  <2> QED BY <2>1, <2>2
<1> QED BY <1>4, <1>5, <1>6 DEF uu

(***************************************************************************)
(* The providers                                                           *)
(***************************************************************************)
Built(c) == {i \in 1..Len(c.secrets) : ~Skipped(c, c.secrets[i])}

\* f[k]: the secret config of provider k.
LEMMA ProvidersPick ==
    ASSUME NEW c \in Configs
    PROVE  \E f : /\ Picks(f, Keep(c.secrets, Built(c)), c.secrets, Built(c), Len(c.secrets))
                  /\ Len(BuildProviders(c)) = Len(Keep(c.secrets, Built(c)))
                  /\ Len(BuildProviders(c)) \in Nat
                  /\ \A k \in 1..Len(BuildProviders(c)) :
                        BuildProviders(c)[k] = NewProvider(c, c.secrets[f[k]])
<1> DEFINE kept == Keep(c.secrets, Built(c))
<1>1. kept \in Seq(SecretEntry) /\ \E f : Picks(f, kept, c.secrets, Built(c), Len(c.secrets))
  BY ConfigType, KeepPicks
<1>2. BuildProviders(c) = [i \in 1..Len(kept) |-> NewProvider(c, kept[i])]
  BY DEF BuildProviders, Built
<1>3. PICK f : Picks(f, kept, c.secrets, Built(c), Len(c.secrets))
  BY <1>1
<1> HIDE DEF kept
<1>4. /\ Len(BuildProviders(c)) = Len(kept) /\ Len(kept) \in Nat
      /\ \A k \in 1..Len(kept) : BuildProviders(c)[k] = NewProvider(c, kept[k])
  BY <1>1, <1>2
<1>5. \A k \in 1..Len(kept) : kept[k] = c.secrets[f[k]]
  BY <1>3 DEF Picks
<1>6. \A k \in 1..Len(kept) : BuildProviders(c)[k] = NewProvider(c, c.secrets[f[k]])
  BY <1>4, <1>5
<1> QED BY <1>3, <1>4, <1>6 DEF kept

LEMMA ProviderParts ==
    ASSUME NEW c, NEW s
    PROVE  LET p == NewProvider(c, s) IN
           p.scope = s.name /\ p.secret = s.key /\ p.users = UsersOf(c, s.name)
BY DEF NewProvider

\* The provider that answers: the first that knows the client.
LEMMA GetFirst ==
    ASSUME NEW ps, Len(ps) \in Nat, NEW r
    PROVE  /\ Get(ps, r) = 0 <=> \A k \in 1..Len(ps) : ~Serves(ps[k], r)
           /\ Get(ps, r) # 0 => /\ Get(ps, r) \in 1..Len(ps)
                                /\ Serves(ps[Get(ps, r)], r)
                                /\ \A k \in 1..(Get(ps, r) - 1) : ~Serves(ps[k], r)
<1> DEFINE I == {i \in 1..Len(ps) : Serves(ps[i], r)}
           n == Len(ps)
<1>1. Get(ps, r) = IF I # {} THEN Min(I) ELSE 0
  BY DEF Get, SelectInSeq
<1>2. I \subseteq 1..n /\ n \in Nat
  OBVIOUS
<1>3. CASE I = {}
  BY <1>1, <1>3
<1>4. CASE I # {}
  <2> HIDE DEF I, n
  <2>1. Min(I) \in I /\ Min(I) \in 1..n /\ \A k \in 1..(Min(I) - 1) : k \notin I
    BY <1>2, <1>4, FirstIn
  <2>2. \A k \in 1..(Min(I) - 1) : k \in 1..n
    BY <1>2, <2>1
  <2>3. Min(I) # 0
    BY <1>2, <2>1
  <2> QED BY <1>1, <1>4, <2>1, <2>2, <2>3 DEF I, n
<1> QED BY <1>3, <1>4

\* Which secret configs are built and serve a client.
LEMMA UsableServes ==
    ASSUME config \in Configs, NEW i \in 1..Len(config.secrets), NEW r
    PROVE  Usable(i, r) <=>
               i \in Built(config) /\ Serves(NewProvider(config, config.secrets[i]), r)
<1> DEFINE s == config.secrets[i]
           uu == config.users
<1>1. /\ uu \in Seq(UserEntry) /\ s \in SecretEntry
      /\ \A j \in 1..Len(uu) : uu[j] \in UserEntry
  BY ConfigType
<1>2. \A n : Entries(s.name, n) = EntriesIn(uu, s.name, n, Len(uu))
  BY DEF Entries, EntriesIn, Stands
<1>3. \A n : n \in DOMAIN UsersOf(config, s.name) <=> EntriesIn(uu, s.name, n, Len(uu)) # {}
  BY <1>1, UsersByName
<1>4. \A n : EntriesIn(uu, s.name, n, Len(uu)) # {} <=>
              \E j \in 1..Len(uu) : uu[j].name = n /\ j \in EntriesIn(uu, s.name, uu[j].name, Len(uu))
  BY DEF EntriesIn, Stands
<1>5. (\E j \in 1..Len(uu) : j \in Entries(s.name, uu[j].name)) <=>
          DOMAIN UsersOf(config, s.name) # {}
  BY <1>2, <1>3, <1>4
<1>6. Serves(NewProvider(config, s), r) <=>
          \E x \in Range(s.prefixes) \cap Parses : <<x, r>> \in Covers
  BY DEF Serves, NewProvider
<1>7. (\E x : x \in Range(s.prefixes)) => s.prefixes # <<>>
  BY DEF Range
<1>8. i \in Built(config) <=> /\ DOMAIN UsersOf(config, s.name) # {}
                             /\ s.handler \in HandlerTypes /\ s.type \in ProviderTypes
                             /\ s.prefixes # <<>>
  BY DEF Built, Skipped
<1> QED BY <1>5, <1>6, <1>7, <1>8 DEF Usable

\* The answer to a client that is served, and to one that is not.
LEMMA AnswerServed ==
    ASSUME Inv, answer # None
    PROVE  LET ps == BuildProviders(config)
               k == Get(ps, answer.remote)
           IN  /\ ~built \/ k = 0 => answer.scope = "" /\ answer.aaa = {}
               /\ built /\ k # 0 => /\ answer.scope = ps[k].scope
                                   /\ answer.secret = ps[k].secret
                                   /\ answer.aaa = GetUser(ps[k], answer.name)
<1> DEFINE r == answer.remote
           n == answer.name
           k == Get(providers, r)
<1>1. answer = AnswerTo(providers, r, n)
  BY DEF Inv
<1>2. k = 0 => answer.scope = "" /\ answer.aaa = {}
  <2> HIDE DEF r, n
  <2> QED BY <1>1 DEF AnswerTo, None
<1>3. k # 0 => /\ answer.scope = providers[k].scope
               /\ answer.secret = providers[k].secret
               /\ answer.aaa = GetUser(providers[k], n)
  <2> HIDE DEF r, n
  <2> QED BY <1>1 DEF AnswerTo
<1>4. ~built => k = 0
  <2>1. ~built => providers = <<>> /\ Len(providers) = 0
    BY DEF Inv
  <2> HIDE DEF r
  <2> QED BY <2>1, GetFirst
<1>5. built => providers = BuildProviders(config)
  BY DEF Inv
<1> QED BY <1>2, <1>3, <1>4, <1>5

LEMMA InvDecides == Inv => LastEntryDecides
<1> SUFFICES ASSUME Inv, answer.scope # "" PROVE LastEntryDecides
  BY DEF LastEntryDecides
<1> DEFINE ps == BuildProviders(config)
           k == Get(ps, answer.remote)
           n == answer.name
           scope == answer.scope
           uu == config.users
           E == EntriesIn(uu, scope, n, Len(uu))
           u == uu[Max(E)]
           a == Setting(u, "authenticator")
           b == Setting(u, "accounter")
           usable(x, types) == IF x.type \in types THEN x ELSE Default
           aaa == [authenticator |-> usable(a, AuthenticatorTypes),
                   accounter |-> usable(b, AccounterTypes),
                   authorizer |-> [u EXCEPT !.scopes = <<scope>>, !.authenticator = a,
                                            !.accounter = b]]
<1>1. answer # None
  <2>1. None.scope = ""
    BY DEF None
  <2> QED BY <2>1
<1>2. /\ built /\ k # 0
      /\ scope = ps[k].scope /\ answer.aaa = GetUser(ps[k], n)
  BY <1>1, AnswerServed
<1>3. config \in Configs
  BY DEF Inv
<1>4. k \in 1..Len(ps)
  BY <1>2, <1>3, ProvidersPick, GetFirst
<1>5. PICK s : ps[k] = NewProvider(config, s)
  BY <1>3, <1>4, ProvidersPick
<1>6. s.name = scope /\ ps[k].users = UsersOf(config, scope)
  <2> HIDE DEF ps, k, scope
  <2> QED BY <1>2, <1>5, ProviderParts
<1>7. uu \in Seq(UserEntry) /\ \A i \in 1..Len(uu) : uu[i] \in UserEntry
  BY <1>3, ConfigType
<1>8. Entries(scope, n) = E
  BY DEF Entries, EntriesIn, Stands
<1>9. CASE E = {}
  <2>1. answer.aaa = {}
    BY <1>2, <1>6, <1>7, <1>9, UsersByName DEF GetUser
  <2> QED BY <1>8, <1>9, <2>1 DEF LastEntryDecides
<1>10. CASE E # {}
  <2>1. Max(E) \in 1..Len(uu) /\ answer.aaa = {NewAAA(Localized(u, scope))}
    <3>1. /\ n \in DOMAIN UsersOf(config, scope) /\ Max(E) \in 1..Len(uu)
          /\ UsersOf(config, scope)[n] = NewAAA(Localized(u, scope))
      BY <1>7, <1>10, UsersByName
    <3> HIDE DEF n, u, E, scope, ps, k
    <3> QED BY <1>2, <1>6, <3>1 DEF GetUser
  <2>2. u \in UserEntry
    BY <1>7, <2>1
  <2>3. Nil.type = "nil"
    BY DEF Nil, BackEnd
  <2>4. /\ Registered(a, AuthenticatorTypes) = usable(a, AuthenticatorTypes)
        /\ Registered(b, AccounterTypes) = usable(b, AccounterTypes)
    <3> HIDE DEF a, b
    <3> QED BY <2>3, BuildAssumption DEF Registered
  <2>5. LET l == Localized(u, scope)
        IN  /\ l.authenticator = a /\ l.accounter = b
            /\ l = [u EXCEPT !.scopes = <<scope>>, !.authenticator = a, !.accounter = b]
    <3> HIDE DEF u, scope
    <3> QED BY <2>2, LocalizedFields, LocalizedSettings
  <2>6. NewAAA(Localized(u, scope)) = aaa
    BY <2>4, <2>5 DEF NewAAA
  <2>7. answer.aaa = {aaa}
    BY <2>1, <2>6
  <2> QED BY <1>8, <1>10, <2>7, Zenon DEF LastEntryDecides
<1> QED BY <1>9, <1>10

LEMMA InvServes == Inv => FirstScopeServes
<1> SUFFICES ASSUME Inv, answer # None PROVE FirstScopeServes
  BY DEF FirstScopeServes
<1> DEFINE ps == BuildProviders(config)
           r == answer.remote
           k == Get(ps, r)
           ss == config.secrets
           usable == {i \in 1..Len(ss) : Usable(i, r)}
<1>1. config \in Configs
  BY DEF Inv
<1>2. PICK f : /\ Picks(f, Keep(ss, Built(config)), ss, Built(config), Len(ss))
               /\ Len(ps) = Len(Keep(ss, Built(config))) /\ Len(ps) \in Nat
               /\ \A i \in 1..Len(ps) : ps[i] = NewProvider(config, ss[f[i]])
  BY <1>1, ProvidersPick
<1>3. /\ f \in [1..Len(ps) -> 1..Len(ss)]
      /\ \A i, j \in 1..Len(ps) : i < j => f[i] < f[j]
      /\ \A i \in 1..Len(ps) : f[i] \in Built(config)
      /\ \A i \in 1..Len(ss) : i \in Built(config) => \E j \in 1..Len(ps) : f[j] = i
  BY <1>2 DEF Picks
<1>4. /\ Len(ss) \in Nat
      /\ \A i \in 1..Len(ss) : Usable(i, r) <=>
            i \in Built(config) /\ Serves(NewProvider(config, ss[i]), r)
  BY <1>1, ConfigType, UsableServes
<1>5. \A j \in 1..Len(ps) : Serves(ps[j], r) <=> f[j] \in usable
  BY <1>2, <1>3, <1>4
<1>6. \A i \in usable : \E j \in 1..Len(ps) : f[j] = i
  BY <1>3, <1>4
<1>7. /\ k = 0 <=> \A j \in 1..Len(ps) : ~Serves(ps[j], r)
      /\ k # 0 => /\ k \in 1..Len(ps) /\ Serves(ps[k], r)
                  /\ \A j \in 1..(k - 1) : ~Serves(ps[j], r)
  BY <1>2, GetFirst
<1>8. k = 0 <=> usable = {}
  BY <1>5, <1>6, <1>7
<1>9. usable \subseteq 1..Len(ss) /\ usable \subseteq Nat
  OBVIOUS
<1>10. k # 0 => f[k] = Min(usable)
  <2> SUFFICES ASSUME k # 0 PROVE f[k] = Min(usable)
    OBVIOUS
  <2> HIDE DEF usable, k
  <2>1. Min(usable) \in usable /\ \A y \in usable : Min(usable) <= y
    BY <1>8, <1>9, MinIsLeast
  <2>2. PICK j \in 1..Len(ps) : f[j] = Min(usable)
    BY <1>6, <2>1
  <2>3. k \in 1..Len(ps) /\ f[k] \in usable /\ Serves(ps[j], r)
    BY <1>5, <1>7, <2>1, <2>2
  <2>4. ~(j < k)
    BY <1>2, <1>7, <2>2, <2>3
  <2>5. f[k] <= f[j]
    BY <1>2, <1>3, <2>2, <2>3, <2>4, SMTT(20)
  <2> QED BY <1>3, <1>9, <2>1, <2>2, <2>3, <2>5
<1>11. built /\ k # 0 => /\ answer.scope = ss[Min(usable)].name
                        /\ answer.secret = ss[Min(usable)].key
  <2> SUFFICES ASSUME built, k # 0
               PROVE  answer.scope = ss[Min(usable)].name /\ answer.secret = ss[Min(usable)].key
    OBVIOUS
  <2>1. answer.scope = ps[k].scope /\ answer.secret = ps[k].secret
    BY AnswerServed
  <2>2. ps[k] = NewProvider(config, ss[f[k]])
    BY <1>2, <1>7
  <2> HIDE DEF ps, k, usable
  <2> QED BY <1>10, <2>1, <2>2, ProviderParts
<1>12. ~built \/ k = 0 => answer.scope = "" /\ answer.aaa = {}
  BY AnswerServed
<1> QED BY <1>8, <1>11, <1>12 DEF FirstScopeServes

(***************************************************************************)
(* Entries that cannot be built                                            *)
(***************************************************************************)
Good(c) == {i \in 1..Len(c.users) : ~Unusable(c.users[i])}

\* The entries of a name among the kept users are its entries among all.
LEMMA SameEntries ==
    ASSUME NEW uu \in Seq(UserEntry), NEW vv \in Seq(UserEntry), NEW f, NEW scope, NEW n,
           Picks(f, vv, uu, {i \in 1..Len(uu) : ~Unusable(uu[i])}, Len(uu))
    PROVE  LET E == EntriesIn(uu, scope, n, Len(uu))
               F == EntriesIn(vv, scope, n, Len(vv))
           IN  /\ E = {} <=> F = {}
               /\ E # {} => vv[Max(F)] = uu[Max(E)]
<1> DEFINE E == EntriesIn(uu, scope, n, Len(uu))
           F == EntriesIn(vv, scope, n, Len(vv))
<1>1. Len(uu) \in Nat /\ Len(vv) \in Nat
  OBVIOUS
<1>2. /\ f \in [1..Len(vv) -> 1..Len(uu)]
      /\ \A j, k \in 1..Len(vv) : j < k => f[j] < f[k]
      /\ \A k \in 1..Len(vv) : vv[k] = uu[f[k]]
      /\ \A i \in 1..Len(uu) : ~Unusable(uu[i]) => \E k \in 1..Len(vv) : f[k] = i
  BY DEF Picks
<1>3. \A k \in F : f[k] \in E
  BY <1>2 DEF EntriesIn
<1>4. \A i \in E : \E k \in F : f[k] = i
  BY <1>2 DEF EntriesIn, Stands
<1>5. /\ E \subseteq 1..Len(uu) /\ E \subseteq 0..Len(uu)
      /\ F \subseteq 1..Len(vv) /\ F \subseteq 0..Len(vv)
  BY <1>1 DEF EntriesIn
<1> HIDE DEF E, F
<1>6. E = {} <=> F = {}
  BY <1>3, <1>4
<1>7. ASSUME E # {} PROVE vv[Max(F)] = uu[Max(E)]
  <2> DEFINE p == Max(E)
             q == Max(F)
  <2>1. p \in E /\ \A y \in E : p >= y
    BY <1>1, <1>5, <1>7, MaxIsGreatest
  <2>2. q \in F /\ \A y \in F : q >= y
    BY <1>1, <1>5, <1>6, <1>7, MaxIsGreatest
  <2> HIDE DEF p, q
  <2>3. PICK k \in F : f[k] = p
    BY <1>4, <2>1
  <2>4. f[q] \in E /\ p >= f[q] /\ q >= k
    BY <1>3, <2>1, <2>2
  <2>5. p \in Int /\ q \in 1..Len(vv) /\ k \in 1..Len(vv) /\ f[q] \in Int
    <3>1. p \in 1..Len(uu) /\ f[q] \in 1..Len(uu)
      BY <1>5, <2>1, <2>4
    <3>2. q \in 1..Len(vv) /\ k \in 1..Len(vv)
      BY <1>5, <2>2, <2>3
    <3> QED BY <3>1, <3>2
  <2>6. k = q \/ f[k] < f[q]
    BY <1>1, <1>2, <2>4, <2>5
  <2>7. f[q] = p
    BY <2>3, <2>4, <2>5, <2>6
  <2> QED BY <1>2, <2>5, <2>7 DEF p, q
<1> QED BY <1>6, <1>7 DEF E, F

LEMMA CleanedUsers ==
    ASSUME NEW c \in Configs, NEW scope
    PROVE  UsersOf(Cleaned(c), scope) = UsersOf(c, scope)
<1> DEFINE uu == c.users
           vv == Keep(uu, Good(c))
           E(n) == EntriesIn(uu, scope, n, Len(uu))
           F(n) == EntriesIn(vv, scope, n, Len(vv))
<1>1. Cleaned(c).users = vv
  BY DEF Cleaned, Good
<1>2. uu \in Seq(UserEntry)
  BY ConfigType
<1>3. vv \in Seq(UserEntry) /\ \E f : Picks(f, vv, uu, Good(c), Len(uu))
  BY <1>2, KeepPicks
<1>4. UsersOf(c, scope) = LastOnes(uu, scope, Len(uu))
  BY <1>2, UsersAreLastOnes
<1>5. UsersOf(Cleaned(c), scope) = LastOnes(vv, scope, Len(vv))
  BY <1>1, <1>3, UsersAreLastOnes
<1>6. \A n : (E(n) = {} <=> F(n) = {}) /\ (E(n) # {} => vv[Max(F(n))] = uu[Max(E(n))])
  <2>1. Good(c) = {i \in 1..Len(uu) : ~Unusable(uu[i])}
    BY DEF Good
  <2> HIDE DEF uu, vv
  <2> QED BY <1>2, <1>3, <2>1, SameEntries
<1> HIDE DEF E, F, uu, vv
<1>7. LastOnes(uu, scope, Len(uu)) =
          [n \in {m \in Text : E(m) # {}} |-> NewAAA(Localized(uu[Max(E(n))], scope))]
  BY DEF LastOnes, E
<1>8. LastOnes(vv, scope, Len(vv)) =
          [n \in {m \in Text : F(m) # {}} |-> NewAAA(Localized(vv[Max(F(n))], scope))]
  BY DEF LastOnes, F
<1> QED BY <1>4, <1>5, <1>6, <1>7, <1>8

LEMMA CleanedProviders ==
    ASSUME NEW c \in Configs
    PROVE  BuildProviders(Cleaned(c)) = BuildProviders(c)
<1> DEFINE d == Cleaned(c)
           kept == Keep(c.secrets, Built(c))
<1>1. d.secrets = kept
  BY DEF Cleaned, Built
<1>2. kept \in Seq(SecretEntry) /\ \E f : Picks(f, kept, c.secrets, Built(c), Len(c.secrets))
  BY ConfigType, KeepPicks
<1>3. \A scope : UsersOf(d, scope) = UsersOf(c, scope)
  BY CleanedUsers
<1> HIDE DEF d, kept
<1>4. \A s : Skipped(d, s) <=> Skipped(c, s)
  BY <1>3 DEF Skipped
<1>5. \A s : NewProvider(d, s) = NewProvider(c, s)
  BY <1>3 DEF NewProvider
<1>6. \A k \in 1..Len(kept) : ~Skipped(c, kept[k])
  BY <1>2 DEF Picks, Built
<1>7. \A k \in 1..Len(kept) : k \in Built(d)
  BY <1>1, <1>4, <1>6 DEF Built
<1>8. Keep(d.secrets, Built(d)) = kept
  BY <1>1, <1>2, <1>7, KeepAll
<1>9. BuildProviders(c) = [i \in 1..Len(kept) |-> NewProvider(c, kept[i])]
  BY DEF BuildProviders, Built, kept
<1>10. BuildProviders(d) = [i \in 1..Len(kept) |-> NewProvider(d, kept[i])]
  BY <1>8 DEF BuildProviders, Built
<1> QED BY <1>5, <1>9, <1>10 DEF d

LEMMA InvNoEffect == Inv => BadEntriesHaveNoEffect
BY CleanedProviders DEF Inv, BadEntriesHaveNoEffect

(***************************************************************************)
(* Theorems                                                                *)
(***************************************************************************)
\* The providers always are what build makes of the configuration, and an answer
\* is what they say (updates and Loader.get).
THEOREM InvHolds == Spec => []Inv
BY InitInv, NextInv, PTL DEF Spec

\* In every scope a name has the back ends of its last usable entry, whatever
\* other entries, groups and scopes the configuration has (the user loop of build).
THEOREM LastEntryWins == Spec => []LastEntryDecides
BY InvHolds, InvDecides, PTL

\* A client is served by the first secret config that can be built and covers it,
\* and fails closed when there is none (build and Loader.get).
THEOREM FirstScopeWins == Spec => []FirstScopeServes
BY InvHolds, InvServes, PTL

\* A user or a secret config that cannot be built has no effect on what is built
\* of the others ("best effort", build).
THEOREM BadEntriesAreIgnored == Spec => []BadEntriesHaveNoEffect
BY InvHolds, InvNoEffect, PTL

=============================================================================
