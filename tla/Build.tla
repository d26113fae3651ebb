------------------------------- MODULE Build -------------------------------
(***************************************************************************)
(* How a configuration becomes what the server asks when a client connects *)
(* (Loader.build in loader.go): for every secret config, called a scope,   *)
(* the users of that scope with their back ends, and a provider that knows *)
(* the clients of the scope by their prefixes (secret/prefix/provider.go). *)
(* Loader.get then looks for the provider of a client.                     *)
(*                                                                         *)
(* What is injected into the loader is what cmds/server injects: the       *)
(* static keychain, stringy, bcrypt and the prefix provider.  A back end   *)
(* is known by its type, whether bcrypt finds a hash or a key in its       *)
(* options, and an id that tells it from others.                           *)
(***************************************************************************)
EXTENDS Integers, Lists, SequencesExt

CONSTANTS
    Text,               \* strings
    Configs,            \* configurations: records of secrets and users
    Remote,             \* client addresses
    Name,               \* user names a client may give
    Covers,             \* the <<prefix, address>> pairs of net.IPNet.Contains
    Parses,             \* the prefixes net.ParseCIDR accepts
    AuthenticatorTypes, AccounterTypes, HandlerTypes, ProviderTypes \* registered

\* Users, groups and secret configs of config/types.go, as far as build reads them.
BackEndEntry == [type : Text, keyed : BOOLEAN, id : Nat]

GroupEntry == [authenticator : BackEndEntry, accounter : BackEndEntry]

UserEntry ==
    [name : Text, scopes : Seq(Text), authenticator : BackEndEntry,
     accounter : BackEndEntry, groups : Seq(GroupEntry)]

SecretEntry ==
    [name : Text, handler : Text, type : Text, prefixes : Seq(Text), key : Text]

\* "nil" stands for a back end that is not configured, which is of no type.
ASSUME BuildAssumption ==
    /\ Configs \subseteq [users : Seq(UserEntry), secrets : Seq(SecretEntry)]
    /\ "nil" \notin AuthenticatorTypes \cup AccounterTypes

BackEnd(type, keyed, id) == [type |-> type, keyed |-> keyed, id |-> id]

Nil == BackEnd("nil", FALSE, 0)

\* NewAAA: the back ends that deny everything.
Default == BackEnd("default", FALSE, 0)

VARIABLES
    config,     \* the configuration updates has received
    built,      \* build has run
    providers,  \* the providers of the updates goroutine
    answer      \* the last answer to a client, or None

vars == <<config, built, providers, answer>>

None == [remote |-> "none", name |-> "", scope |-> "", secret |-> "", aaa |-> {}]

(***************************************************************************)
(* A user in a scope                                                       *)
(***************************************************************************)
HasScope(u, scope) == Contains(u.scopes, scope)

\* What the loop of reduceAuthenticatorAccounterFromGroups finds.
FirstOfGroups(u, field) ==
    LET i == SelectInSeq(u.groups, LAMBDA g : g[field] # Nil)
    IN  IF i = 0 THEN Nil ELSE u.groups[i][field]

ReduceFromGroups(u) ==
    [u EXCEPT !.authenticator = IF @ # Nil THEN @ ELSE FirstOfGroups(u, "authenticator"),
              !.accounter = IF @ # Nil THEN @ ELSE FirstOfGroups(u, "accounter")]

\* bcrypt New, supportedOptions.validate: the user name is the default key.
FactoryFails(u) ==
    u.authenticator.type \in AuthenticatorTypes /\ ~u.authenticator.keyed /\ u.name = ""

Registered(b, types) == IF b # Nil /\ b.type \in types THEN b ELSE Default

\* The AAA of a user; its authorizer is stringy for the user as it is here.
NewAAA(u) ==
    [authenticator |-> Registered(u.authenticator, AuthenticatorTypes),
     accounter |-> Registered(u.accounter, AccounterTypes),
     authorizer |-> u]

Localized(u, scope) == ReduceFromGroups([u EXCEPT !.scopes = <<scope>>])

\* users[n] = a
Put(users, n, a) == [m \in DOMAIN users \cup {n} |-> IF m = n THEN a ELSE users[m]]

\* Fault: the first entry of a name stays.
AddUserFirst(users, u, scope) ==
    LET l == Localized(u, scope) IN
    IF ~HasScope(u, scope) \/ FactoryFails(l) \/ u.name \in DOMAIN users THEN users
    ELSE Put(users, u.name, NewAAA(l))

\* Fault: an authenticator that cannot be made takes back earlier entries.
AddUserDrops(users, u, scope) ==
    LET l == Localized(u, scope) IN
    IF ~HasScope(u, scope) THEN users
    ELSE IF FactoryFails(l) THEN [n \in DOMAIN users \ {u.name} |-> users[n]]
    ELSE Put(users, u.name, NewAAA(l))

\* One round of the loop over the users.  A later entry replaces an earlier one
\* of the same name, unless its authenticator cannot be made.
AddUser(users, u, scope) ==
    LET l == Localized(u, scope) IN
    IF ~HasScope(u, scope) \/ FactoryFails(l) THEN users
    ELSE Put(users, u.name, NewAAA(l))

\* The users after each round.
UsersUpTo(c, scope) ==
    LET users[i \in 0..Len(c.users)] ==
            IF i = 0 THEN <<>> ELSE AddUser(users[i - 1], c.users[i], scope)
    IN  users

UsersOf(c, scope) == UsersUpTo(c, scope)[Len(c.users)]

(***************************************************************************)
(* Scopes                                                                  *)
(***************************************************************************)
\* The scopes build skips: no users, no handler, no provider type, or a prefix
\* provider that finds no prefixes in the options.
Skipped(c, s) ==
    \/ DOMAIN UsersOf(c, s.name) = {}
    \/ s.handler \notin HandlerTypes
    \/ s.type \notin ProviderTypes
    \/ s.prefixes = <<>>

\* SetPrefixSecret keeps the prefixes that parse, perhaps none.
NewProvider(c, s) ==
    [scope |-> s.name, secret |-> s.key, users |-> UsersOf(c, s.name),
     prefixes |-> Range(s.prefixes) \cap Parses]

BuildProviders(c) ==
    LET kept == Keep(c.secrets, {i \in 1..Len(c.secrets) : ~Skipped(c, c.secrets[i])})
    IN  [i \in 1..Len(kept) |-> NewProvider(c, kept[i])]

(***************************************************************************)
(* Answering a client                                                      *)
(***************************************************************************)
\* Provider.Get of a prefix provider: the first prefix in the order of a Go map,
\* which is any order; all have the same secret and handler.
Serves(p, r) == \E x \in p.prefixes : <<x, r>> \in Covers

\* Fault: the last provider that matches answers.
GetLast(ps, r) == SelectLastInSeq(ps, LAMBDA p : Serves(p, r))

\* Loader.get: the first provider that knows the client, 0 if none does.
Get(ps, r) == SelectInSeq(ps, LAMBDA p : Serves(p, r))

\* Provider.GetUser of the scope's users, nil for an unknown name.
GetUser(p, n) == IF n \in DOMAIN p.users THEN {p.users[n]} ELSE {}

AnswerTo(ps, r, n) ==
    LET i == Get(ps, r) IN
    IF i = 0 THEN [None EXCEPT !.remote = r, !.name = n]
    ELSE [remote |-> r, name |-> n, scope |-> ps[i].scope,
          secret |-> ps[i].secret, aaa |-> GetUser(ps[i], n)]

(***************************************************************************)
(* Specification                                                           *)
(***************************************************************************)
Init ==
    /\ config \in Configs
    /\ built = FALSE
    /\ providers = <<>>
    /\ answer = None

\* A configuration arrives at updates.
Update ==
    /\ ~built /\ answer = None
    /\ built' = TRUE
    /\ providers' = BuildProviders(config)
    /\ UNCHANGED <<config, answer>>

\* A client connects and names a user.
Query(r, n) ==
    /\ answer = None
    /\ answer' = AnswerTo(providers, r, n)
    /\ UNCHANGED <<config, built, providers>>

Answered ==
    /\ answer # None
    /\ answer' = None
    /\ UNCHANGED <<config, built, providers>>

Next == Update \/ Answered \/ \E r \in Remote, n \in Name : Query(r, n)

Spec == Init /\ [][Next]_vars

-----------------------------------------------------------------------------
(***************************************************************************)
(* Properties                                                              *)
(***************************************************************************)
\* A setting of a user: the user's own or that of the first group with one.
Setting(u, field) ==
    IF u[field] # Nil THEN u[field]
    ELSE LET having == {i \in 1..Len(u.groups) : u.groups[i][field] # Nil}
         IN  IF having = {} THEN Nil ELSE u.groups[Min(having)][field]

Unusable(u) ==
    LET a == Setting(u, "authenticator")
    IN  u.name = "" /\ ~a.keyed /\ a.type \in AuthenticatorTypes

\* The entries of the configuration that stand for a name in a scope.
Entries(scope, n) ==
    {i \in 1..Len(config.users) :
        LET u == config.users[i]
        IN  u.name = n /\ scope \in Range(u.scopes) /\ ~Unusable(u)}

\* types.go, User: "All items on the user level will overwrite any settings
\* provided by any inherited groups."  In every scope a name has the back ends of
\* its last usable entry: that entry's own, else those of the first of its groups
\* that has one, else, or when nothing is registered for the type, the default
\* that denies.  Nothing comes from other entries, other scopes or other groups.
LastEntryDecides ==
    answer.scope # "" =>
        LET entries == Entries(answer.scope, answer.name)
            u == config.users[Max(entries)]
            usable(b, types) == IF b.type \in types THEN b ELSE Default
        IN  answer.aaa =
                IF entries = {} THEN {}
                ELSE {[authenticator |-> usable(Setting(u, "authenticator"), AuthenticatorTypes),
                       accounter |-> usable(Setting(u, "accounter"), AccounterTypes),
                       authorizer |-> [u EXCEPT !.scopes = <<answer.scope>>,
                                                !.authenticator = Setting(u, "authenticator"),
                                                !.accounter = Setting(u, "accounter")]]}

\* Whether secret config i can be built and covers a client.
Usable(i, r) ==
    LET s == config.secrets[i] IN
    /\ \E j \in 1..Len(config.users) : j \in Entries(s.name, config.users[j].name)
    /\ s.handler \in HandlerTypes /\ s.type \in ProviderTypes
    /\ \E x \in Range(s.prefixes) \cap Parses : <<x, r>> \in Covers

\* A client is served by the first secret config that can be built and covers it,
\* with the secret of that config, and by nothing when there is none or before
\* the first build: "all client calls to the service will fail closed" (build).
FirstScopeServes ==
    answer # None =>
        LET usable == {i \in 1..Len(config.secrets) : Usable(i, answer.remote)}
        IN  IF ~built \/ usable = {} THEN answer.scope = "" /\ answer.aaa = {}
            ELSE /\ answer.scope = config.secrets[Min(usable)].name
                 /\ answer.secret = config.secrets[Min(usable)].key

\* The configuration without the users and the secret configs that cannot be built.
Cleaned(c) ==
    [users |-> Keep(c.users, {i \in 1..Len(c.users) : ~Unusable(c.users[i])}),
     secrets |-> Keep(c.secrets, {i \in 1..Len(c.secrets) : ~Skipped(c, c.secrets[i])})]

\* "Build is best effort under all circumstances" (build): an entry that cannot be
\* built has no effect at all, neither on other entries nor on an earlier entry of
\* the same name; the providers are those of the configuration without it.
BadEntriesHaveNoEffect ==
    built => providers = BuildProviders(Cleaned(config))

=============================================================================
