------------------------------ MODULE MCBuild ------------------------------
(***************************************************************************)
(* Small configurations for Build: up to three entries of users, with      *)
(* duplicates, groups and back ends of every kind, and two secret configs. *)
(***************************************************************************)
EXTENDS Build

MCText == STRING

Bcrypt(id) == BackEnd("BCRYPT", TRUE, id)
Keyless(id) == BackEnd("BCRYPT", FALSE, id)
Sha512 == BackEnd("SHA512", TRUE, 9)
File(id) == BackEnd("FILE", TRUE, id)
Syslog == BackEnd("SYSLOG", TRUE, 9)

Group(authenticator, accounter) ==
    [authenticator |-> authenticator, accounter |-> accounter]

User(name, scopes, authenticator, accounter, groups) ==
    [name |-> name, scopes |-> scopes, authenticator |-> authenticator,
     accounter |-> accounter, groups |-> groups]

Groups ==
    {<<>>, <<Group(Nil, File(3)), Group(Bcrypt(3), Syslog)>>,
     <<Group(Sha512, Nil), Group(Bcrypt(4), File(4))>>, <<Group(Keyless(5), Nil)>>}

\* The user without a name is the only one bcrypt refuses.
MCUsers ==
    {User(n, s, a, f, g) :
        n \in {"", "alice"}, s \in {<<"s1">>, <<"s2", "s1">>},
        a \in {Nil, Keyless(1), Sha512}, f \in {Nil, File(1)}, g \in Groups}

Few ==
    {User(n, <<"s1">>, a, Nil, <<>>) : n \in {"", "alice"}, a \in {Bcrypt(7), Keyless(8)}}

Secret(name, handler, type, prefixes, key) ==
    [name |-> name, handler |-> handler, type |-> type, prefixes |-> prefixes, key |-> key]

\* Overlapping prefixes, one that does not parse, none, and types that are not
\* registered.
MCSecrets ==
    {Secret("s1", "START", "PREFIX", p, "k1") : p \in {<<"wide">>, <<"bad", "narrow">>, <<>>}}
    \cup {Secret("s1", "SPAN", "PREFIX", <<"wide">>, "k2"),
          Secret("s2", "START", "DNS", <<"wide">>, "k3"),
          Secret("s2", "START", "PREFIX", <<"narrow", "wide">>, "k4")}

UserLists == {<<u>> : u \in MCUsers} \cup {<<u, v>> : u \in Few, v \in MCUsers}
             \cup {<<u, v, w>> : u \in Few, v \in Few, w \in Few}

SecretLists == {<<s, t>> : s \in MCSecrets, t \in MCSecrets}

MCConfigs == {[users |-> u, secrets |-> s] : u \in UserLists, s \in SecretLists}

MCCovers == {<<"wide", "r1">>, <<"wide", "r2">>, <<"narrow", "r1">>}

=============================================================================
