----------------------------- MODULE MCStringy -----------------------------
(***************************************************************************)
(* A small instance of Stringy: users with up to two entries of their own  *)
(* and one from each of up to two groups, and requests of up to three      *)
(* arguments.                                                              *)
(***************************************************************************)
EXTENDS Stringy

MCText == STRING

Cond(name, value) == [name |-> name, values |-> <<value>>, optional |-> FALSE]

Value(name, values, optional) == [name |-> name, values |-> values, optional |-> optional]

Entry(name, match, setValues) == [name |-> name, match |-> match, setValues |-> setValues]

Admin == Value("priv-lvl", <<"15">>, FALSE)
Guest == Value("priv-lvl", <<"1">>, FALSE)
Roles == Value("roles", <<"ops", "dev">>, TRUE)

\* Entries without a condition, on the scope, on an empty value, on two things
\* at once, and on what only another service has.
Services ==
    {Entry("shell", <<>>, <<Admin>>),
     Entry(" shell", <<Cond("scope", "prod")>>, <<Roles, Admin>>),
     Entry("shell", <<Cond("scope", "test"), Cond("cmd", "")>>, <<Guest>>),
     Entry("ppp", <<Cond("protocol", "ip")>>, <<Guest, Admin>>)}

Rules ==
    {[name |-> n, match |-> m, action |-> a] :
        n \in {"show"}, m \in {<<>>, <<"a", " b">>, <<"(", "a">>, <<"a", "(">>},
        a \in {"PERMIT", "DENY"}}
    \cup {[name |-> "* ", match |-> <<>>, action |-> a] : a \in {"PERMIT", "UNSET"}}

User(services, commands, groups, scope) ==
    [services |-> services, commands |-> commands, groups |-> groups, scopes |-> <<scope>>]

Group(services, commands) == [services |-> services, commands |-> commands]

MCConfigs ==
    {User(own, <<>>, <<Group(g, <<>>)>>, scope) :
        own \in BoundedSeq(Services, 2), g \in BoundedSeq(Services, 1),
        scope \in {"prod", "test"}}
    \cup {User(<<>>, own, <<Group(<<>>, g), Group(<<>>, h)>>, "prod") :
        own \in BoundedSeq(Rules, 1), g \in BoundedSeq(Rules, 1), h \in BoundedSeq(Rules, 1)}

CmdArgs == {Arg("cmd-arg", "=", <<w>>) : w \in {"a", "b"}}

\* service=shell, shell*, service=ppp, protocol=ip, cmd=, cmd* and a word.
SessionArgs ==
    {Arg("service", "=", <<"shell">>), Arg("shell", "*", <<>>), Arg("service", "=", <<"ppp">>),
     Arg("protocol", "=", <<"ip">>), Arg("cmd", "=", <<>>), Arg("cmd", "*", <<>>),
     Arg("ppp", "", <<>>)}

\* Commands with their arguments, with a cmd* first, and for another service.
CommandRequests ==
    {<<Arg("service", "=", <<"shell">>), Arg("cmd", "=", <<c>>)>> \o q :
        c \in {"show", "clear"}, q \in BoundedSeq(CmdArgs, 2)}
    \cup {<<Arg("cmd", sep, <<"show">>), Arg("service", "=", <<s>>)>> :
        sep \in {"=", "*"}, s \in {"shell", "ppp"}}

MCRequests == BoundedSeq(SessionArgs, 2) \cup CommandRequests
    \cup {<<Arg("service", "=", <<"shell">>)>> \o q \o <<Arg("protocol", "=", <<"ip">>)>> :
        q \in BoundedSeq(SessionArgs, 1)}

MCTrim ==
    [t \in {" shell", " b", "* ", "shell", "ppp", "show", "a", "("} |->
        CASE t = " shell" -> "shell" [] t = " b" -> "b" [] t = "* " -> "*" [] OTHER -> t]

MCCompiles == {"a", "b"}

\* A pattern of one word matches where the word occurs.
MCMatching == {x \in MCCompiles \X BoundedSeq({"a", "b"}, 2) : Contains(x[2], x[1])}

=============================================================================
