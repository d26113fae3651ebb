------------------------------ MODULE Stringy ------------------------------
(***************************************************************************)
(* The stringy authorizer (cmds/server/config/authorizers/stringy): how    *)
(* the commands and services of a user, and of the user's groups, decide   *)
(* an authorization request.                                               *)
(*                                                                         *)
(* An argument is a record of attribute, separator and value, without the  *)
(* white space around it, which every reader of it trims.  A value is a    *)
(* sequence of words, <<>> for the empty string, because the program only  *)
(* ever joins values with spaces and compares them.  An argument without   *)
(* a separator has sep = "" and its text as attribute.                     *)
(***************************************************************************)
EXTENDS Integers, Lists, SequencesExt

CONSTANTS
    Text,       \* strings
    Configs,    \* the users a configuration can have, localized to a scope
    Requests,   \* the argument lists a client can send
    Trim,       \* strings.TrimSpace, on the strings of Configs
    Compiles,   \* the patterns that are valid regular expressions
    Matching    \* the <<pattern, words>> pairs regexp.MatchString accepts

\* Arguments; values, services, commands and users of config/types.go.
Words == Seq(Text)

Argument == [a : Text, sep : Text, v : Words]

ValueEntry == [name : Text, values : Words, optional : BOOLEAN]

ServiceEntry == [name : Text, match : Seq(ValueEntry), setValues : Seq(ValueEntry)]

\* "next" is not an action: it is how the loop over the commands goes on.
CommandEntry == [name : Text, match : Seq(Text), action : Text \ {"next"}]

GroupEntry == [services : Seq(ServiceEntry), commands : Seq(CommandEntry)]

UserEntry ==
    [services : Seq(ServiceEntry), commands : Seq(CommandEntry),
     groups : Seq(GroupEntry), scopes : Seq(Text)]

\* The loader has left a user the scope it builds for and no other.  An empty
\* cmd-arg would add a second space to the joined string, which sequences of
\* words cannot tell.
ASSUME StringyAssumption ==
    /\ {"scope", "no-scope-set", "=", "*"} \subseteq Text
    /\ Configs \subseteq {u \in UserEntry : Len(u.scopes) = 1}
    /\ Requests \subseteq Seq(Argument)
    /\ \A r \in Requests : \A i \in 1..Len(r) : r[i].a = "cmd-arg" => r[i].v # <<>>

VARIABLES
    config,     \* the user as configured
    user,       \* Authorizer.user: the user after ReduceAll
    request,    \* the arguments of the request in hand
    reply       \* the reply to it, None between requests

vars == <<config, user, request, reply>>

Arg(a, sep, v) == [a |-> a, sep |-> sep, v |-> v]

None == [status |-> "none", args |-> <<>>]

(***************************************************************************)
(* Arguments (authorize_fields.go)                                         *)
(***************************************************************************)
Word(text) == IF text = "" THEN <<>> ELSE <<text>>

ASV(arg) == IF arg.sep = "" THEN Arg("", "", <<>>) ELSE arg

\* Index of the first, or last, argument with this attribute, 0 if none.
First(args, attribute) == SelectInSeq(args, LAMBDA x : ASV(x).a = attribute)

LastOf(args, attribute) == SelectLastInSeq(args, LAMBDA x : ASV(x).a = attribute)

\* Args.Service, Args.Command and Args.CommandSplit take the first argument.
Service(args) ==
    IF First(args, "service") = 0 THEN <<>> ELSE args[First(args, "service")].v

CommandSplit(args) ==
    IF First(args, "cmd") = 0 THEN Arg("", "", <<>>) ELSE args[First(args, "cmd")]

Command(args) == CommandSplit(args).v

CommandArgs(args) ==
    FlattenSeq([i \in 1..Len(args) |->
                   IF ASV(args[i]).a = "cmd-arg" THEN args[i].v ELSE <<>>])

\* Fault: only neighbours are compared.
UniqueNeighbours(args) ==
    Keep(args, {i \in 1..Len(args) : i = 1 \/ args[i - 1] # args[i]})

\* Args.Unique: the first of equal arguments stays.
Unique(args) ==
    Keep(args, {i \in 1..Len(args) : \A j \in 1..(i - 1) : args[j] # args[i]})

(***************************************************************************)
(* ReduceAll                                                               *)
(***************************************************************************)
\* Fault: the rules of the groups come before those of the user.
ReduceAllGroupsFirst(u) ==
    [u EXCEPT !.services = FlattenSeq([i \in 1..Len(u.groups) |-> u.groups[i].services]) \o @,
              !.commands = FlattenSeq([i \in 1..Len(u.groups) |-> u.groups[i].commands]) \o @]

\* User level services and commands first, then those of the groups in order.
ReduceAll(u) ==
    [u EXCEPT !.services = @ \o FlattenSeq([i \in 1..Len(u.groups) |-> u.groups[i].services]),
              !.commands = @ \o FlattenSeq([i \in 1..Len(u.groups) |-> u.groups[i].commands])]

(***************************************************************************)
(* Command based authorization (command.go)                                *)
(***************************************************************************)
CommandBased(args) ==
    LET c == CommandSplit(args) IN
    Service(args) = <<"shell">> /\ c.a = "cmd" /\ c.sep = "=" /\ c.v # <<>>

Stops(p, words) == Trim[p] \notin Compiles \/ <<Trim[p], words>> \in Matching

\* Fault: a pattern that is not a regular expression counts as a match.
RuleOpen(c, args) ==
    LET words == CommandArgs(args)
        hit == SelectInSeq(c.match, LAMBDA p : Stops(p, words))
    IN  IF Trim[c.name] = "*" THEN c.action
        ELSE IF Word(Trim[c.name]) # Command(args) THEN "next"
        ELSE IF c.match = <<>> THEN c.action
        ELSE IF hit = 0 THEN "next"
        ELSE c.action

\* What one rule says: an action, or "next" when it does not apply.  The
\* patterns are tried in order; a bad one denies.
Rule(c, args) ==
    LET words == CommandArgs(args)
        hit == SelectInSeq(c.match, LAMBDA p : Stops(p, words))
    IN  IF Trim[c.name] = "*" THEN c.action
        ELSE IF Word(Trim[c.name]) # Command(args) THEN "next"
        ELSE IF c.match = <<>> THEN c.action
        ELSE IF hit = 0 THEN "next"
        ELSE IF Trim[c.match[hit]] \notin Compiles THEN "DENY"
        ELSE c.action

\* CommandBasedAuthorizer.evaluate: the loop over the commands returns at the
\* first that applies.
CommandEvaluate(u, args) ==
    LET i == SelectInSeq(u.commands, LAMBDA c : Rule(c, args) # "next")
    IN  i # 0 /\ Rule(u.commands[i], args) = "PERMIT"

(***************************************************************************)
(* Session based authorization (session.go)                                *)
(***************************************************************************)
\* Value.String
ValueString(v) == Arg(v.name, IF v.optional THEN "*" ELSE "=", v.values)

\* serviceMatcher: the last argument with the name has every listed value.
ServiceMatcher(args, matchers) ==
    \A i \in 1..Len(matchers) :
        LET last == LastOf(args, matchers[i].name) IN
        /\ last # 0
        /\ \A j \in 1..Len(matchers[i].values) :
              ASV(args[last]).v = Word(matchers[i].values[j])

\* An argument names a service by its attribute or by its value.
Names(arg, s) == ASV(arg).a = Trim[s.name] \/ ASV(arg).v = Word(Trim[s.name])

SetValues(s) == [i \in 1..Len(s.setValues) |-> ValueString(s.setValues[i])]

\* serviceMatcherModifier: the arguments to send back.
Matched(args, s) ==
    FlattenSeq([i \in 1..Len(args) |->
        IF Names(args[i], s) /\ ServiceMatcher(args, s.match) THEN SetValues(s) ELSE <<>>])

\* Fault: optional values are only noticed where there are no conditions.
OptionalLess(args, s) ==
    \E i \in 1..Len(args) :
        /\ Names(args[i], s)
        /\ \/ ASV(args[i]).a # "cmd" /\ ASV(args[i]).sep = "*"
           \/ /\ s.match = <<>>
              /\ \E j \in 1..Len(s.setValues) : s.setValues[j].optional

\* serviceMatcherModifier: whether the client or the configuration said "*".
Optional(args, s) ==
    \E i \in 1..Len(args) :
        /\ Names(args[i], s)
        /\ \/ ASV(args[i]).a # "cmd" /\ ASV(args[i]).sep = "*"
           \/ /\ ServiceMatcher(args, s.match)
              /\ \E j \in 1..Len(s.setValues) : s.setValues[j].optional

GetLocalizedScope(u) ==
    Arg("scope", "=", IF u.scopes = <<>> THEN <<"no-scope-set">> ELSE Word(u.scopes[1]))

\* Fault: the user's scope is not among the arguments.
ArgsUnscoped(u, args) == Unique(args)

\* The client's arguments with the user's scope added, without duplicates.
ArgsWithScope(u, args) == Unique(Append(args, GetLocalizedScope(u)))

\* evaluate, before the status: what every service of the user adds.
ResponseArgs(u, args) ==
    Unique(FlattenSeq([i \in 1..Len(u.services) |-> Matched(args, u.services[i])]))

\* Fault: a session for which nothing is set passes as well.
SessionReplyAlways(u, clientArgs) ==
    LET args == ArgsWithScope(u, clientArgs)
        optional == \E i \in 1..Len(u.services) : Optional(args, u.services[i])
    IN  [status |-> IF optional THEN "PassRepl" ELSE "PassAdd", args |-> ResponseArgs(u, args)]

\* SessionBasedAuthorizer.Handle and evaluate
SessionReply(u, clientArgs) ==
    LET args == ArgsWithScope(u, clientArgs)
        optional == \E i \in 1..Len(u.services) : Optional(args, u.services[i])
    IN  IF ResponseArgs(u, args) = <<>> THEN [status |-> "Fail", args |-> <<>>]
        ELSE [status |-> IF optional THEN "PassRepl" ELSE "PassAdd",
              args |-> ResponseArgs(u, args)]

(***************************************************************************)
(* Specification                                                           *)
(***************************************************************************)
\* CommandBasedAuthorizer.Handle
CommandReply(u, args) ==
    [status |-> IF CommandEvaluate(u, args) THEN "PassAdd" ELSE "Fail", args |-> <<>>]

Reply(u, args) == IF CommandBased(args) THEN CommandReply(u, args) ELSE SessionReply(u, args)

\* Authorizer.New
Init ==
    /\ config \in Configs
    /\ user = ReduceAll(config)
    /\ request = <<>>
    /\ reply = None

\* Authorizer.Handle.  AuthorizeRequest has decoded the body and found this
\* authorizer under the user name in it, so neither of the checks at the
\* start of Handle can fail.
Handle(args) ==
    /\ reply = None
    /\ request' = args
    /\ reply' = Reply(user, args)
    /\ UNCHANGED <<config, user>>

\* The reply is out and the next request may come.
Replied ==
    /\ reply # None
    /\ request' = <<>>
    /\ reply' = None
    /\ UNCHANGED <<config, user>>

Next == Replied \/ \E args \in Requests : Handle(args)

Spec == Init /\ [][Next]_vars

(***************************************************************************)
(* Properties                                                              *)
(***************************************************************************)
\* All services and commands that apply to the user, wherever they come from.
AllServices == Range(config.services) \cup UNION {Range(g.services) : g \in Range(config.groups)}

\* A reply has one of the statuses of authorization, its arguments are set
\* values of the configuration (session.go evaluate), and a session passes exactly
\* with arguments (session.go Handle): one for which nothing is set fails.
TypeOK ==
    /\ reply.status \in {"none", "PassAdd", "PassRepl", "Fail"}
    /\ Range(reply.args) \subseteq UNION {Range(SetValues(s)) : s \in AllServices}
    /\ reply.status \in {"none", "Fail"} => reply.args = <<>>
    /\ reply # None /\ reply.args = <<>> /\ ~CommandBased(request) => reply.status = "Fail"

\* Whether a rule is about this command, and whether it settles it.
Concerns(c, args) == Trim[c.name] = "*" \/ Word(Trim[c.name]) = Command(args)

Unconditional(c) == Trim[c.name] = "*" \/ c.match = <<>>

Fits(p, args) == Trim[p] \in Compiles /\ <<Trim[p], CommandArgs(args)>> \in Matching

Settles(c, args) ==
    /\ Concerns(c, args)
    /\ \/ Unconditional(c)
       \/ \E p \in Range(c.match) : Trim[p] \notin Compiles \/ Fits(p, args)

Permits(c, args) ==
    /\ Concerns(c, args)
    /\ c.action = "PERMIT"
    /\ \/ Unconditional(c)
       \/ \E j \in 1..Len(c.match) :
             /\ Fits(c.match[j], args)
             /\ \A k \in 1..(j - 1) : Trim[c.match[k]] \in Compiles

\* A command is permitted exactly if the first rule that settles it permits
\* it: no later rule widens or narrows what an earlier one said, a pattern
\* that is not a regular expression denies, and so does having no rule
\* (command.go evaluate).
FirstRuleDecides ==
    reply # None /\ CommandBased(request) =>
        (reply.status = "PassAdd" <=>
            \E i \in 1..Len(user.commands) :
                /\ Permits(user.commands[i], request)
                /\ \A k \in 1..(i - 1) : ~Settles(user.commands[k], request))

\* What the user's own entries say comes before the groups (stringy.go New):
\* a command that a rule of the user settles is answered as if there were no
\* groups, and a session gets the user's own values first.
UserBeforeGroups ==
    LET alone == Reply([config EXCEPT !.groups = <<>>], request) IN
    reply # None =>
        IF CommandBased(request)
        THEN (\E c \in Range(config.commands) : Settles(c, request)) => reply = alone
        ELSE IsPrefix(alone.args, reply.args)

\* A reply with an optional value replaces the client's arguments: PassAdd is
\* never sent with one, whichever service it came from (session.go 92-96).
PassAddIsMandatory ==
    reply.status = "PassAdd" => \A a \in Range(reply.args) : a.sep = "="

\* No argument is sent twice, although several services, several arguments of
\* the request and several groups may each contribute it (session.go 99).
NoDuplicates == IsInjective(reply.args)

\* The entries of a user with the conditions on the scope worked out.
InScope(u, s) ==
    \A m \in Range(s.match) : m.name = "scope" => Range(m.values) \subseteq Range(u.scopes)

WithoutScope(s) ==
    [s EXCEPT !.match = Keep(@, {i \in 1..Len(s.match) : s.match[i].name # "scope"})]

Specialised(u) ==
    LET local == Keep(u.services, {i \in 1..Len(u.services) : InScope(u, u.services[i])}) IN
    [u EXCEPT !.services = [i \in 1..Len(local) |-> WithoutScope(local[i])]]

\* Conditions on the scope select by the scope the user was localized to: the
\* arguments are those of a user who has only the services of that scope, with
\* no condition on it.  session.go 80-82 assumes that a client sends no scope
\* argument of its own.
ScopeSelects ==
    reply # None /\ ~CommandBased(request) /\ First(request, "scope") = 0 =>
        reply.args = SessionReply(Specialised(user), request).args

=============================================================================
