---------------------------- MODULE MCConnection ----------------------------
(***************************************************************************)
(* Small instances of Connection.                                          *)
(***************************************************************************)
EXTENDS Connection

\* alice logs in with a hash, bob's hash is damaged, kate relies on the
\* keychain and dave has no authenticator; nobody is not a user.
MCUsers == {"alice", "bob", "kate", "dave"}

MCText == MCUsers \cup {"", "nobody", "secret"}

MCAuthenticator ==
    [u \in MCUsers |-> CASE u = "alice" -> "hash" [] u = "bob" -> "badHash"
                          [] u = "kate" -> "keychain" [] u = "dave" -> "default"]

MCAuthorizer == [u \in MCUsers |-> IF u = "dave" THEN "default" ELSE "stringy"]

MCAccounter ==
    [u \in MCUsers |-> CASE u = "alice" -> "local" [] u = "bob" -> "syslog"
                          [] OTHER -> "default"]

MCCredentials == {<<"alice", "secret">>, <<"bob", "secret">>, <<"kate", "secret">>}

Undecoded(err) ==
    [err |-> err, action |-> "Login", atype |-> "ASCII", service |-> "Login",
     user |-> "", text |-> "", flag |-> "none"]

Garbage(err) == [t \in BodyType |-> Undecoded(err)]

\* A body that decodes as type t only.
Only(t, d) == [Garbage("invalid") EXCEPT ![t] = d]

Start(atype, user, text) ==
    [Undecoded("none") EXCEPT !.atype = atype, !.user = user, !.text = text]

Continue(text, flag) == [Undecoded("none") EXCEPT !.text = text, !.flag = flag]

Msg(type, minor, body) ==
    [type |-> type, minor |-> minor, unencrypted |-> FALSE, body |-> body]

StartMsg(user) == Msg("Authenticate", 0, Only("AuthenStart", Start("ASCII", user, "")))
ContinueMsg(text) == Msg("Authenticate", 0, Only("AuthenContinue", Continue(text, "none")))
AbortMsg == Msg("Authenticate", 0, Only("AuthenContinue", Continue("secret", "abort")))
PapMsg(user, text) == Msg("Authenticate", 1, Only("AuthenStart", Start("PAP", user, text)))

\* Bytes that decode as an AuthenStart and as an AuthenContinue, with
\* different texts.
BothMsg(user, text, msg) ==
    Msg("Authenticate", 0, [Only("AuthenStart", Start("ASCII", user, text))
                               EXCEPT !["AuthenContinue"] = Continue(msg, "none")])

AuthorMsg(user) == Msg("Authorize", 0, Only("AuthorRequest", Start("ASCII", user, "")))

AcctMsg(user, flag) ==
    Msg("Accounting", 0,
        Only("AcctRequest", [Undecoded("none") EXCEPT !.user = user, !.flag = flag]))

WrongSecret(type) == Msg(type, 0, Garbage("badSecret"))

LoginMessages ==
    {StartMsg(u) : u \in {"", "alice", "nobody"}}
    \cup {ContinueMsg(t) : t \in {"", "alice", "secret"}}
    \cup {AbortMsg, PapMsg("alice", "secret"), BothMsg("", "secret", "alice"),
          WrongSecret("Authenticate")}

AllMessages ==
    LoginMessages
    \cup {StartMsg(u) : u \in MCUsers} \cup {PapMsg(u, "secret") : u \in MCUsers}
    \cup {PapMsg("alice", ""), PapMsg("alice", "nobody"), BothMsg("alice", "secret", "nobody")}
    \cup {AuthorMsg(u) : u \in {"alice", "dave", "nobody"}}
    \cup {AcctMsg("alice", f) : f \in {"start", "watchdog", "update", "other"}}
    \cup {AcctMsg(u, "stop") : u \in {"bob", "dave", "nobody"}}
    \cup {WrongSecret(t) : t \in HeaderType}
    \cup {[WrongSecret(t) EXCEPT !.unencrypted = TRUE] : t \in HeaderType}
    \cup {Msg("Authenticate", 1, Only("AuthenStart", Start("CHAP", "alice", "secret"))),
          [ContinueMsg("secret") EXCEPT !.type = "Accounting"]}

=============================================================================
