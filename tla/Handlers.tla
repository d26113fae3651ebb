------------------------------ MODULE Handlers ------------------------------
(***************************************************************************)
(* The request handlers behind one connection: cmds/server/handlers (the   *)
(* routing by packet type, the ASCII and PAP logins, authorization and     *)
(* accounting requests) and the per-user backends of cmds/server/config    *)
(* they delegate to.                                                       *)
(*                                                                         *)
(* A handler is a function of the header, the body and, for the ASCII      *)
(* login, of the user name collected so far.  It is written as the SET of  *)
(* its possible outcomes: one element where the code is deterministic,     *)
(* several where the result depends on a backend outside the module.       *)
(***************************************************************************)
EXTENDS Naturals

CONSTANTS
    Text,           \* the strings a client can put in user, data and user-msg
    Empty,          \* the empty string
    Users,          \* the user names GetUser knows in this scope
    Authenticator,  \* [Users -> AuthenticatorKind]
    Authorizer,     \* [Users -> AuthorizerKind]
    Accounter,      \* [Users -> AccounterKind]
    Credentials     \* the <<user, password>> pairs bcrypt accepts

\* "hash": bcrypt with a valid hex hash.  "badHash": the hash is not hex.
\* "keychain": no hash option, the secret is to come from GetSecret.
\* "default": no authenticator was configured (config.NewAAA).
AuthenticatorKind == {"hash", "badHash", "keychain", "default"}
AuthorizerKind == {"stringy", "default"}
AccounterKind == {"local", "syslog", "default"}

ASSUME HandlersAssumption ==
    /\ Empty \in Text
    /\ Users \subseteq Text \ {Empty}
    /\ Authenticator \in [Users -> AuthenticatorKind]
    /\ Authorizer \in [Users -> AuthorizerKind]
    /\ Accounter \in [Users -> AccounterKind]
    /\ Credentials \subseteq Users \X Text

(***************************************************************************)
(* Bodies.  A body is known only by what each decoder makes of it, because *)
(* that is all the handlers ever look at: the same bytes are tried as      *)
(* several packet types.                                                   *)
(***************************************************************************)
HeaderType == {"Authenticate", "Authorize", "Accounting"}
MinorVersion == {0, 1}

BodyType == {"AuthenStart", "AuthenContinue", "AuthenReply",
             "AuthorRequest", "AuthorReply", "AcctRequest", "AcctReply"}

\* "invalid" is a decoding error other than BadSecretErr (too short, or a
\* field that does not validate).
DecodeError == {"none", "invalid", "badSecret"}
Action == {"Login", "ChPass", "SendAuth"}
AuthenType == {"NotSet", "ASCII", "PAP", "CHAP", "MSCHAP", "MSCHAPV2"}
Service == {"NotSet", "Login", "Enable"}
Flag == {"none", "abort", "start", "stop", "watchdog", "update", "other"}

\* text is the data of an AuthenStart and the user-msg of an AuthenContinue.
Decoded == [err : DecodeError, action : Action, atype : AuthenType,
            service : Service, user : Text, text : Text, flag : Flag]

Body == [BodyType -> Decoded]

Decodes(b, t) == b[t].err = "none"

(***************************************************************************)
(* Outcomes                                                                *)
(***************************************************************************)
ReplyType == {"AuthenReply", "AuthorReply", "AcctReply"}
Status == {"GetUser", "GetPass", "Pass", "Fail", "Error",
           "PassAdd", "PassRepl", "Success"}
NextHandler == {"nil", "getUsername", "getPassword"}

\* body, status: the reply handed to response.Reply.  encodes: whether the
\* reply's MarshalBinary succeeds.  next, username: the handler passed to
\* response.Next and the user name its closure holds.  logged: an accounting
\* record reached its sink.  panics: the handler dereferenced nil.
Outcome == [body : ReplyType, status : Status, encodes : BOOLEAN, next : NextHandler,
            username : Text, logged : BOOLEAN, panics : BOOLEAN]

Done(body, status) ==
    [body |-> body, status |-> status, encodes |-> TRUE, next |-> "nil",
     username |-> Empty, logged |-> FALSE, panics |-> FALSE]

Ask(status, next, user) ==
    [Done("AuthenReply", status) EXCEPT !.next = next, !.username = user]

(***************************************************************************)
(* Per-user backends                                                       *)
(***************************************************************************)
\* Methods.GetPassword tries the body as an AuthenStart before it tries it as
\* an AuthenContinue.
HasPassword(b) == Decodes(b, "AuthenStart") \/ Decodes(b, "AuthenContinue")

GetPassword(b) ==
    IF Decodes(b, "AuthenStart") THEN b["AuthenStart"].text
                                 ELSE b["AuthenContinue"].text

\* bcrypt.Authenticator.Handle.  bcrypt.New drops the getSecret it is given,
\* so the call to GetSecret of a user without a hash is a nil dereference.
BcryptHandle(u, b) ==
    IF ~HasPassword(b) THEN Done("AuthenReply", "Error")
    ELSE IF Authenticator[u] = "badHash" THEN Done("AuthenReply", "Fail")
    ELSE IF Authenticator[u] = "keychain"
         THEN [Done("AuthenReply", "Fail") EXCEPT !.panics = TRUE]
    ELSE IF <<u, GetPassword(b)>> \in Credentials THEN Done("AuthenReply", "Pass")
    ELSE Done("AuthenReply", "Fail")

\* Fault: a user without an authenticator is let in.
AuthenticateUserOpen(u, b) ==
    IF Authenticator[u] = "default" THEN Done("AuthenReply", "Pass")
                                    ELSE BcryptHandle(u, b)

\* AAA.Authenticate.Handle: the configured authenticator or the default deny.
AuthenticateUser(u, b) ==
    IF Authenticator[u] = "default" THEN Done("AuthenReply", "Fail")
                                    ELSE BcryptHandle(u, b)

\* stringy.Authorizer.Handle decides from the user's services and commands,
\* which this module leaves open.  Session authorization returns configured
\* values as arguments, and a value that is not a valid argument (1 or more
\* than 255 characters, or not ASCII) makes the reply fail to encode.
StringyOutcomes ==
    {Done("AuthorReply", s) : s \in {"PassAdd", "PassRepl", "Fail"}}
    \cup {[Done("AuthorReply", s) EXCEPT !.encodes = FALSE] :
              s \in {"PassAdd", "PassRepl"}}

AuthorizeUser(u) ==
    IF Authorizer[u] = "default" THEN {Done("AuthorReply", "Fail")}
                                 ELSE StringyOutcomes

\* The reply the local and the syslog accounter give once the record is in
\* the log: it depends on the flag and, for the watchdogs, on the sequence.
AcctVerdict(flag, seq) ==
    IF \/ flag \in {"start", "stop"}
       \/ flag = "watchdog" /\ seq = 1
       \/ flag = "update" /\ seq >= 3
    THEN "Success" ELSE "Error"

\* The local accounter does not see a failed write; the syslog accounter
\* answers Error when the write fails.
LocalOutcomes(flag, seq) ==
    {[Done("AcctReply", AcctVerdict(flag, seq)) EXCEPT !.logged = w] : w \in BOOLEAN}

SyslogOutcomes(flag, seq) ==
    {[Done("AcctReply", AcctVerdict(flag, seq)) EXCEPT !.logged = TRUE],
     Done("AcctReply", "Error")}

AccountUser(u, b, seq) ==
    LET flag == b["AcctRequest"].flag IN
    CASE Accounter[u] = "local" -> LocalOutcomes(flag, seq)
      [] Accounter[u] = "syslog" -> SyslogOutcomes(flag, seq)
      [] OTHER -> {Done("AcctReply", "Error")}

(***************************************************************************)
(* Login handlers                                                          *)
(***************************************************************************)
\* authenticateContinueStop: the abort flag ends the exchange at any step.
Aborts(b) == Decodes(b, "AuthenContinue") /\ b["AuthenContinue"].flag = "abort"

\* Fault: the prompt for the password does not capture the user name.
GetUsernameForgets(user, b) ==
    LET msg == b["AuthenContinue"].text IN
    IF Aborts(b) THEN Done("AuthenReply", "Fail")
    ELSE IF user # Empty THEN Ask("GetPass", "getPassword", Empty)
    ELSE IF ~Decodes(b, "AuthenContinue") \/ msg = Empty
         THEN Done("AuthenReply", "Error")
    ELSE Ask("GetPass", "getPassword", Empty)

\* The name comes from the AuthenStart or, when that had none, from user-msg.
GetUsername(user, b) ==
    LET msg == b["AuthenContinue"].text IN
    IF Aborts(b) THEN Done("AuthenReply", "Fail")
    ELSE IF user # Empty THEN Ask("GetPass", "getPassword", user)
    ELSE IF ~Decodes(b, "AuthenContinue") \/ msg = Empty
         THEN Done("AuthenReply", "Error")
    ELSE Ask("GetPass", "getPassword", msg)

\* Fault: an empty password is asked for again instead of ending the login.
GetUserPasswordRetry(user, b) ==
    LET msg == b["AuthenContinue"].text IN
    IF Aborts(b) THEN Done("AuthenReply", "Fail")
    ELSE IF ~Decodes(b, "AuthenContinue") \/ msg = Empty
         THEN Ask("GetPass", "getPassword", user)
    ELSE IF user \in Users THEN AuthenticateUser(user, b)
    ELSE Done("AuthenReply", "Fail")

\* The password of the named user, from user-msg.
GetUserPassword(user, b) ==
    LET msg == b["AuthenContinue"].text IN
    IF Aborts(b) THEN Done("AuthenReply", "Fail")
    ELSE IF ~Decodes(b, "AuthenContinue") \/ msg = Empty
         THEN Done("AuthenReply", "Error")
    ELSE IF user \in Users THEN AuthenticateUser(user, b)
    ELSE Done("AuthenReply", "Fail")

AuthenticateASCII(user, b) ==
    IF Aborts(b) THEN Done("AuthenReply", "Fail")
    ELSE IF user = Empty THEN Ask("GetUser", "getUsername", Empty)
    ELSE GetUsername(user, b)

AuthenticatePAP(b) ==
    LET start == b["AuthenStart"] IN
    IF start.user = Empty \/ start.text = Empty THEN Done("AuthenReply", "Error")
    ELSE IF start.user \in Users THEN AuthenticateUser(start.user, b)
                                 ELSE Done("AuthenReply", "Fail")

\* authenRouter: the service of a route is compared with the zero value,
\* because the lookup key of AuthenticateStart.Handle does not set it.
Route(action, atype, service, minor, handler) ==
    [key |-> <<action, atype, service, minor>>, handler |-> handler]

AuthenRouter ==
    {Route("Login", "NotSet", "Enable", 1, "ASCII"),
     Route("Login", "ASCII", "NotSet", 0, "ASCII"),
     Route("Login", "PAP", "NotSet", 1, "PAP")}

Routed(start, minor, handler) ==
    \E r \in AuthenRouter : /\ r.key = <<start.action, start.atype, "NotSet", minor>>
                            /\ r.handler = handler

AuthenticateStart(minor, b) ==
    LET start == b["AuthenStart"] IN
    IF ~Decodes(b, "AuthenStart") THEN Done("AuthenReply", "Error")
    ELSE IF Routed(start, minor, "ASCII") THEN AuthenticateASCII(start.user, b)
    ELSE IF Routed(start, minor, "PAP") THEN AuthenticatePAP(b)
    ELSE Done("AuthenReply", "Error")

AuthorizeRequest(b) ==
    LET req == b["AuthorRequest"] IN
    IF ~Decodes(b, "AuthorRequest") THEN {Done("AuthorReply", "Error")}
    ELSE IF req.user \in Users THEN AuthorizeUser(req.user)
                               ELSE {Done("AuthorReply", "Fail")}

AccountingRequest(b, seq) ==
    LET req == b["AcctRequest"] IN
    IF ~Decodes(b, "AcctRequest") THEN {Done("AcctReply", "Error")}
    ELSE IF req.user \in Users THEN AccountUser(req.user, b, seq)
                               ELSE {Done("AcctReply", "Error")}

\* Start.Handle, the handler of the first packet of a session.
StartHandle(type, minor, seq, b) ==
    CASE type = "Authenticate" -> {AuthenticateStart(minor, b)}
      [] type = "Authorize" -> AuthorizeRequest(b)
      [] type = "Accounting" -> AccountingRequest(b, seq)

=============================================================================
