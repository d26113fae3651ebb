-------------------------- MODULE ConnectionProofs --------------------------
(***************************************************************************)
(* Theorems about Connection, for any number of sessions, any messages and *)
(* any largest sequence number.                                            *)
(***************************************************************************)
EXTENDS Connection, FiniteSetTheorems, TLAPS

(***************************************************************************)
(* What the handlers may answer.  Sound(o, u, b): the outcome o is well    *)
(* formed, it grants a login only for valid credentials of u taken from b, *)
(* it asks for a name only when u is unknown, and for the password of u    *)
(* only when u is known; and it goes on exactly when it asks for more.     *)
(***************************************************************************)
Sound(o, u, b) ==
    /\ o \in Outcome
    /\ o.status = "Pass" => HasPassword(b) /\ <<u, GetPassword(b)>> \in Credentials
    /\ o.next = "getUsername" => u = Empty /\ o.username = Empty
    /\ o.next = "getPassword" => u # Empty /\ o.username = u
    /\ o.next = "nil" <=> o.status \notin {"GetUser", "GetPass"}

\* The statuses of a final answer other than Pass.
Refusal == Status \ {"Pass", "GetUser", "GetPass"}

\* A final answer other than Pass is sound for everyone.
LEMMA DoneSound ==
    ASSUME NEW body \in ReplyType, NEW status \in Refusal, NEW u, NEW b
    PROVE  Sound(Done(body, status), u, b)
BY HandlersAssumption DEF Sound, Done, Outcome, NextHandler, Refusal

\* A user's authenticator (AAA.Authenticate) answers soundly.
LEMMA AuthenticateUserSound ==
    ASSUME NEW u \in Users, NEW b \in Body
    PROVE  Sound(AuthenticateUser(u, b), u, b)
<1>1. CASE Authenticator[u] = "default"
  <2>1. AuthenticateUser(u, b) = Done("AuthenReply", "Fail")
    BY <1>1 DEF AuthenticateUser
  <2> QED BY <2>1, DoneSound DEF ReplyType, Status, Refusal
<1>2. CASE Authenticator[u] # "default"
  <2>1. AuthenticateUser(u, b) = BcryptHandle(u, b)
    BY <1>2 DEF AuthenticateUser
  <2>2. Sound(Done("AuthenReply", "Error"), u, b) /\ Sound(Done("AuthenReply", "Fail"), u, b)
    BY DoneSound DEF ReplyType, Status, Refusal
  <2>3. Sound([Done("AuthenReply", "Fail") EXCEPT !.panics = TRUE], u, b)
    BY HandlersAssumption DEF Sound, Done, Outcome, NextHandler, ReplyType, Status
  <2>4. HasPassword(b) /\ <<u, GetPassword(b)>> \in Credentials
            => Sound(Done("AuthenReply", "Pass"), u, b)
    BY HandlersAssumption DEF Sound, Done, Outcome, NextHandler, ReplyType, Status
  <2> QED BY <2>1, <2>2, <2>3, <2>4 DEF BcryptHandle
<1> QED BY <1>1, <1>2

\* The prompts of the ASCII login are sound.
LEMMA AskSound ==
    /\ \A b : Sound(Ask("GetUser", "getUsername", Empty), Empty, b)
    /\ \A u \in Text \ {Empty} : \A b : Sound(Ask("GetPass", "getPassword", u), u, b)
BY HandlersAssumption DEF Ask, Sound, Done, Outcome, NextHandler, ReplyType, Status

\* Every decoded part of a body is a record of texts.
LEMMA BodyTexts ==
    ASSUME NEW b \in Body, NEW t \in BodyType
    PROVE  b[t].user \in Text /\ b[t].text \in Text
BY DEF Body, Decoded

\* getUsername of authen_ascii.go answers soundly for the name that is known once
\* the packet has been read.
LEMMA GetUsernameSound ==
    ASSUME NEW user \in Text, NEW b \in Body
    PROVE  Sound(GetUsername(user, b), IF user # Empty THEN user ELSE LaterName(b), b)
<1> DEFINE msg == b["AuthenContinue"].text
<1> DEFINE u == IF user # Empty THEN user ELSE LaterName(b)
<1>1. msg \in Text
  BY BodyTexts DEF BodyType
<1>2. Sound(Done("AuthenReply", "Fail"), u, b) /\ Sound(Done("AuthenReply", "Error"), u, b)
  BY DoneSound DEF ReplyType, Status, Refusal
<1>3. CASE Aborts(b)
  BY <1>2, <1>3 DEF GetUsername
<1>4. CASE ~Aborts(b) /\ user # Empty
  BY <1>4, AskSound DEF GetUsername
<1>5. CASE ~Aborts(b) /\ user = Empty /\ (~Decodes(b, "AuthenContinue") \/ msg = Empty)
  BY <1>2, <1>5 DEF GetUsername
<1>6. CASE ~Aborts(b) /\ user = Empty /\ Decodes(b, "AuthenContinue") /\ msg # Empty
  <2>1. GetUsername(user, b) = Ask("GetPass", "getPassword", msg) /\ u = msg
    BY <1>6 DEF GetUsername, LaterName
  <2> QED BY <1>1, <1>6, <2>1, AskSound
<1> QED BY <1>3, <1>4, <1>5, <1>6

\* The password step answers soundly for the name in its closure, and it is the
\* last step.
LEMMA GetUserPasswordSound ==
    ASSUME NEW user \in Text, NEW b \in Body
    PROVE  /\ Sound(GetUserPassword(user, b), user, b)
           /\ GetUserPassword(user, b).next = "nil"
<1>1. Sound(Done("AuthenReply", "Fail"), user, b) /\ Sound(Done("AuthenReply", "Error"), user, b)
  BY DoneSound DEF ReplyType, Status, Refusal
<1>2. user \in Users => Sound(AuthenticateUser(user, b), user, b)
  BY AuthenticateUserSound
<1>3. \A body, status : Done(body, status).next = "nil"
  BY DEF Done
<1>4. [Done("AuthenReply", "Fail") EXCEPT !.panics = TRUE].next = "nil"
  BY DEF Done
<1>5. \A u : AuthenticateUser(u, b).next = "nil"
  BY <1>3, <1>4 DEF AuthenticateUser, BcryptHandle
<1> QED BY <1>1, <1>2, <1>3, <1>5 DEF GetUserPassword

\* AuthenticateStart: the first packet of a login.
LEMMA AuthenticateStartSound ==
    ASSUME NEW minor, NEW b \in Body
    PROVE  Sound(AuthenticateStart(minor, b), FirstName(b), b)
<1> DEFINE start == b["AuthenStart"]
<1>1. start.user \in Text
  BY BodyTexts DEF BodyType
<1>2. \A u : Sound(Done("AuthenReply", "Fail"), u, b) /\ Sound(Done("AuthenReply", "Error"), u, b)
  BY DoneSound DEF ReplyType, Status, Refusal
<1>3. CASE ~Decodes(b, "AuthenStart")
  BY <1>2, <1>3 DEF AuthenticateStart
<1>4. CASE Decodes(b, "AuthenStart")
  <2>1. FirstName(b) = start.user
    BY <1>4 DEF FirstName
  <2>2. Sound(AuthenticateASCII(start.user, b), start.user, b)
    <3>1. CASE Aborts(b)
      BY <1>2, <3>1 DEF AuthenticateASCII
    <3>2. CASE ~Aborts(b) /\ start.user = Empty
      BY <3>2, AskSound DEF AuthenticateASCII
    <3>3. CASE ~Aborts(b) /\ start.user # Empty
      BY <1>1, <3>3, GetUsernameSound DEF AuthenticateASCII
    <3> QED BY <3>1, <3>2, <3>3
  <2>3. Sound(AuthenticatePAP(b), start.user, b)
    BY <1>2, AuthenticateUserSound DEF AuthenticatePAP
  <2> QED BY <1>2, <1>4, <2>1, <2>2, <2>3 DEF AuthenticateStart
<1> QED BY <1>3, <1>4

\* Authorization and accounting never grant a login and never ask for more.
LEMMA OtherRequestsSound ==
    ASSUME NEW b \in Body, NEW seq \in Nat, NEW u,
           NEW o \in AuthorizeRequest(b) \cup AccountingRequest(b, seq)
    PROVE  Sound(o, u, b)
<1>1. \A s \in Refusal, t \in ReplyType : Sound(Done(t, s), u, b)
  BY DoneSound
<1>2. \A s \in {"PassAdd", "PassRepl"} :
        Sound([Done("AuthorReply", s) EXCEPT !.encodes = FALSE], u, b)
  BY HandlersAssumption DEF Sound, Done, Outcome, NextHandler, ReplyType, Status
<1>3. \A s \in {"Success", "Error"}, w \in BOOLEAN :
        Sound([Done("AcctReply", s) EXCEPT !.logged = w], u, b)
  BY HandlersAssumption DEF Sound, Done, Outcome, NextHandler, ReplyType, Status
<1>4. CASE o \in AuthorizeRequest(b)
  BY <1>1, <1>2, <1>4 DEF AuthorizeRequest, AuthorizeUser, StringyOutcomes, ReplyType, Status, Refusal
<1>5. CASE o \in AccountingRequest(b, seq)
  <2>1. \A f : AcctVerdict(f, seq) \in {"Success", "Error"}
    BY DEF AcctVerdict
  <2>2. \A f : \A x \in LocalOutcomes(f, seq) \cup SyslogOutcomes(f, seq) : Sound(x, u, b)
    <3> SUFFICES ASSUME NEW f, NEW x \in LocalOutcomes(f, seq) \cup SyslogOutcomes(f, seq)
                 PROVE  Sound(x, u, b)
      OBVIOUS
    <3>1. \A w \in BOOLEAN :
            Sound([Done("AcctReply", AcctVerdict(f, seq)) EXCEPT !.logged = w], u, b)
      BY <1>3, <2>1
    <3>2. Sound(Done("AcctReply", "Error"), u, b)
      BY <1>1 DEF ReplyType, Status, Refusal
    <3>3. CASE x \in LocalOutcomes(f, seq)
      BY <3>1, <3>3, Zenon DEF LocalOutcomes
    <3>4. CASE x \in SyslogOutcomes(f, seq)
      BY <3>1, <3>2, <3>4, Zenon DEF SyslogOutcomes
    <3> QED BY <3>3, <3>4
  <2>3. Sound(Done("AcctReply", "Error"), u, b)
    BY <1>1 DEF ReplyType, Status, Refusal
  <2> QED BY <1>5, <2>2, <2>3 DEF AccountingRequest, AccountUser
<1> QED BY <1>4, <1>5

\* Start.Handle answers the first packet of a session soundly.
LEMMA StartHandleSound ==
    ASSUME NEW m \in Messages, NEW n \in Nat, NEW o \in StartHandle(m.type, m.minor, n, m.body)
    PROVE  Sound(o, FirstName(m.body), m.body)
<1>1. m.type \in HeaderType /\ m.body \in Body
  BY ConnectionAssumption DEF Message
<1>2. CASE m.type = "Authenticate"
  BY <1>1, <1>2, AuthenticateStartSound DEF StartHandle
<1>3. CASE m.type = "Authorize"
  BY <1>1, <1>3, OtherRequestsSound DEF StartHandle
<1>4. CASE m.type = "Accounting"
  BY <1>1, <1>4, OtherRequestsSound DEF StartHandle
<1> QED BY <1>1, <1>2, <1>3, <1>4 DEF HeaderType

(***************************************************************************)
(* The inductive invariant: types, and the table agrees with the history.  *)
(* PassIsProved is not inductive by itself: it depends on the user name    *)
(* that the continuation of a session holds.  Nor is VerdictByThirdPacket: *)
(* a session that still waits for a name has handled one packet only.      *)
(***************************************************************************)
Rounds ==
    \A s \in SessionID : Live(s) =>
        told[s].packets \in (IF known[s].next = "getUsername" THEN {1} ELSE {1, 2})

Inv == TypeOK /\ TableHoldsClaim /\ PassIsProved /\ PromptIffLive /\ Rounds

\* The handler that runs for a packet is sound for the user the client has named
\* on the session once that packet is counted in.
LEMMA OutcomesSound ==
    ASSUME TypeOK, TableHoldsClaim,
           NEW s \in SessionID, NEW n \in Nat, NEW m \in Messages, NEW o \in Outcomes(s, n, m)
    PROVE  Sound(o, Hear(s, m.body).user, m.body)
<1>1. m.body \in Body
  BY ConnectionAssumption DEF Message
<1>2. Hear(s, m.body).user = IF ~Live(s) THEN FirstName(m.body)
                             ELSE IF told[s].user = Empty THEN LaterName(m.body)
                             ELSE told[s].user
  BY DEF Hear
<1>3. known[s] \in Session \/ (known[s] = NoSession /\ known[s].next = "nil")
  BY DEF TypeOK, NoSession
<1>4. CASE known[s].next = "getUsername"
  <2>1. Live(s) /\ known[s].username = Empty /\ told[s].user = Empty
    BY <1>4 DEF TableHoldsClaim, Live, NoSession
  <2>2. Outcomes(s, n, m) = {GetUsername(Empty, m.body)}
    BY <1>4, <2>1 DEF Outcomes
  <2>3. Sound(GetUsername(Empty, m.body), LaterName(m.body), m.body)
    BY <1>1, GetUsernameSound, HandlersAssumption
  <2> QED BY <1>2, <2>1, <2>2, <2>3
<1>5. CASE known[s].next = "getPassword"
  <2>1. /\ Live(s) /\ known[s].username = told[s].user
        /\ told[s].user # Empty /\ told[s].user \in Text
    BY <1>5 DEF TableHoldsClaim, Live, NoSession, TypeOK, Told
  <2>2. Outcomes(s, n, m) = {GetUserPassword(told[s].user, m.body)}
    BY <1>5, <2>1 DEF Outcomes
  <2> QED BY <1>1, <1>2, <2>1, <2>2, GetUserPasswordSound
<1>6. CASE known[s].next \notin {"getUsername", "getPassword"}
  <2>1. ~Live(s)
    BY <1>3, <1>6 DEF Live, Session
  <2>2. Outcomes(s, n, m) = StartHandle(m.type, m.minor, n, m.body)
    BY <1>6 DEF Outcomes
  <2> QED BY <1>2, <2>1, <2>2, StartHandleSound
<1> QED BY <1>4, <1>5, <1>6

\* A session that runs is never asked for a name again, and ends with the password.
LEMMA OutcomesAdvance ==
    ASSUME TypeOK, NEW s \in SessionID, Live(s),
           NEW n, NEW m \in Messages, NEW o \in Outcomes(s, n, m), o.next # "nil"
    PROVE  known[s].next = "getUsername" /\ o.next = "getPassword"
<1>1. known[s].next \in {"getUsername", "getPassword"} /\ known[s].username \in Text
  BY DEF TypeOK, Live, Session
<1>2. m.body \in Body
  BY ConnectionAssumption DEF Message
<1>3. CASE known[s].next = "getUsername"
  <2>1. o = GetUsername(known[s].username, m.body)
    BY <1>3 DEF Outcomes
  <2>2. \A body, status : Done(body, status).next = "nil"
    BY DEF Done
  <2>3. \A u : Ask("GetPass", "getPassword", u).next = "getPassword"
    BY DEF Ask, Done
  <2> QED BY <1>3, <2>1, <2>2, <2>3 DEF GetUsername
<1>4. CASE known[s].next = "getPassword"
  <2>1. o = GetUserPassword(known[s].username, m.body)
    BY <1>4 DEF Outcomes
  <2> QED BY <1>1, <1>2, <2>1, GetUserPasswordSound
<1> QED BY <1>1, <1>3, <1>4

\* What the client is recorded to have said has the right type.
LEMMA HearType ==
    ASSUME TypeOK, NEW s \in SessionID, NEW b \in Body
    PROVE  Hear(s, b) \in Told
<1>1. FirstName(b) \in Text /\ LaterName(b) \in Text
  BY BodyTexts, HandlersAssumption DEF FirstName, LaterName, BodyType
<1>2. TextsOf(b) \subseteq Text
  BY BodyTexts DEF TextsOf, BodyType
<1>3. told[s].user \in Text /\ told[s].packets \in Nat
  BY DEF TypeOK, Told
<1> QED BY <1>1, <1>2, <1>3 DEF Hear, Told

\* A password taken from a body is among the texts the client presented.
LEMMA PasswordPresented ==
    ASSUME NEW b, HasPassword(b)
    PROVE  GetPassword(b) \in TextsOf(b)
BY DEF HasPassword, GetPassword, TextsOf

\* The connection starts with an empty table.
LEMMA InitInv == Init => Inv
<1> SUFFICES ASSUME Init PROVE Inv
  OBVIOUS
<1>1. NoSession \in Session \cup {NoSession} /\ Nothing \in Told
  BY HandlersAssumption DEF Nothing, Told
<1> QED BY <1>1 DEF Init, Inv, TypeOK, TableHoldsClaim, PassIsProved, PromptIffLive, Rounds, Live

\* A step that drops every session and grants nothing keeps the invariant.
LEMMA DropInv ==
    ASSUME TypeOK,
           conn' \in {"open", "closed", "panicked"}, conns' \in Nat, sessionsActive' \in Int,
           known' = [s \in SessionID |-> NoSession],
           told' \in [SessionID -> Told],
           out' \in SUBSET Reply, \A r \in out' : r.status # "Pass",
           conn' = "open" => out' = {}
    PROVE  Inv'
BY DEF Inv, TypeOK, TableHoldsClaim, PassIsProved, PromptIffLive, Rounds, Live

\* Handling a packet keeps the invariant.
LEMMA HandlePacketInv ==
    ASSUME Inv, NEW s \in SessionID, NEW n \in 1..MaxSeq, NEW m \in Messages,
           HandlePacket(s, n, m)
    PROVE  Inv'
<1> DEFINE b == m.body
           h == Hear(s, b)
<1>1. TypeOK /\ TableHoldsClaim
  BY DEF Inv
<1>2. MaxSeq \in Nat /\ n \in Nat /\ n + 1 \in 1..(MaxSeq + 1)
  BY ConnectionAssumption
<1>3. m.type \in HeaderType /\ b \in Body
  BY ConnectionAssumption DEF Message
<1>4. PICK o \in Outcomes(s, n, m), sent \in BOOLEAN :
          /\ out' = {Replied(s, n, m, o, sent)}
          /\ known' = [known EXCEPT ![s] = NextSession(n, o)]
          /\ sessionsActive' = sessionsActive + GaugeStep(s, o)
  BY DEF HandlePacket
<1>5. told' = [r \in SessionID |-> IF r = s THEN h ELSE IF Live(r) THEN told[r] ELSE Nothing]
  BY DEF HandlePacket, Remember
<1>6. Sound(o, h.user, b)
  BY <1>1, <1>2, OutcomesSound
<1>7. h \in Told /\ Nothing \in Told
  BY <1>1, <1>3, HearType, HandlersAssumption DEF Nothing, Told
<1>8. o \in Outcome
  BY <1>6 DEF Sound
<1>9. NextSession(n, o) \in Session \cup {NoSession}
  BY <1>2, <1>8 DEF NextSession, Session, Outcome, NextHandler
<1>10. TypeOK'
  <2>1. known' \in [SessionID -> Session \cup {NoSession}]
    BY <1>1, <1>4, <1>9 DEF TypeOK
  <2>2. Replied(s, n, m, o, sent) \in Reply
    BY <1>2, <1>3, <1>8 DEF Replied, Reply, Outcome
  <2>3. sessionsActive' \in Int
    BY <1>1, <1>4 DEF TypeOK, GaugeStep
  <2>4. told' \in [SessionID -> Told]
    BY <1>1, <1>5, <1>7 DEF TypeOK
  <2>5. conn' = conn /\ conns' = conns
    BY DEF HandlePacket
  <2> QED BY <1>1, <1>4, <2>1, <2>2, <2>3, <2>4, <2>5 DEF TypeOK
<1>11. TableHoldsClaim'
  <2> SUFFICES ASSUME NEW r \in SessionID, known'[r] # NoSession
               PROVE  /\ known'[r].username = told'[r].user
                      /\ known'[r].next = "getPassword" <=> told'[r].user # Empty
    BY DEF TableHoldsClaim, Live
  <2>1. CASE r = s
    <3>1. known'[r] = NextSession(n, o) /\ told'[r] = h
      BY <1>1, <1>4, <1>5, <2>1 DEF TypeOK
    <3>2. o.next # "nil" /\ known'[r].next = o.next /\ known'[r].username = o.username
      BY <3>1 DEF NextSession
    <3>3. o.next \in {"getUsername", "getPassword"}
      BY <1>8, <3>2 DEF Outcome, NextHandler
    <3> QED BY <1>6, <3>1, <3>2, <3>3 DEF Sound
  <2>2. CASE r # s
    <3>1. known'[r] = known[r] /\ Live(r)
      BY <1>1, <1>4, <2>2 DEF TypeOK, Live
    <3>2. told'[r] = told[r]
      BY <1>5, <2>2, <3>1
    <3> QED BY <1>1, <3>1, <3>2 DEF TableHoldsClaim
  <2> QED BY <2>1, <2>2
<1>12. PassIsProved'
  <2> SUFFICES ASSUME NEW r \in out', r.status = "Pass"
               PROVE  \E p \in told'[r.sid].presented : <<told'[r.sid].user, p>> \in Credentials
    BY DEF PassIsProved
  <2>1. r.sid = s /\ o.status = "Pass"
    BY <1>4 DEF Replied
  <2>2. told'[r.sid] = h /\ h.presented = TextsOf(b)
    BY <1>5, <2>1 DEF Hear
  <2>3. HasPassword(b) /\ <<h.user, GetPassword(b)>> \in Credentials
    BY <1>6, <2>1 DEF Sound
  <2> QED BY <2>2, <2>3, PasswordPresented
<1>13. PromptIffLive'
  <2> SUFFICES ASSUME NEW r \in out'
               PROVE  known'[r.sid] # NoSession <=> r.status \in {"GetUser", "GetPass"}
    BY DEF PromptIffLive, Live
  <2>1. r.sid = s /\ r.status = o.status /\ known'[s] = NextSession(n, o)
    BY <1>1, <1>4 DEF Replied, TypeOK
  <2>2. known'[s] # NoSession <=> o.next # "nil"
    BY <2>1 DEF NextSession, NoSession
  <2> QED BY <1>6, <2>1, <2>2 DEF Sound
<1>14. Rounds'
  <2> SUFFICES ASSUME NEW r \in SessionID, known'[r] # NoSession
               PROVE  told'[r].packets \in (IF known'[r].next = "getUsername" THEN {1} ELSE {1, 2})
    BY DEF Rounds, Live
  <2>1. CASE r # s
    <3>1. known'[r] = known[r] /\ Live(r) /\ told'[r] = told[r]
      BY <1>1, <1>4, <1>5, <2>1 DEF TypeOK, Live
    <3> QED BY <3>1 DEF Inv, Rounds
  <2>2. CASE r = s
    <3>1. known'[r] = NextSession(n, o) /\ told'[r] = h
      BY <1>1, <1>4, <1>5, <2>2 DEF TypeOK
    <3>2. o.next # "nil" /\ known'[r].next = o.next
      BY <3>1 DEF NextSession
    <3>3. CASE ~Live(s)
      BY <3>1, <3>2, <3>3 DEF Hear
    <3>4. CASE Live(s)
      <4>1. known[s].next = "getUsername" /\ o.next = "getPassword"
        BY <1>1, <3>2, <3>4, OutcomesAdvance
      <4>2. told[s].packets = 1
        BY <3>4, <4>1 DEF Inv, Rounds
      <4> QED BY <3>1, <3>2, <3>4, <4>1, <4>2 DEF Hear
    <3> QED BY <3>3, <3>4
  <2> QED BY <2>1, <2>2
<1> QED BY <1>10, <1>11, <1>12, <1>13, <1>14 DEF Inv

\* Every step of the connection keeps the invariant.
LEMMA NextInv == Inv /\ [Next]_vars => Inv'
<1> SUFFICES ASSUME Inv, [Next]_vars PROVE Inv'
  OBVIOUS
<1>1. TypeOK
  BY DEF Inv
<1>2. [s \in SessionID |-> Nothing] \in [SessionID -> Told]
  BY HandlersAssumption DEF Nothing, Told
<1>3. ASSUME NEW s \in SessionID, NEW m \in Messages, BadSecret(s, m) PROVE Inv'
  <2>1. m.type \in HeaderType /\ 1 \in 1..(MaxSeq + 1)
    BY ConnectionAssumption DEF Message
  <2>2. out' \in SUBSET Reply /\ \A r \in out' : r.status # "Pass"
    BY <1>3, <2>1 DEF BadSecret, Reply, ReplyBody, HeaderType, ReplyType, Status
  <2> QED BY <1>1, <1>2, <1>3, <2>2, DropInv DEF BadSecret, Close, TypeOK
<1>4. ASSUME NEW s \in SessionID, NEW n \in 1..MaxSeq, NEW m \in Messages, EvenSequence(s, n, m)
      PROVE  Inv'
  BY <1>1, <1>2, <1>4, DropInv DEF EvenSequence, Close, TypeOK
<1>5. ASSUME NEW s \in SessionID, NEW n \in 1..MaxSeq, NEW m \in Messages, StaleSequence(s, n, m)
      PROVE  Inv'
  BY <1>1, <1>2, <1>5, DropInv DEF StaleSequence, Close, TypeOK
<1>6. ASSUME NEW s \in SessionID, NEW n \in 1..MaxSeq, NEW m \in Messages, HandlePacket(s, n, m)
      PROVE  Inv'
  BY <1>6, HandlePacketInv
<1>7. ASSUME NEW s \in SessionID, NEW n \in 1..MaxSeq, NEW m \in Messages, HandlerPanics(s, n, m)
      PROVE  Inv'
  BY <1>1, <1>2, <1>7, DropInv DEF HandlerPanics, TypeOK
<1>8. CASE ReadFails
  BY <1>1, <1>2, <1>8, DropInv DEF ReadFails, Close, TypeOK
<1>9. CASE Reconnect
  BY <1>1, <1>9, DropInv DEF Reconnect, TypeOK
<1>10. CASE UNCHANGED vars
  BY <1>10 DEF vars, Inv, TypeOK, TableHoldsClaim, PassIsProved, PromptIffLive, Rounds, Live
<1> QED BY <1>3, <1>4, <1>5, <1>6, <1>7, <1>8, <1>9, <1>10 DEF Next

(***************************************************************************)
(* Theorems                                                                *)
(***************************************************************************)
\* The session table and the replies always have their types, and the inductive
\* invariant holds.
THEOREM InvHolds == Spec => []Inv
BY InitInv, NextInv, PTL DEF Spec

\* Every variable always has its type.
THEOREM TypeCorrect == Spec => []TypeOK
BY InvHolds, PTL DEF Inv

\* The session table agrees with what the client has said on every session.
THEOREM TableAgrees == Spec => []TableHoldsClaim
BY InvHolds, PTL DEF Inv

\* No login is granted without valid credentials of the user named on the session.
THEOREM LoginSound == Spec => []PassIsProved
BY InvHolds, PTL DEF Inv

\* A session is kept exactly after a prompt, whatever else is on the connection.
THEOREM KeptAfterPrompt == Spec => []PromptIffLive
BY InvHolds, PTL DEF Inv

\* No sequence of packets keeps a session in the table past its second packet.
THEOREM LoginsEnd == Spec => []VerdictByThirdPacket
<1>1. Inv => VerdictByThirdPacket
  BY DEF Inv, Rounds, VerdictByThirdPacket
<1> QED BY <1>1, InvHolds, PTL

\* On a running session packets are handled in the order of their numbers.
THEOREM SequenceMonotone == Spec => SequenceIncreases
<1> DEFINE A == conn' = "open" =>
                  \A r \in out' : Live(r.sid) /\ known[r.sid].seq <= MaxSeq =>
                                      r.seq > known[r.sid].seq + 1
<1>1. TypeOK /\ [Next]_vars => [A]_vars
  <2> SUFFICES ASSUME TypeOK, Next PROVE A
    OBVIOUS
  <2>1. ASSUME NEW s \in SessionID, NEW n \in 1..MaxSeq, NEW m \in Messages, HandlePacket(s, n, m)
        PROVE  A
    <3> SUFFICES ASSUME NEW r \in out', Live(r.sid), known[r.sid].seq <= MaxSeq
                 PROVE  r.seq > known[r.sid].seq + 1
      OBVIOUS
    <3>1. r.sid = s /\ r.seq = n + 1
      BY <2>1 DEF HandlePacket, Replied
    <3>2. MaxSeq \in Nat /\ known[s].seq \in 0..MaxSeq
      BY <3>1, ConnectionAssumption DEF TypeOK, Session, NoSession
    <3>3. known[s].seq % (MaxSeq + 1) = known[s].seq
      BY <3>2
    <3>4. known[s].seq % (MaxSeq + 1) < n
      BY <2>1, <3>1 DEF HandlePacket, Accepts, LastSequenceValid
    <3> QED BY <3>1, <3>2, <3>3, <3>4
  <2>2. ASSUME NEW s \in SessionID, NEW m \in Messages, BadSecret(s, m) PROVE A
    BY <2>2 DEF BadSecret, Close
  <2>3. ASSUME NEW s \in SessionID, NEW n \in 1..MaxSeq, NEW m \in Messages,
               EvenSequence(s, n, m) \/ StaleSequence(s, n, m) \/ HandlerPanics(s, n, m)
        PROVE  A
    BY <2>3 DEF EvenSequence, StaleSequence, HandlerPanics, Close
  <2>4. CASE ReadFails \/ Reconnect
    BY <2>4 DEF ReadFails, Reconnect, Close
  <2> QED BY <2>1, <2>2, <2>3, <2>4 DEF Next
<1> QED BY <1>1, TypeCorrect, PTL DEF Spec, SequenceIncreases

\* The gauge sessions_active moves with the session table while a connection is open.
THEOREM GaugeExact == Spec => GaugeFollowsTable
<1> DEFINE G == conn = "open" /\ conn' = "open" =>
                  sessionsActive' - sessionsActive
                      = Cardinality(LiveSessions') - Cardinality(LiveSessions)
<1>1. TypeOK /\ [Next]_vars => [G]_vars
  <2> SUFFICES ASSUME TypeOK, Next, conn = "open", conn' = "open"
               PROVE  sessionsActive' - sessionsActive
                          = Cardinality(LiveSessions') - Cardinality(LiveSessions)
    OBVIOUS
  <2>1. PICK s \in SessionID, n \in 1..MaxSeq, m \in Messages : HandlePacket(s, n, m)
    BY DEF Next, BadSecret, EvenSequence, StaleSequence, HandlerPanics, ReadFails, Reconnect, Close
  <2>2. PICK o \in Outcomes(s, n, m) :
            /\ known' = [known EXCEPT ![s] = NextSession(n, o)]
            /\ sessionsActive' = sessionsActive + GaugeStep(s, o)
    BY <2>1 DEF HandlePacket
  <2>3. IsFiniteSet(LiveSessions) /\ Cardinality(LiveSessions) \in Nat
    BY ConnectionAssumption, FS_Subset, FS_CardinalityType, LiveSessions \subseteq SessionID
    DEF LiveSessions
  <2>4. NextSession(n, o) = NoSession <=> o.next = "nil"
    BY DEF NextSession, NoSession
  <2>5. LiveSessions' = IF o.next = "nil" THEN LiveSessions \ {s} ELSE LiveSessions \cup {s}
    BY <2>2, <2>4 DEF LiveSessions, Live, TypeOK
  <2>6. s \in LiveSessions <=> Live(s)
    BY DEF LiveSessions
  <2>7. sessionsActive \in Int
    BY DEF TypeOK
  <2>8. CASE o.next = "nil"
    <3>1. Cardinality(LiveSessions')
              = IF Live(s) THEN Cardinality(LiveSessions) - 1 ELSE Cardinality(LiveSessions)
      BY <2>3, <2>5, <2>6, <2>8, FS_RemoveElement
    <3> QED BY <2>2, <2>3, <2>7, <2>8, <3>1 DEF GaugeStep
  <2>9. CASE o.next # "nil"
    <3>1. Cardinality(LiveSessions')
              = IF Live(s) THEN Cardinality(LiveSessions) ELSE Cardinality(LiveSessions) + 1
      BY <2>3, <2>5, <2>6, <2>9, FS_AddElement
    <3> QED BY <2>2, <2>3, <2>7, <2>9, <3>1 DEF GaugeStep
  <2> QED BY <2>8, <2>9
<1> QED BY <1>1, TypeCorrect, PTL DEF Spec, GaugeFollowsTable

(***************************************************************************)
(* Connection implements LoginSession: every step of the loop over the     *)
(* session table is a step of one dialogue, the end of all of them, or     *)
(* none.                                                                   *)
(***************************************************************************)
\* The abstract variables as functions of the concrete ones.
Phases == [s \in SessionID |-> PhaseOf(s)]
Subjects == [s \in SessionID |-> known[s].username]
Grants == {<<r.sid, told[r.sid].user>> : r \in {q \in out : q.status = "Pass"}}

\* What an outcome makes of them for its session.
PhaseAfter(o) ==
    CASE o.next = "getUsername" -> "username"
      [] o.next = "getPassword" -> "password"
      [] OTHER -> "idle"

SubjectAfter(o) == IF o.next = "nil" THEN Empty ELSE o.username

\* The step that asks for the name never grants a login.
LEMMA NoGrantBeforePassword ==
    ASSUME NEW u, NEW b
    PROVE  GetUsername(u, b).status # "Pass"
BY DEF GetUsername, Ask, Done

\* A packet moves its own session and no other.
LEMMA HandleMoves ==
    ASSUME TypeOK, NEW s \in SessionID, NEW n, NEW o,
           known' = [known EXCEPT ![s] = NextSession(n, o)],
           o.next \in NextHandler
    PROVE  /\ Phases' = [Phases EXCEPT ![s] = PhaseAfter(o)]
           /\ Subjects' = [Subjects EXCEPT ![s] = SubjectAfter(o)]
<1>1. known'[s] = NextSession(n, o) /\ \A r \in SessionID \ {s} : known'[r] = known[r]
  BY DEF TypeOK
<1>2. NextSession(n, o).next = o.next
      /\ NextSession(n, o).username = SubjectAfter(o)
  BY DEF NextSession, NoSession, SubjectAfter
<1>3. \A r \in SessionID : Phases'[r] = (IF r = s THEN PhaseAfter(o) ELSE Phases[r])
  BY <1>1, <1>2 DEF Phases, PhaseOf, PhaseAfter
<1>4. \A r \in SessionID : Subjects'[r] = (IF r = s THEN SubjectAfter(o) ELSE Subjects[r])
  BY <1>1, <1>2 DEF Subjects
<1> QED BY <1>3, <1>4 DEF Phases, Subjects

\* Handling a packet is a step of the dialogue of its session.
LEMMA HandleIsDialogue ==
    ASSUME Inv, NEW s \in SessionID, NEW n \in 1..MaxSeq, NEW m \in Messages,
           HandlePacket(s, n, m)
    PROVE  Login!Next
<1>1. TypeOK /\ TableHoldsClaim /\ n \in Nat
  BY DEF Inv
<1>2. PICK o \in Outcomes(s, n, m), sent \in BOOLEAN :
          /\ out' = {Replied(s, n, m, o, sent)}
          /\ known' = [known EXCEPT ![s] = NextSession(n, o)]
  BY DEF HandlePacket
<1>3. told'[s] = Hear(s, m.body)
  BY DEF HandlePacket, Remember
<1>4. Sound(o, Hear(s, m.body).user, m.body)
  BY <1>1, OutcomesSound
<1>5. o \in Outcome /\ o.next \in NextHandler /\ o.username \in Text
  BY <1>4 DEF Sound, Outcome
<1>6. Phases[s] = PhaseOf(s) /\ Subjects[s] = known[s].username
  BY DEF Phases, Subjects
<1>moves. Phases' = [Phases EXCEPT ![s] = PhaseAfter(o)]
      /\ Subjects' = [Subjects EXCEPT ![s] = SubjectAfter(o)]
  BY <1>1, <1>2, <1>5, HandleMoves
<1>7. CASE o.next = "getUsername"
  <2>1. ~Live(s) /\ Phases[s] = "idle"
    BY <1>1, <1>6, <1>7, OutcomesAdvance DEF Live, NoSession, PhaseOf
  <2>2. Grants' = {} /\ o.username = Empty
    BY <1>2, <1>4, <1>7 DEF Grants, Sound, Replied
  <2>3. Phases' = [Phases EXCEPT ![s] = "username"] /\ Subjects' = [Subjects EXCEPT ![s] = Empty]
    BY <1>moves, <1>7, <2>2 DEF PhaseAfter, SubjectAfter
  <2>4. Login!AskUsername(s)
    BY <2>1, <2>2, <2>3 DEF Login!AskUsername, Login!Move, Phases, Subjects, Grants
  <2> QED BY <2>4 DEF Login!Next
<1>8. CASE o.next = "getPassword"
  <2>1. Phases[s] \in {"idle", "username"}
    BY <1>1, <1>6, <1>8, OutcomesAdvance DEF Live, NoSession, PhaseOf
  <2>2. Grants' = {} /\ o.username # Empty
    BY <1>2, <1>4, <1>8 DEF Grants, Sound, Replied
  <2>3. Phases' = [Phases EXCEPT ![s] = "password"] /\ Subjects' = [Subjects EXCEPT ![s] = o.username]
    BY <1>moves, <1>8 DEF PhaseAfter, SubjectAfter
  <2>4. Login!AskPassword(s, o.username)
    BY <2>1, <2>2, <2>3 DEF Login!AskPassword, Login!Move, Phases, Subjects, Grants
  <2> QED BY <1>5, <2>4 DEF Login!Next
<1>9. CASE o.next = "nil"
  <2>1. Phases' = [Phases EXCEPT ![s] = "idle"] /\ Subjects' = [Subjects EXCEPT ![s] = Empty]
    BY <1>moves, <1>9 DEF PhaseAfter, SubjectAfter
  <2>2. CASE o.status # "Pass"
    <3>1. Grants' = {}
      BY <1>2, <2>2 DEF Grants, Replied
    <3>2. Login!Refuse(s)
      BY <2>1, <3>1 DEF Login!Refuse, Login!Move, Phases, Subjects, Grants
    <3> QED BY <3>2 DEF Login!Next
  <2>3. CASE o.status = "Pass"
    <3>0. <<Hear(s, m.body).user, GetPassword(m.body)>> \in Credentials
      BY <1>4, <2>3 DEF Sound
    <3>1. PICK u \in Text : u = Hear(s, m.body).user
      BY <3>0, HandlersAssumption
    <3>2. \E p \in Text : <<u, p>> \in Credentials
      BY <3>0, <3>1, HandlersAssumption
    <3>3. Grants' = {<<s, u>>}
      <4>1. \A r \in out' : r.sid = s /\ r.status = "Pass"
        BY <1>2, <2>3 DEF Replied
      <4>2. \E r \in out' : TRUE
        BY <1>2
      <4> QED BY <1>3, <3>1, <4>1, <4>2 DEF Grants
    <3>4. known[s].next # "getUsername"
      BY <2>3, NoGrantBeforePassword DEF Outcomes
    <3>5. Phases[s] = "idle" \/ (Phases[s] = "password" /\ Subjects[s] = u)
      <4>1. CASE known[s].next = "getPassword"
        <5>1. Live(s) /\ told[s].user # Empty /\ known[s].username = told[s].user
          BY <1>1, <4>1 DEF TableHoldsClaim, Live, NoSession
        <5> QED BY <1>6, <3>1, <4>1, <5>1 DEF Hear, PhaseOf
      <4>2. CASE known[s].next # "getPassword"
        BY <1>6, <3>4, <4>2 DEF PhaseOf
      <4> QED BY <4>1, <4>2
    <3>6. Login!Grant(s, u)
      BY <2>1, <3>2, <3>3, <3>5 DEF Login!Grant, Login!Move, Phases, Subjects, Grants
    <3> QED BY <3>1, <3>6 DEF Login!Next
  <2> QED BY <2>2, <2>3
<1> QED BY <1>5, <1>7, <1>8, <1>9 DEF NextHandler

\* A step that drops every session ends all dialogues.
LEMMA DropIsHangup ==
    ASSUME known' = [s \in SessionID |-> NoSession], \A r \in out' : r.status # "Pass"
    PROVE  Login!Next
<1>1. Phases' = [s \in SessionID |-> "idle"] /\ Subjects' = [s \in SessionID |-> Empty]
  BY DEF Phases, Subjects, PhaseOf, NoSession
<1>2. Grants' = {}
  BY DEF Grants
<1> QED BY <1>1, <1>2 DEF Login!Next, Login!Hangup, Phases, Subjects, Grants

\* Initial states are initial.
LEMMA InitIsInit == Init => Login!Init
BY DEF Init, Login!Init, PhaseOf, NoSession

\* Every step of the connection is a step of LoginSession or a stutter.
LEMMA NextIsNext == Inv /\ [Next]_vars => [Login!Next]_(Login!vars)
<1> SUFFICES ASSUME Inv, [Next]_vars PROVE [Login!Next]_(Login!vars)
  OBVIOUS
<1>1. ASSUME NEW s \in SessionID, NEW m \in Messages, BadSecret(s, m) PROVE Login!Next
  BY <1>1, DropIsHangup DEF BadSecret, Close
<1>2. ASSUME NEW s \in SessionID, NEW n \in 1..MaxSeq, NEW m \in Messages,
             EvenSequence(s, n, m) \/ StaleSequence(s, n, m) \/ HandlerPanics(s, n, m)
      PROVE  Login!Next
  BY <1>2, DropIsHangup DEF EvenSequence, StaleSequence, HandlerPanics, Close
<1>3. ASSUME NEW s \in SessionID, NEW n \in 1..MaxSeq, NEW m \in Messages, HandlePacket(s, n, m)
      PROVE  Login!Next
  BY <1>3, HandleIsDialogue
<1>4. CASE ReadFails \/ Reconnect
  BY <1>4, DropIsHangup DEF ReadFails, Reconnect, Close
<1>5. CASE UNCHANGED vars
  BY <1>5 DEF vars, Login!vars, PhaseOf
<1> QED BY <1>1, <1>2, <1>3, <1>4, <1>5 DEF Next

\* The connection loop of Server.handle, with its table of interleaved sessions,
\* implements independent dialogues that end by the third message.
THEOREM LoginRefinement == Spec => ImplementsLogin
BY InitIsInit, NextIsNext, InvHolds, PTL DEF Spec, ImplementsLogin, Login!Spec

=============================================================================
