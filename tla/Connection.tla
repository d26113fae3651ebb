----------------------------- MODULE Connection -----------------------------
(***************************************************************************)
(* One client connection of the server: the packet loop of Server.handle   *)
(* (server.go), the per-connection session table (sessions.go) and the     *)
(* numbering of replies (response.Reply in handlers.go), driving the       *)
(* request handlers of module Handlers.                                    *)
(*                                                                         *)
(* A connection multiplexes sessions: any packet may belong to any session *)
(* id.  One goroutine serves the connection, so handling a packet is one   *)
(* step: read, look the session up, run its handler, reply, and update or  *)
(* delete the session.  The client may send any message of Messages, on    *)
(* any session and with any sequence number.  When the connection has      *)
(* closed the client may open another.                                     *)
(***************************************************************************)
EXTENDS Handlers, FiniteSets, Integers

CONSTANTS
    SessionID,
    MaxSeq,         \* HeaderMaxSequence, 255 in the code: the largest value of a
                    \* uint8, so a sequence number is stored modulo MaxSeq + 1
    Messages,       \* what the client can send, apart from session and sequence
    MaxConns        \* bound: connections the client opens one after the other

Message == [type : HeaderType, minor : MinorVersion, unencrypted : BOOLEAN, body : Body]

\* A session id is a uint32.  An AuthenStart only decodes with an authentication type (AuthenStart.Validate).
ASSUME ConnectionAssumption ==
    /\ MaxSeq \in Nat /\ MaxSeq % 2 = 1
    /\ MaxConns \in Nat
    /\ IsFiniteSet(SessionID)
    /\ Messages \subseteq Message
    /\ \A m \in Messages :
          Decodes(m.body, "AuthenStart") => m.body["AuthenStart"].atype # "NotSet"

VARIABLES
    conn,           \* "open", "closed", or "panicked" once the process is dead
    conns,          \* connections accepted so far
    known,          \* sessions.known: the session table of the open connection
    sessionsActive, \* the gauge sessions_active
    out,            \* the reply made in the last step, as a set of at most one
    told            \* history: what the client has said on each session

vars == <<conn, conns, known, sessionsActive, out, told>>

(***************************************************************************)
(* Sequence numbers (header_fields.go)                                     *)
(***************************************************************************)
SequenceNumberValid(n) == 1 <= n /\ n <= MaxSeq

ClientSequenceNumberValid(n) == n % 2 # 0

\* Fault: an off-by-two comparison, as if the last packet had been stored.
LastSequenceLoose(last, current) == last % (MaxSeq + 1) <= current + 1

\* LastSequence compares uint8 values: a stored MaxSeq + 1 has become 0.
LastSequenceValid(last, current) == last % (MaxSeq + 1) < current

(***************************************************************************)
(* State                                                                   *)
(***************************************************************************)
\* sessionContext: the sequence number of the last reply, the handler to run
\* next and the user name that handler holds.
Session == [seq : 1..(MaxSeq + 1), next : {"getUsername", "getPassword"}, username : Text]

\* The value for a session id that is not in the table.
NoSession == [seq |-> 0, next |-> "nil", username |-> Empty]

Live(s) == known[s] # NoSession

\* sent: the reply was encoded and written to the connection.
Reply == [sid : SessionID, type : HeaderType, seq : 1..(MaxSeq + 1), body : ReplyType,
          status : Status, logged : BOOLEAN, sent : BOOLEAN]

\* user: the name given first on the session.  presented: the texts of the
\* latest packet that could be a password.  packets: how many were handled,
\* counted up to 3.
Told == [user : Text, presented : SUBSET Text, packets : Nat]

Nothing == [user |-> Empty, presented |-> {}, packets |-> 0]

TypeOK ==
    /\ conn \in {"open", "closed", "panicked"}
    /\ conns \in Nat
    /\ known \in [SessionID -> Session \cup {NoSession}]
    /\ sessionsActive \in Int
    /\ out \in SUBSET Reply
    /\ told \in [SessionID -> Told]

Init ==
    /\ conn = "open"
    /\ conns = 1
    /\ known = [s \in SessionID |-> NoSession]
    /\ sessionsActive = 0
    /\ out = {}
    /\ told = [s \in SessionID |-> Nothing]

(***************************************************************************)
(* The history: computed from the packets alone, never from the table.     *)
(***************************************************************************)
TextsOf(b) ==
    {b[t].text : t \in {k \in {"AuthenStart", "AuthenContinue"} : Decodes(b, k)}}

\* The name a first packet gives, and the one a later packet gives when the
\* client had named nobody yet.
FirstName(b) == IF Decodes(b, "AuthenStart") THEN b["AuthenStart"].user ELSE Empty

LaterName(b) == IF Decodes(b, "AuthenContinue") THEN b["AuthenContinue"].text ELSE Empty

Hear(s, b) ==
    [user |-> IF ~Live(s) THEN FirstName(b)
              ELSE IF told[s].user = Empty THEN LaterName(b)
              ELSE told[s].user,
     presented |-> TextsOf(b),
     packets |-> IF ~Live(s) THEN 1
                 ELSE IF told[s].packets < 3 THEN told[s].packets + 1
                 ELSE told[s].packets]

\* What was said on a session is forgotten one step after it has ended.
Remember(s, b) ==
    [r \in SessionID |-> IF r = s THEN Hear(s, b)
                         ELSE IF Live(r) THEN told[r] ELSE Nothing]

(***************************************************************************)
(* Reading a packet: crypter.read                                          *)
(***************************************************************************)
Candidates(type) ==
    CASE type = "Authenticate" -> {"AuthenStart", "AuthenContinue", "AuthenReply"}
      [] type = "Authorize" -> {"AuthorRequest", "AuthorReply"}
      [] type = "Accounting" -> {"AcctRequest", "AcctReply"}

DetectBadSecret(m) ==
    ~m.unencrypted /\ \A t \in Candidates(m.type) : m.body[t].err = "badSecret"

ReplyBody(type) ==
    CASE type = "Authenticate" -> "AuthenReply"
      [] type = "Authorize" -> "AuthorReply"
      [] type = "Accounting" -> "AcctReply"

\* Server.handle returns: the connection closes and its table goes away.  The
\* gauge is left as it is: sessions.close only stops the timers.
Close ==
    /\ conn' = "closed"
    /\ known' = [s \in SessionID |-> NoSession]
    /\ UNCHANGED conns

\* No body type of the packet decodes without a sign of a wrong secret:
\* answer Error with the sequence number reset to 1, and close.
BadSecret(s, m) ==
    /\ conn = "open"
    /\ DetectBadSecret(m)
    /\ \E sent \in BOOLEAN :
          out' = {[sid |-> s, type |-> m.type, seq |-> 1, body |-> ReplyBody(m.type),
                   status |-> "Error", logged |-> FALSE, sent |-> sent]}
    /\ Close
    /\ told' = [r \in SessionID |-> Nothing]
    /\ UNCHANGED sessionsActive

\* End of file, a read deadline, a header that does not validate, a body that
\* is too long, or a cancelled context.
ReadFails ==
    /\ conn = "open"
    /\ out' = {}
    /\ Close
    /\ told' = [s \in SessionID |-> Nothing]
    /\ UNCHANGED sessionsActive

(***************************************************************************)
(* Handling a packet                                                       *)
(***************************************************************************)
\* sessions.get refuses an even number and deletes the session, whether or
\* not it knows it; sessions.delete always decrements the gauge.
EvenSequence(s, n, m) ==
    /\ conn = "open"
    /\ ~DetectBadSecret(m)
    /\ ~ClientSequenceNumberValid(n)
    /\ sessionsActive' = sessionsActive - 1
    /\ out' = {}
    /\ Close
    /\ told' = [r \in SessionID |-> Nothing]

\* sessions.get refuses a number that does not exceed the last one.
StaleSequence(s, n, m) ==
    /\ conn = "open"
    /\ ~DetectBadSecret(m)
    /\ ClientSequenceNumberValid(n)
    /\ Live(s) /\ ~LastSequenceValid(known[s].seq, n)
    /\ out' = {}
    /\ Close
    /\ told' = [r \in SessionID |-> Nothing]
    /\ UNCHANGED sessionsActive

Accepts(s, n, m) ==
    /\ conn = "open"
    /\ ~DetectBadSecret(m)
    /\ ClientSequenceNumberValid(n)
    /\ Live(s) => LastSequenceValid(known[s].seq, n)

\* Fault: the continuation takes the user name of any session of the table.
OutcomesShared(s, n, m) ==
    CASE known[s].next = "getUsername" -> {GetUsername(known[s].username, m.body)}
      [] known[s].next = "getPassword" ->
            {GetUserPassword(known[r].username, m.body) : r \in {q \in SessionID : Live(q)}}
      [] OTHER -> StartHandle(m.type, m.minor, n, m.body)

\* The handler a session continues with, or the start handler.
Outcomes(s, n, m) ==
    CASE known[s].next = "getUsername" -> {GetUsername(known[s].username, m.body)}
      [] known[s].next = "getPassword" -> {GetUserPassword(known[s].username, m.body)}
      [] OTHER -> StartHandle(m.type, m.minor, n, m.body)

\* Fault: a finished session is not deleted.
NextSessionKept(n, o) == [seq |-> n + 1, next |-> o.next, username |-> o.username]

\* sessions.update with the header of the reply, or sessions.delete.
NextSession(n, o) ==
    IF o.next = "nil" THEN NoSession
    ELSE [seq |-> n + 1, next |-> o.next, username |-> o.username]

\* Fault: sessions.delete does not decrement the gauge.
GaugeStepNoDec(s, o) == IF Live(s) THEN 0 ELSE 1

\* sessions.set for a new session, sessions.delete for a finished one.
GaugeStep(s, o) ==
    (IF Live(s) THEN 0 ELSE 1) - (IF o.next = "nil" THEN 1 ELSE 0)

\* response.Reply numbers the reply after the packet.  It goes out when its
\* body and its header encode and the write succeeds; no failure is noticed
\* by the loop.
Replied(s, n, m, o, sent) ==
    [sid |-> s, type |-> m.type, seq |-> n + 1, body |-> o.body, status |-> o.status,
     logged |-> o.logged, sent |-> sent]

HandlePacket(s, n, m) ==
    /\ Accepts(s, n, m)
    /\ \E o \in Outcomes(s, n, m), sent \in BOOLEAN :
          /\ ~o.panics
          /\ sent => o.encodes /\ SequenceNumberValid(n + 1)
          /\ out' = {Replied(s, n, m, o, sent)}
          /\ known' = [known EXCEPT ![s] = NextSession(n, o)]
          /\ sessionsActive' = sessionsActive + GaugeStep(s, o)
    /\ told' = Remember(s, m.body)
    /\ UNCHANGED <<conn, conns>>

\* Nothing recovers a panic of the handler goroutine: the process ends.
HandlerPanics(s, n, m) ==
    /\ Accepts(s, n, m)
    /\ \E o \in Outcomes(s, n, m) : o.panics
    /\ conn' = "panicked"
    /\ known' = [r \in SessionID |-> NoSession]
    /\ out' = {}
    /\ told' = [r \in SessionID |-> Nothing]
    /\ UNCHANGED <<conns, sessionsActive>>

\* The client connects again: newSessionProvider starts with an empty table.
Reconnect ==
    /\ conn = "closed"
    /\ conns < MaxConns
    /\ conn' = "open"
    /\ conns' = conns + 1
    /\ known' = [s \in SessionID |-> NoSession]
    /\ out' = {}
    /\ UNCHANGED <<sessionsActive, told>>

Next ==
    \/ \E s \in SessionID, m \in Messages : BadSecret(s, m)
    \/ \E s \in SessionID, n \in 1..MaxSeq, m \in Messages :
          \/ EvenSequence(s, n, m)
          \/ StaleSequence(s, n, m)
          \/ HandlePacket(s, n, m)
          \/ HandlerPanics(s, n, m)
    \/ ReadFails
    \/ Reconnect

Spec == Init /\ [][Next]_vars

(***************************************************************************)
(* Properties                                                              *)
(***************************************************************************)
\* A login is only ever granted (AuthenStatusPass) to the user the client named
\* first on that very session, and for a password its latest packet carried:
\* no interleaving of sessions, prompts, repeated or reordered packets makes
\* the getPassword closure of authen_ascii.go check another name.
PassIsProved ==
    \A r \in out : r.status = "Pass" =>
        \E p \in told[r.sid].presented : <<told[r.sid].user, p>> \in Credentials

\* What the session table holds agrees with what the client said: a session
\* that waits for a name has none yet, and one that waits for a password waits
\* for the password of the name given on that session.
TableHoldsClaim ==
    \A s \in SessionID : Live(s) =>
        /\ known[s].username = told[s].user
        /\ known[s].next = "getPassword" <=> told[s].user # Empty

\* On an open connection a session is in the table exactly when its last reply
\* asked for more: Server.handle keeps no entry after a verdict and loses none
\* after a prompt, even when the reply could not be written.
PromptIffLive ==
    conn = "open" =>
        \A r \in out : Live(r.sid) <=> r.status \in {"GetUser", "GetPass"}

\* A session ends by its third packet: no sequence of packets keeps it in the
\* table for more than two.
VerdictByThirdPacket ==
    \A s \in SessionID : Live(s) => told[s].packets \in 1..2

\* A packet is only handled on a running session if its sequence number exceeds
\* that of the last reply, unless that reply was numbered MaxSeq + 1 (which
\* sessions.get sees as 0).
SequenceIncreases ==
    [][conn' = "open" =>
         \A r \in out' : Live(r.sid) /\ known[r.sid].seq <= MaxSeq =>
                              r.seq > known[r.sid].seq + 1]_vars

\* While a connection stays open the gauge sessions_active moves exactly with
\* the size of the session table.
LiveSessions == {s \in SessionID : Live(s)}

GaugeFollowsTable ==
    [][conn = "open" /\ conn' = "open" =>
         sessionsActive' - sessionsActive
             = Cardinality(LiveSessions') - Cardinality(LiveSessions)]_vars

(***************************************************************************)
(* Refinement: the loop over the session table implements the independent  *)
(* dialogues of LoginSession.                                              *)
(***************************************************************************)
PhaseOf(s) ==
    CASE known[s].next = "getUsername" -> "username"
      [] known[s].next = "getPassword" -> "password"
      [] OTHER -> "idle"

Login == INSTANCE LoginSession WITH
            phase <- [s \in SessionID |-> PhaseOf(s)],
            subject <- [s \in SessionID |-> known[s].username],
            granted <- {<<r.sid, told[r.sid].user>> : r \in {q \in out : q.status = "Pass"}}

\* The connection loop implements LoginSession: each session follows its own
\* dialogue whatever the client interleaves on the connection.
ImplementsLogin == Login!Spec

(***************************************************************************)
(* What comments say of the program and the program does not do.           *)
(***************************************************************************)
\* header_fields.go, SequenceNumber: "if the sequence number 2^8-1 is ever
\* reached, that session must terminate".  No session outlives it.
MaxSequenceTerminates == \A s \in SessionID : known[s].seq <= MaxSeq

\* bcrypt.go, supportedOptions: "Hash is optional".  A login of a user without
\* one is answered like any other, it does not end the process.
HashIsOptional == conn # "panicked"

=============================================================================
