---------------------------- MODULE ClientLogin ----------------------------
(***************************************************************************)
(* The test client (cmds/client) on a connection of its own: it sends the  *)
(* packets of a PAP or of an ASCII login one at a time with Client.Send    *)
(* (client.go), which waits for the reply, and gives up when a reply is    *)
(* not the one it expects.  The other end is module Connection.            *)
(***************************************************************************)
EXTENDS Connection, Sequences

CONSTANTS
    Given,      \* the <<user, password>> pairs the flags may have
    Sid         \* the session id the client uses

VARIABLES
    mode,       \* the flag authen-mode
    given,      \* the flags username and password
    step,       \* the packet to be sent next
    client      \* "running", "waiting" in read, "error", "refused" or "passed"

clientVars == <<mode, given, step, client>>

User == given[1]
Password == given[2]

Undecoded ==
    [err |-> "invalid", action |-> "Login", atype |-> "NotSet", service |-> "NotSet",
     user |-> Empty, text |-> Empty, flag |-> "none"]

BodyAs(t, d) == [[k \in BodyType |-> Undecoded] EXCEPT ![t] = d]

PacketOf(minor, n, body) ==
    [seq |-> n, m |-> [type |-> "Authenticate", minor |-> minor, unencrypted |-> FALSE,
                       body |-> body]]

AuthenStart(atype, service, user, data) ==
    BodyAs("AuthenStart", [Undecoded EXCEPT !.err = "none", !.atype = atype,
                              !.service = service, !.user = user, !.text = data])

AuthenContinue(msg) ==
    BodyAs("AuthenContinue", [Undecoded EXCEPT !.err = "none", !.text = msg])

\* The third packet has the user name where the password belongs.
NewASCIIAuthenSequence ==
    <<[packet |-> PacketOf(0, 1, AuthenStart("ASCII", "Login", Empty, Empty)), expect |-> "GetUser"],
      [packet |-> PacketOf(0, 3, AuthenContinue(User)), expect |-> "GetPass"],
      [packet |-> PacketOf(0, 5, AuthenContinue(User)), expect |-> "Pass"]>>

\* The reply of a PAP login is printed, whatever its status is.
NewPAPRequest ==
    <<[packet |-> PacketOf(1, 1, AuthenStart("PAP", "NotSet", User, Password)), expect |-> "Pass"]>>

Sequence == IF mode = "ascii" THEN NewASCIIAuthenSequence ELSE NewPAPRequest

ClientInit ==
    /\ Init
    /\ mode \in {"ascii", "pap"}
    /\ given \in Given
    /\ step = 1
    /\ client = "running"

(***************************************************************************)
(* Client.Send, with the step of the server on the packet                  *)
(***************************************************************************)
ThePacket == Sequence[step].packet

\* What validate, or the reader of the printed reply, makes of it.
Verdict(reply) ==
    IF ~reply.sent THEN "waiting"
    ELSE IF reply.status # Sequence[step].expect THEN "refused"
    ELSE IF step = Len(Sequence) THEN "passed"
    ELSE "running"

SendServed ==
    /\ client = "running"
    /\ HandlePacket(Sid, ThePacket.seq, ThePacket.m)
    /\ \A reply \in out' :
          /\ client' = Verdict(reply)
          /\ step' = IF Verdict(reply) = "running" THEN step + 1 ELSE step
    /\ UNCHANGED <<mode, given>>

\* The server closes the connection without a reply, or dies.
SendDropped ==
    /\ client = "running"
    /\ \/ EvenSequence(Sid, ThePacket.seq, ThePacket.m)
       \/ StaleSequence(Sid, ThePacket.seq, ThePacket.m)
       \/ HandlerPanics(Sid, ThePacket.seq, ThePacket.m)
    /\ client' = "error"
    /\ UNCHANGED <<mode, given, step>>

\* The connection ends, before a packet or while the client waits for a reply.
ConnectionLost ==
    /\ client \in {"running", "waiting"}
    /\ ReadFails
    /\ client' = "error"
    /\ UNCHANGED <<mode, given, step>>

ClientNext == SendServed \/ SendDropped \/ ConnectionLost

ClientSpec == ClientInit /\ [][ClientNext]_<<vars, clientVars>>

-----------------------------------------------------------------------------
\* cmds/client/main.go, the flag password: "the password to use when
\* authenticating."  A client that was given the right password of a user is
\* refused by no reply.
GivenPasswordIsUsed == client = "refused" => given \notin Credentials

=============================================================================
