-------------------------------- MODULE Wire --------------------------------
(***************************************************************************)
(* One direction of a connection, octet by octet: the header (header.go),  *)
(* the obfuscation of the body and the two ends of the stream, write and   *)
(* read of crypter (crypt.go), with what read does about a wrong secret.   *)
(*                                                                         *)
(* The writer sends the packets of a script one after the other.  The      *)
(* stream keeps no boundaries between packets, and it may break anywhere.  *)
(* A proxy may stand between the two ends and put a line of its own before *)
(* the packets (proxy/readerwriter.go).                                    *)
(***************************************************************************)
EXTENDS Codec

CONSTANTS
    Pad(_, _, _, _, _), \* the octets of the MD5 pad, by secret, session,
                        \* version, sequence number and position
    Setups,             \* what the writer may have to send and how the two
                        \* ends and the proxy may be configured
    Breaks              \* bound: how many octets may be left of a broken stream

Header ==
    [major : Nat, minor : Nat, type : Nat, seq : Nat, flags : Octet, sid : Nat, length : Nat]

\* An entry of a script: a message of type t; a body that is no message, with
\* t = "raw"; or octets of another program, with t = "foreign".  The session is
\* an uint32.
IsEntry(x) ==
    /\ x.t \in BodyType \cup {"raw", "foreign"}
    /\ x.h \in Header /\ x.h.sid \div 16777216 \in Octet
    /\ IF x.t \in BodyType THEN IsMessage(x.t, x.msg) ELSE x.msg \in Seq(Octet)

\* The line of a proxy: a text that begins with "P" and ends with its only zero.
IsLine(line) ==
    /\ line \in Seq(Octet)
    /\ line # <<>> => /\ line[1] = 80 /\ line[Len(line)] = 0
                     /\ \A i \in 1..(Len(line) - 1) : line[i] # 0

ASSUME WireAssumption ==
    /\ Breaks \subseteq Nat
    /\ \A s \in Setups :
          /\ s.script \in Seq(Range(s.script)) /\ \A x \in Range(s.script) : IsEntry(x)
          /\ s.ends.proxy \in BOOLEAN /\ s.ends.every \in BOOLEAN /\ IsLine(s.ends.line)

VARIABLES
    script,     \* the entries still to be written
    ends,       \* the secrets of the writer and of the reader, whether the
                \* reader expects lines of a proxy, the line a proxy sends or
                \* <<>>, and whether it comes before every packet
    stream,     \* octets written and not yet read
    broken,     \* nothing will be added to the stream
    reader,     \* "open", or "closed" once read has returned an error
    written,    \* history: the packets written, before obfuscation
    got,        \* the packets read returned
    answer      \* the octets of the answer to a bad secret

vars == <<script, ends, stream, broken, reader, written, got, answer>>

MaxHeaderLength == 12

(***************************************************************************)
(* The header                                                              *)
(***************************************************************************)
HeaderValid(h) ==
    /\ h.major = 12 /\ h.minor \in {0, 1}
    /\ h.type \in 1..3
    /\ h.seq \in 1..255
    /\ h.length <= MaxBodyLength

Uint32(n) == <<n \div 16777216, (n \div 65536) % 256, (n \div 256) % 256, n % 256>>

ReadUint32(d, p) ==
    16777216 * d[p + 1] + 65536 * d[p + 2] + 256 * d[p + 3] + d[p + 4]

HeaderMarshal(h) ==
    <<h.major * 16 + h.minor, h.type, h.seq, h.flags>> \o Uint32(h.sid) \o Uint32(h.length)

Bit(flags, b) == (flags \div b) % 2 = 1

\* Fault: the unencrypted flag is set instead.
FirstReplyUnencrypted(h) ==
    IF h.seq = 2 /\ ~Bit(h.flags, 1) THEN [h EXCEPT !.flags = @ + 1] ELSE h

\* The first reply of a session always sets SingleConnect.
FirstReply(h) ==
    IF h.seq = 2 /\ ~Bit(h.flags, 4) THEN [h EXCEPT !.flags = @ + 4] ELSE h

HeaderUnmarshal(d) ==
    FirstReply([major |-> d[1] \div 16, minor |-> d[1] % 16, type |-> d[2], seq |-> d[3],
                flags |-> d[4], sid |-> ReadUint32(d, 4), length |-> ReadUint32(d, 8)])

(***************************************************************************)
(* Obfuscation                                                             *)
(***************************************************************************)
\* x ^ y on octets, bit by bit.
XorBit(x, y, b) == IF Bit(x, b) = Bit(y, b) THEN 0 ELSE b

Xor ==
    [x \in Octet |-> [y \in Octet |->
        XorBit(x, y, 1) + XorBit(x, y, 2) + XorBit(x, y, 4) + XorBit(x, y, 8)
            + XorBit(x, y, 16) + XorBit(x, y, 32) + XorBit(x, y, 64) + XorBit(x, y, 128)]]

Unencrypted(h) == Bit(h.flags, 1)

\* An octet of the pad, whatever the constant is.
PadOctet(secret, h, i) ==
    LET o == Pad(secret, h.sid, h.major * 16 + h.minor, h.seq, i)
    IN  IF o \in Octet THEN o ELSE 0

\* The pad depends on the secret and on the header, never on the body.
Crypt(secret, h, body) ==
    IF Unencrypted(h) THEN body
    ELSE [i \in 1..Len(body) |-> Xor[body[i]][PadOctet(secret, h, i)]]

\* Fault: the length in the header is one octet too small.
PacketOctetsShort(secret, h, body) ==
    LET sized == [h EXCEPT !.length = Len(body) - 1]
    IN  HeaderMarshal(sized) \o Crypt(secret, sized, body)

\* crypter.write sets the length, obfuscates the body and encodes the header.
PacketOctets(secret, h, body) ==
    LET sized == [h EXCEPT !.length = Len(body)]
    IN  HeaderMarshal(sized) \o Crypt(secret, sized, body)

(***************************************************************************)
(* A wrong secret                                                          *)
(***************************************************************************)
Candidates(type) ==
    CASE type = 1 -> {"AuthenStart", "AuthenContinue", "AuthenReply"}
      [] type = 2 -> {"AuthorRequest", "AuthorReply"}
      [] type = 3 -> {"AcctRequest", "AcctReply"}

\* Fault: one decoder that fails is enough.
DetectBadSecretAny(h, body) ==
    ~Unencrypted(h) /\ \E t \in Candidates(h.type) : ShortBody(t, body)

DetectBadSecret(h, body) ==
    ~Unencrypted(h) /\ \A t \in Candidates(h.type) : ShortBody(t, body)

\* "bad"
BadSecretText == <<98, 97, 100>>

ReplyType(type) ==
    CASE type = 1 -> "AuthenReply" [] type = 2 -> "AuthorReply" [] type = 3 -> "AcctReply"

BadSecretMessage(type) ==
    CASE type = 1 -> [status |-> 7, flags |-> 0, servermsg |-> BadSecretText, data |-> <<>>]
      [] type = 2 -> [status |-> 17, args |-> <<>>, servermsg |-> BadSecretText, data |-> <<>>]
      [] type = 3 -> [status |-> 2, servermsg |-> BadSecretText, data |-> <<>>]

\* Fault: the body is obfuscated before the answer is numbered.
BadSecretReplyLate(secret, h) ==
    LET body == MarshalBinary(ReplyType(h.type), BadSecretMessage(h.type))
    IN  HeaderMarshal([h EXCEPT !.seq = 1, !.length = Len(body)]) \o Crypt(secret, h, body)

\* Fault: the answer has a header of its own, without the session.
BadSecretReplyNew(secret, h) ==
    PacketOctets(secret, [h EXCEPT !.seq = 1, !.sid = 0],
                 MarshalBinary(ReplyType(h.type), BadSecretMessage(h.type)))

\* The answer is numbered 1.
BadSecretReply(secret, h) ==
    PacketOctets(secret, [h EXCEPT !.seq = 1],
                 MarshalBinary(ReplyType(h.type), BadSecretMessage(h.type)))

(***************************************************************************)
(* The writer                                                              *)
(***************************************************************************)
Init ==
    /\ \E s \in Setups : script = s.script /\ ends = s.ends
    /\ stream = <<>>
    /\ broken = FALSE
    /\ reader = "open"
    /\ written = <<>>
    /\ got = <<>>
    /\ answer = <<>>

BodyOf(x) == IF x.t = "raw" THEN x.msg ELSE MarshalBinary(x.t, x.msg)

Packet(x) == [h |-> [x.h EXCEPT !.length = Len(BodyOf(x))], body |-> BodyOf(x),
              t |-> x.t, msg |-> x.msg]

\* A message is encoded and written, if it and its header are valid.
Encodes(x) ==
    /\ x.t \in BodyType => Valid(x.t, x.msg)
    /\ HeaderValid(Packet(x).h)

\* The proxy sends its line before the first packet, or before every packet.
LineBefore == IF ends.every \/ written = <<>> THEN ends.line ELSE <<>>

Write ==
    /\ script # <<>> /\ ~broken
    /\ script[1].t # "foreign"
    /\ script' = Tail(script)
    /\ IF Encodes(script[1])
       THEN /\ stream' = stream \o LineBefore \o PacketOctets(ends.writer, script[1].h, BodyOf(script[1]))
            /\ written' = Append(written, Packet(script[1]))
       ELSE UNCHANGED <<stream, written>>
    /\ UNCHANGED <<ends, broken, reader, got, answer>>

WriteForeign ==
    /\ script # <<>> /\ ~broken
    /\ script[1].t = "foreign"
    /\ script' = Tail(script)
    /\ stream' = stream \o script[1].msg
    /\ written' = Append(written, [h |-> script[1].h, body |-> <<>>, t |-> "foreign", msg |-> <<>>])
    /\ UNCHANGED <<ends, broken, reader, got, answer>>

\* The connection ends, perhaps in the middle of a packet.
Break(n) ==
    /\ ~broken
    /\ broken' = TRUE
    /\ n <= Len(stream)
    /\ stream' = SubSeq(stream, 1, n)
    /\ UNCHANGED <<script, ends, reader, written, got, answer>>

(***************************************************************************)
(* The reader: crypter.read                                                *)
(***************************************************************************)
\* "PROXY", the end of a line, and the names of a network in small letters.
Signature == <<80, 82, 79, 88, 89>>
LineEnd == <<13, 10, 0>>
Networks == {<<116, 99, 112>>, <<116, 99, 112, 54>>, <<116, 99, 112, 52>>}

ToLower(text) == [i \in 1..Len(text) |-> IF text[i] \in 65..90 THEN text[i] + 32 ELSE text[i]]

\* Header.Write of package proxy accepts the line: six parts, the second one a
\* network.  The addresses and ports are not looked at.
ProxyLine(line) ==
    LET ended == Len(line) >= 3 /\ SubSeq(line, Len(line) - 2, Len(line)) = LineEnd
        text == IF ended THEN SubSeq(line, 1, Len(line) - 3) ELSE line
        spaces == {i \in 1..Len(text) : text[i] = 32}
        first == Min(spaces)
    IN  /\ \E i \in 1..(Len(line) - 4) : SubSeq(line, i, i + 4) = Signature
        /\ Len(Keep(text, spaces)) = 5
        /\ ToLower(SubSeq(text, first + 1, Min(spaces \ {first}) - 1)) \in Networks

\* The line ends with the first zero octet; every packet must have one.
HasLine == ends.proxy => 0 \in Range(stream)

LineLength == IF ends.proxy THEN Min({i \in 1..Len(stream) : stream[i] = 0}) ELSE 0

LineAccepted == HasLine /\ (ends.proxy => ProxyLine(SubSeq(stream, 1, LineLength)))

\* What follows the line, when there is one and it is accepted.
Following == IF LineAccepted THEN {SubSeq(stream, LineLength + 1, Len(stream))} ELSE {}

Headed(s) == Len(s) >= MaxHeaderLength

\* The length, as read and crypt see it before the header is decoded.
BodyLength(s) == ReadUint32(s, 8)

TooLong(s) == BodyLength(s) > MaxBodyLength

Whole(s) == Len(s) >= MaxHeaderLength + BodyLength(s)

\* The packet at the start of the stream, when all of it is there, and the rest.
Received ==
    {[h |-> HeaderUnmarshal(s), rest |-> SubSeq(s, MaxHeaderLength + BodyLength(s) + 1, Len(s)),
      body |-> Crypt(ends.reader, HeaderUnmarshal(s),
                     SubSeq(s, MaxHeaderLength + 1, MaxHeaderLength + BodyLength(s)))] :
        s \in {f \in Following : Headed(f) /\ ~TooLong(f) /\ Whole(f)}}

ReadPacket ==
    /\ reader = "open"
    /\ \E p \in Received :
          /\ HeaderValid(p.h) /\ ~DetectBadSecret(p.h, p.body)
          /\ got' = Append(got, [h |-> p.h, body |-> p.body])
          /\ stream' = p.rest
    /\ UNCHANGED <<script, ends, broken, reader, written, answer>>

ReadBadSecret ==
    /\ reader = "open"
    /\ \E p \in Received :
          /\ HeaderValid(p.h) /\ DetectBadSecret(p.h, p.body)
          /\ answer' = BadSecretReply(ends.reader, p.h)
          /\ stream' = p.rest
    /\ reader' = "closed"
    /\ UNCHANGED <<script, ends, broken, written, got>>

\* A line that is no proxy's, a length above the limit, a header that is not
\* valid, or the end of the stream in the middle of a packet or between two.
ReadFails ==
    /\ reader = "open"
    /\ \/ HasLine /\ ~LineAccepted
       \/ \E s \in Following : Headed(s) /\ TooLong(s)
       \/ \E p \in Received : ~HeaderValid(p.h)
       \/ broken /\ Received = {}
    /\ reader' = "closed"
    /\ UNCHANGED <<script, ends, stream, broken, written, got, answer>>

Next == Write \/ WriteForeign \/ (\E n \in Breaks : Break(n)) \/ ReadPacket \/ ReadBadSecret \/ ReadFails

Spec == Init /\ [][Next]_vars

-----------------------------------------------------------------------------
(***************************************************************************)
(* Properties                                                              *)
(***************************************************************************)
\* Octets in the stream and in the answer; what was read has a valid header
\* that gives the length of its body.
TypeOK ==
    /\ Within(stream, Octet) /\ Within(answer, Octet)
    /\ broken \in BOOLEAN
    /\ reader \in {"open", "closed"}
    /\ \A i \in 1..Len(got) : HeaderValid(got[i].h) /\ Len(got[i].body) = got[i].h.length

SameSecret == ends.writer = ends.reader

\* Only crypter.write has put octets on the stream.
OwnTraffic == \A i \in 1..Len(written) : written[i].t # "foreign"

\* The reader expects the lines the proxy sends.
LinesFit == IF ends.proxy THEN ends.every /\ ProxyLine(ends.line) ELSE ends.line = <<>>

\* read returns the packets that were written, in order, however the packets lie in
\* the stream and wherever it breaks: it never returns a part of a packet, and never
\* loses its place, also when a proxy sends lines the reader does not expect or
\* leaves some out.  The headers are as written whatever the secrets are, and with
\* one secret at both ends so are the bodies, octet for octet.  Only the
\* SingleConnect flag of a first reply is added (crypt.go: read, write).
ReadsWhatWasWritten ==
    OwnTraffic =>
        /\ Len(got) <= Len(written)
        /\ \A i \in 1..Len(got) :
              /\ got[i].h = FirstReply(written[i].h)
              /\ SameSecret => got[i].body = written[i].body

\* A message whose one-octet lengths fit decodes at the other end to itself.
\* The two-octet lengths need no such care: a text too long for them makes a
\* body that write refuses (MarshalBinary, UnmarshalBinary of every body).
RoundTrip ==
    SameSecret /\ OwnTraffic =>
        \A i \in 1..Len(got) :
            /\ written[i].t \in BodyType
            /\ Narrow(written[i].t, written[i].msg)
            => UnmarshalBinary(written[i].t, got[i].body) = {written[i].msg}

\* A peer with the right secret that sends messages of the packet's type is never
\* told that its secret is bad, and read gives up on it only at the end of the
\* stream (crypt.go: detectBadSecret guesses from the lengths alone).
RightSecretAccepted ==
    /\ SameSecret /\ OwnTraffic /\ LinesFit
    /\ \A i \in 1..Len(written) :
          /\ written[i].t \in Candidates(written[i].h.type)
          /\ Narrow(written[i].t, written[i].msg)
    => answer = <<>> /\ (reader = "closed" => broken)

\* A header h of the same type and session as g.
Answers(h, g) == h.type = g.type /\ h.sid = g.sid

\* Whatever its secret, a peer that read turns away can read why with the
\* reader's secret: an Error reply of the type that the answer's header says
\* (crypt.go: badSecretReply is itself obfuscated and numbered 1).  Where only write
\* has put octets on the stream, that type and the session are those of the packet
\* that was turned away, the one written after those that read has returned.
AnswerIsReadable ==
    answer # <<>> =>
        LET h == HeaderUnmarshal(answer)
            body == Crypt(ends.reader, h, SubSeq(answer, MaxHeaderLength + 1, Len(answer)))
        IN  /\ HeaderValid(h) /\ h.length = Len(body)
            /\ UnmarshalBinary(ReplyType(h.type), body) = {BadSecretMessage(h.type)}
            /\ OwnTraffic => Len(got) < Len(written) /\ Answers(h, written[Len(got) + 1].h)

\* What decodes has only one encoding: encoding it again gives back the octets it
\* was decoded from, up to octets after the last text, which are ignored.  A body
\* shorter than its head (AuthenReply accepts one) is the only exception.
Canonical ==
    \A i \in 1..Len(got) : \A t \in Candidates(got[i].h.type) :
        Len(got[i].body) >= HeadLen[t] =>
            \A m \in UnmarshalBinary(t, got[i].body) :
                SubSeq(got[i].body, 1, Len(MarshalBinary(t, m))) = MarshalBinary(t, m)

\* No shorter body decodes both as an AuthenStart and as an AuthenContinue, so that
\* GetPassword (authenticators/shared.go), which tries a Start first whatever the
\* sequence number, does not take the password from the wrong place of a Continue,
\* and authenticateContinueStop does not take a Start for an abort.
StartOrContinue ==
    \A i \in 1..Len(got) :
        got[i].h.type = 1 /\ Len(got[i].body) < AmbiguousFrom
            => {} \in {UnmarshalBinary(t, got[i].body) : t \in {"AuthenStart", "AuthenContinue"}}

=============================================================================
