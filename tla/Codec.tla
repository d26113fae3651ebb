------------------------------- MODULE Codec -------------------------------
(***************************************************************************)
(* The seven packet bodies (authenticate.go, authorize.go, accounting.go)  *)
(* and the encoding of their fields.                                       *)
(*                                                                         *)
(* All bodies have one shape: a head of octets and of lengths, the lengths *)
(* of the arguments, the texts in the order of their lengths, and the      *)
(* arguments.  A body type is therefore described by its layout, and       *)
(* Validate, MarshalBinary, UnmarshalBinary and Len are defined once for   *)
(* all layouts.  Octets and lengths have the widths and values of the code.*)
(***************************************************************************)
EXTENDS Integers, Lists

Octet == 0..255

\* The longest body a packet may have.
MaxBodyLength == 65536

\* isAllASCII: every octet of the string is below this bound.
ASCII == 0..127

(***************************************************************************)
(* Fields: the octets each of them allows (the Validate of its type).      *)
(***************************************************************************)
\* Fault: zero counts as an action.
AuthenActionUnset == {0, 1, 2, 4}

AuthenAction == {1, 2, 4}
PrivLvl == 0..15
AuthenType == 0..6
AuthenService == 0..9
AuthenMethod == 0..6 \cup {8, 16}
AuthenStatus == 1..7
AuthorStatus == {1, 2, 16, 17}
AcctReplyStatus == {1, 2}

\* The bits of stop (4) and of watchdog (8) exclude each other.
AcctRequestFlag == {f \in Octet : (f \div 4) % 4 # 3}

AuthenUser == ASCII
AuthenPort == ASCII
AuthenRemAddr == ASCII
AuthenUserMessage == ASCII
AuthorServerMsg == ASCII
AuthorData == ASCII
AcctServerMsg == ASCII
AcctData == ASCII

\* Not checked at all, or only under a condition (see Valid).
AuthenData == Octet
AuthenServerMsg == Octet
AuthenFlags == Octet

(***************************************************************************)
(* Layouts                                                                 *)
(***************************************************************************)
\* kind: "octet", or the width in which the length of a text ("len8", "len16")
\* or the number of the arguments ("count") is written.
Item(field, kind, allowed) == [field |-> field, kind |-> kind, allowed |-> allowed]

\* Who the request is about: common to AuthenStart and both kinds of request.
User == Item("user", "len8", AuthenUser)
Port == Item("port", "len8", AuthenPort)
RemAddr == Item("remaddr", "len8", AuthenRemAddr)

AuthenStart ==
    [min |-> 8,
     head |-> <<Item("action", "octet", AuthenAction), Item("privlvl", "octet", PrivLvl),
                Item("type", "octet", AuthenType), Item("service", "octet", AuthenService),
                User, Port, RemAddr, Item("data", "len8", AuthenData)>>]

AuthenContinue ==
    [min |-> 5,
     head |-> <<Item("usermessage", "len16", AuthenUserMessage),
                Item("data", "len16", AuthenData), Item("flags", "octet", AuthenFlags)>>]

\* The head is one octet longer than the least length that is accepted.
AuthenReply ==
    [min |-> 5,
     head |-> <<Item("status", "octet", AuthenStatus), Item("flags", "octet", AuthenFlags),
                Item("servermsg", "len16", AuthenServerMsg),
                Item("data", "len16", AuthenData)>>]

AuthorRequest ==
    [min |-> 8,
     head |-> <<Item("method", "octet", AuthenMethod), Item("privlvl", "octet", PrivLvl),
                Item("type", "octet", AuthenType), Item("service", "octet", AuthenService),
                User, Port, RemAddr, Item("args", "count", ASCII)>>]

AuthorReply ==
    [min |-> 6,
     head |-> <<Item("status", "octet", AuthorStatus), Item("args", "count", ASCII),
                Item("servermsg", "len16", AuthorServerMsg),
                Item("data", "len16", AuthorData)>>]

AcctRequest ==
    [min |-> 9,
     head |-> <<Item("flags", "octet", AcctRequestFlag), Item("method", "octet", AuthenMethod),
                Item("privlvl", "octet", PrivLvl), Item("type", "octet", AuthenType),
                Item("service", "octet", AuthenService),
                User, Port, RemAddr, Item("args", "count", ASCII)>>]

AcctReply ==
    [min |-> 5,
     head |-> <<Item("servermsg", "len16", AcctServerMsg), Item("data", "len16", AcctData),
                Item("status", "octet", AcctReplyStatus)>>]

Layout ==
    [AuthenStart |-> AuthenStart, AuthenContinue |-> AuthenContinue,
     AuthenReply |-> AuthenReply, AuthorRequest |-> AuthorRequest,
     AuthorReply |-> AuthorReply, AcctRequest |-> AcctRequest, AcctReply |-> AcctReply]

BodyType == DOMAIN Layout

\* The rest of the description of a body type follows from its head.
HeadOf == [t \in BodyType |-> Layout[t].head]

Fields == [t \in BodyType |-> {x.field : x \in Range(HeadOf[t])}]

\* The position in the head of the item of a field.
Index == [t \in BodyType |-> [f \in Fields[t] |->
             CHOOSE i \in 1..Len(HeadOf[t]) : HeadOf[t][i].field = f]]

Kind == [t \in BodyType |-> [f \in Fields[t] |-> HeadOf[t][Index[t][f]].kind]]

\* The fields that are texts, in order.
Texts ==
    [t \in BodyType |->
        LET head == HeadOf[t]
            texts == Keep(head, {i \in 1..Len(head) : head[i].kind \in {"len8", "len16"}})
        IN  [i \in 1..Len(texts) |-> texts[i].field]]

Sum(s) == Sums(s)[Len(s)]

Widths == [t \in BodyType |->
              [i \in 1..Len(HeadOf[t]) |-> IF HeadOf[t][i].kind = "len16" THEN 2 ELSE 1]]

HeadLen == [t \in BodyType |-> Sum(Widths[t])]

\* How many octets of the head come before the item of a field.
Offset == [t \in BodyType |-> [f \in Fields[t] |-> Sums(Widths[t])[Index[t][f] - 1]]]

(***************************************************************************)
(* Messages.  A message is a function from its fields: an octet, a text or *)
(* the sequence of the arguments.                                          *)
(***************************************************************************)
ValueOf(kind) ==
    CASE kind = "octet" -> Octet [] kind = "count" -> Seq(Seq(Octet)) [] OTHER -> Seq(Octet)

IsMessage(t, m) ==
    /\ m = [f \in Fields[t] |-> m[f]]
    /\ \A x \in Range(HeadOf[t]) : m[x.field] \in ValueOf(x.kind)

(***************************************************************************)
(* Validate                                                                *)
(***************************************************************************)
Within(text, allowed) == \A i \in 1..Len(text) : text[i] \in allowed

\* Arg.Validate
ValidArg(arg) == Within(arg, ASCII) /\ Len(arg) \in 2..255

ValidField(x, v) ==
    CASE x.kind = "octet" -> v \in x.allowed
      [] x.kind = "count" -> \A i \in 1..Len(v) : ValidArg(v[i])
      [] OTHER -> Within(v, x.allowed)

\* AuthenStart.Validate wants an authentication type, and in an ASCII login
\* the data is a text.  No length is checked except that of an argument.
Valid(t, m) ==
    /\ \A x \in Range(HeadOf[t]) : ValidField(x, m[x.field])
    /\ t = "AuthenStart" => m.type # 0 /\ (m.type = 1 => Within(m.data, ASCII))

(***************************************************************************)
(* MarshalBinary                                                           *)
(***************************************************************************)
\* appendUint16, and uint8(len) for the others: a length that is too large is
\* truncated.
EncodeItem(x, v) ==
    CASE x.kind = "octet" -> <<v>>
      [] x.kind = "len16" -> <<(Len(v) \div 256) % 256, Len(v) % 256>>
      [] OTHER -> <<Len(v) % 256>>

\* Fault: the arguments are left out.
ArgsOfNone(t, m) == <<>>

ArgsOf(t, m) == IF "args" \in Fields[t] THEN m.args ELSE <<>>

\* What a valid message is encoded to.
MarshalBinary(t, m) ==
    LET args == ArgsOf(t, m) IN
    Join([i \in 1..Len(HeadOf[t]) |-> EncodeItem(HeadOf[t][i], m[HeadOf[t][i].field])])
        \o [i \in 1..Len(args) |-> Len(args[i])]
        \o Join([i \in 1..Len(Texts[t]) |-> m[Texts[t][i]]])
        \o Join(args)

(***************************************************************************)
(* UnmarshalBinary                                                         *)
(***************************************************************************)
\* readBuffer.int: past the end there are zeroes.
ReadInt(d, p) == IF p < Len(d) THEN d[p + 1] ELSE 0

\* readBuffer.uint16: a last single octet is the whole number.
ReadUint16(d, p) ==
    IF p + 1 < Len(d) THEN 256 * d[p + 1] + d[p + 2] ELSE ReadInt(d, p)

\* Fault: the octets of a length are read in the wrong order.
ReadItemSwapped(t, field, d) ==
    LET p == Offset[t][field] IN
    IF Kind[t][field] # "len16" THEN ReadInt(d, p)
    ELSE ReadInt(d, p) + 256 * ReadInt(d, p + 1)

ReadItem(t, field, d) ==
    IF Kind[t][field] = "len16" THEN ReadUint16(d, Offset[t][field])
                                ELSE ReadInt(d, Offset[t][field])

ArgCount(t, d) == IF "args" \in Fields[t] THEN ReadItem(t, "args", d) ELSE 0

\* The lengths the body gives for its texts and its arguments.
Lengths(t, d) ==
    [i \in 1..Len(Texts[t]) |-> ReadItem(t, Texts[t][i], d)]
        \o [i \in 1..ArgCount(t, d) |-> ReadInt(d, HeadLen[t] + i - 1)]

\* Where the first text begins.
TextStart(t, d) == HeadLen[t] + ArgCount(t, d)

\* readBuffer.string: less than was asked for when the body ends before.
ReadString(d, p, n) == SubSeq(d, p + 1, IF p + n < Len(d) THEN p + n ELSE Len(d))

Pieces(t, d) ==
    LET lens == Lengths(t, d)
        ahead == Sums(lens)
    IN  [i \in 1..Len(lens) |-> ReadString(d, TextStart(t, d) + ahead[i - 1], lens[i])]

\* The message with these texts and arguments.
Assembled(t, d, pieces) ==
    [f \in Fields[t] |->
        CASE Kind[t][f] = "octet" -> ReadItem(t, f, d)
          [] Kind[t][f] = "count" -> SubSeq(pieces, Len(Texts[t]) + 1, Len(pieces))
          [] OTHER -> pieces[CHOOSE i \in 1..Len(Texts[t]) : Texts[t][i] = f]]

\* How much there is after the lengths.
TextLen(t, d) == IF Len(d) > TextStart(t, d) THEN Len(d) - TextStart(t, d) ELSE 0

\* BadSecretErr: the lengths say more than the texts have.
ShortBody(t, d) ==
    /\ Len(d) >= Layout[t].min
    /\ Sum(Lengths(t, d)) > TextLen(t, d)

\* The message a body decodes to, as a set: empty when there is an error.
UnmarshalBinary(t, d) ==
    IF Len(d) < Layout[t].min \/ ShortBody(t, d) THEN {}
    ELSE {m \in {Assembled(t, d, pieces) : pieces \in {Pieces(t, d)}} : Valid(t, m)}

-----------------------------------------------------------------------------
(***************************************************************************)
(* For properties                                                          *)
(***************************************************************************)
\* The lengths and the number of arguments that are written in one octet fit it.
Narrow(t, m) ==
    \A x \in Range(HeadOf[t]) : x.kind \in {"len8", "count"} => Len(m[x.field]) < 256

\* The least length of a body that could be both a Start and a Continue: the
\* first four octets of a Start say at least 256 for both lengths of a Continue.
AmbiguousFrom == 5 + 256 + 256

=============================================================================
