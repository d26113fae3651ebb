------------------------------- MODULE MCWire -------------------------------
(***************************************************************************)
(* Wire on a corpus of packets: for every body type a message and its      *)
(* variations in one field, with the values where the code decides         *)
(* differently, small bodies of every shape, and headers of every kind.    *)
(***************************************************************************)
EXTENDS Wire

\* Stands for MD5: depends on everything the code feeds it.
MCPad(secret, sid, version, seq, i) ==
    (IF secret = "s1" THEN 37 ELSE 90) * i + 3 * sid + 5 * version + 11 * seq

MCPadOctet(secret, sid, version, seq, i) == MCPad(secret, sid, version, seq, i) % 256

Text(n) == [i \in 1..n |-> 97]

BaseOf(t) ==
    [f \in Fields[t] |->
        CASE Kind[t][f] = "octet" -> 1
          [] Kind[t][f] = "count" -> <<Text(2), Text(3)>>
          [] OTHER -> Text(2)]

\* The values a field is given: allowed and not, and at the limits of its width.
Values(kind) ==
    CASE kind = "octet" -> {0, 2, 4, 7, 8, 12, 15, 16, 17, 255}
      [] kind = "count" -> {<<>>, <<Text(1)>>, <<Text(255)>>, <<Text(256)>>, <<<<97, 200>>>>,
                            [i \in 1..255 |-> Text(2)], [i \in 1..256 |-> Text(2)]}
      [] kind = "len8" -> {<<>>, <<97, 200>>, Text(255), Text(256), Text(258)}
      [] kind = "len16" -> {<<>>, <<97, 200>>, Text(255), Text(256), Text(258)}

Variations(t) ==
    {BaseOf(t)} \cup
    UNION {{[BaseOf(t) EXCEPT ![f] = v] : v \in Values(Kind[t][f])} : f \in Fields[t]}

TypeNo(t) ==
    CASE t \in {"AuthenStart", "AuthenContinue", "AuthenReply"} -> 1
      [] t \in {"AuthorRequest", "AuthorReply"} -> 2
      [] t \in {"AcctRequest", "AcctReply"} -> 3

HeaderFor(type, seq) ==
    [major |-> 12, minor |-> 0, type |-> type, seq |-> seq, flags |-> 0, sid |-> 66051,
     length |-> 0]

Entry(h, t, msg) == [h |-> h, t |-> t, msg |-> msg]

Plain(t, seq) == Entry(HeaderFor(TypeNo(t), seq), t, BaseOf(t))

Messages ==
    UNION {{Entry(HeaderFor(TypeNo(t), 1), t, m) : m \in Variations(t)} : t \in BodyType}

\* Texts at the limit of two octets.
Wide ==
    {Entry(HeaderFor(3, 1), "AcctReply", [BaseOf("AcctReply") EXCEPT !.servermsg = Text(n)]) :
        n \in {65529, 65530, 65536}}

\* Other headers, some of them not valid.
Headers ==
    LET h == HeaderFor(1, 1) IN
    {[h EXCEPT !.major = 11], [h EXCEPT !.minor = 1], [h EXCEPT !.minor = 2],
     [h EXCEPT !.type = 4], [h EXCEPT !.seq = 0], [h EXCEPT !.seq = 2], [h EXCEPT !.seq = 255],
     [h EXCEPT !.flags = 1], [h EXCEPT !.flags = 4],
     [h EXCEPT !.seq = 2, !.flags = 5]}

WithHeaders == {Entry(h, "AuthenStart", BaseOf("AuthenStart")) : h \in Headers}

Encodings == {MarshalBinary(t, BaseOf(t)) : t \in BodyType}

\* Bodies that are no messages: every sequence of small octets, encodings that end
\* early or late, and bodies of the least lengths a Continue with one or with two
\* lengths of 256 has.
Bodies ==
    UNION {[1..n -> {0, 1}] : n \in {0, 4, 5, 6, 8}}
    \cup {SubSeq(e, 1, Len(e) - n) : e \in Encodings, n \in 1..4}
    \cup {e \o <<0, 200>> : e \in Encodings}
    \cup {h \o [i \in 1..n |-> 0] : h \in [1..4 -> {0, 1}], n \in {257, 512, 513}}

Raw == {Entry(HeaderFor(type, 1), "raw", b) : type \in 1..3, b \in Bodies}

\* Headers no writer of this program makes, each with a body of one octet; the
\* last one says that its body is too long.
Foreign ==
    {Entry(h, "foreign", HeaderMarshal([h EXCEPT !.length = 1]) \o <<0>>) : h \in Headers}
    \cup {Entry(HeaderFor(1, 1), "foreign", HeaderMarshal([HeaderFor(1, 1) EXCEPT !.length = 65537]))}

Ends(secret, proxy, line, every) ==
    [writer |-> "s1", reader |-> secret, proxy |-> proxy, line |-> line, every |-> every]

Direct == {Ends("s1", FALSE, <<>>, FALSE), Ends("s2", FALSE, <<>>, FALSE)}

\* "PROXY ", a network, " a b 1 2" and the end of the line; a network that is not
\* known; a line with one part too many.
Line(network, more) ==
    Signature \o <<32>> \o network \o <<32, 97, 32, 98, 32, 49, 32, 50>> \o more \o LineEnd

Lines == {<<>>, Line(<<84, 67, 80, 54>>, <<>>), Line(<<84, 67, 80, 53>>, <<>>),
          Line(<<84, 67, 80>>, <<32>>)}

Proxied == {Ends("s1", proxy, line, every) : proxy \in BOOLEAN, line \in Lines, every \in BOOLEAN}

Exchanges ==
    {<<Plain(s[1], 1), Plain(s[2], 2), Plain(s[1], 3)>> :
        s \in {x \in BodyType \X BodyType : TypeNo(x[1]) = TypeNo(x[2])}}

\* A packet in the clear, which passes with any secret, and one of another type and
\* session after it.
ClearFirst ==
    LET clear(t) == [Plain(t, 1) EXCEPT !.h.flags = 1]
        other(t) == [Plain(t, 1) EXCEPT !.h.sid = 66052]
    IN  {<<clear(s[1]), other(s[2])>> :
            s \in {x \in BodyType \X BodyType : TypeNo(x[1]) # TypeNo(x[2])}}

Singles == {<<e>> : e \in Messages \cup Wide \cup WithHeaders \cup Raw \cup Foreign}

Setup(s, e) == [script |-> s, ends |-> e]

MCSetups ==
    {Setup(s, e) : s \in Singles \cup Exchanges \cup ClearFirst, e \in Direct}
    \cup {Setup(s, e) : s \in Exchanges, e \in Proxied}

\* Anywhere in the first packets: in a line, in a header, in a body, between them.
MCBreaks == 0..40

=============================================================================
