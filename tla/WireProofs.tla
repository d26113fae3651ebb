---------------------------- MODULE WireProofs ----------------------------
(***************************************************************************)
(* Theorems about Wire, for any packets, secrets, pads and lines of a      *)
(* proxy, and for a stream that breaks anywhere.                           *)
(***************************************************************************)
EXTENDS Wire, CodecProofs

(***************************************************************************)
(* Obfuscation                                                             *)
(***************************************************************************)
\* The same pad: what Crypt takes from a header.
SameKey(g, h) ==
    /\ g.sid = h.sid /\ g.major = h.major /\ g.minor = h.minor /\ g.seq = h.seq
    /\ Unencrypted(g) <=> Unencrypted(h)

LEMMA CryptTwice ==
    \A secret, g, h : \A body \in Seq(Octet) :
        SameKey(g, h) =>
            /\ Crypt(secret, h, body) \in Seq(Octet)
            /\ Len(Crypt(secret, h, body)) = Len(body)
            /\ Crypt(secret, g, Crypt(secret, h, body)) = body
\* An octet is the sum of its bits.
<1>BitsOfSum. ASSUME NEW a \in {0, 1}, NEW b \in {0, 1}, NEW c \in {0, 1}, NEW d \in {0, 1},
                     NEW e \in {0, 1}, NEW f \in {0, 1}, NEW g \in {0, 1}, NEW h \in {0, 1}
              PROVE  LET s == a + 2 * b + 4 * c + 8 * d + 16 * e + 32 * f + 64 * g + 128 * h IN
                     /\ s \in Octet
                     /\ (s \div 1) % 2 = a /\ (s \div 2) % 2 = b /\ (s \div 4) % 2 = c
                     /\ (s \div 8) % 2 = d /\ (s \div 16) % 2 = e /\ (s \div 32) % 2 = f
                     /\ (s \div 64) % 2 = g /\ (s \div 128) % 2 = h
  BY <1>BitsOfSum, SMTT(30) DEF Octet
<1>SumOfBits. ASSUME NEW x \in Octet
              PROVE  x = ((x \div 1) % 2) + 2 * ((x \div 2) % 2) + 4 * ((x \div 4) % 2)
                             + 8 * ((x \div 8) % 2) + 16 * ((x \div 16) % 2) + 32 * ((x \div 32) % 2)
                             + 64 * ((x \div 64) % 2) + 128 * ((x \div 128) % 2)
  <2> USE <1>SumOfBits
  <2>1. x \in Int /\ 0 <= x /\ x < 256
    BY OctetRange
  <2> QED BY <2>1, SMTT(30)
\* The bit of x ^ y and, when it is exclusive-ored again, of x.
<1>XorOfBit. ASSUME NEW x \in Octet, NEW y \in Octet, NEW b \in {1, 2, 4, 8, 16, 32, 64, 128}
             PROVE  LET p == (x \div b) % 2
                        q == (y \div b) % 2
                        r == IF p = q THEN 0 ELSE 1
                    IN  /\ p \in {0, 1} /\ q \in {0, 1} /\ r \in {0, 1}
                        /\ XorBit(x, y, b) = b * r
                        /\ \A z : (z \div b) % 2 = r => XorBit(z, y, b) = b * p
  <2> USE <1>XorOfBit
  <2> DEFINE p == (x \div b) % 2
             q == (y \div b) % 2
             r == IF p = q THEN 0 ELSE 1
  <2>1. x \in Nat /\ y \in Nat /\ b \in Nat /\ b > 0
    BY OctetRange
  <2>2. x \div b \in Nat /\ y \div b \in Nat
    BY <2>1
  <2>3. p \in {0, 1} /\ q \in {0, 1} /\ r \in {0, 1}
    <3> DEFINE v == x \div b
               w == y \div b
    <3> HIDE DEF v, w
    <3>1. v % 2 \in {0, 1} /\ w % 2 \in {0, 1}
      BY <2>2 DEF v, w
    <3> QED BY <3>1 DEF v, w
  <2>4. Bit(x, b) = (p = 1) /\ Bit(y, b) = (q = 1) /\ \A z : Bit(z, b) = ((z \div b) % 2 = 1)
    BY DEF Bit
  <2> HIDE DEF p, q
  <2>5. XorBit(x, y, b) = b * r
    BY <2>1, <2>3, <2>4 DEF XorBit
  <2>6. ASSUME NEW z, (z \div b) % 2 = r PROVE XorBit(z, y, b) = b * p
    BY <2>1, <2>3, <2>4, <2>6 DEF XorBit
  <2> QED BY <2>3, <2>5, <2>6 DEF p, q
<1>XorTwice. ASSUME NEW x \in Octet, NEW y \in Octet
             PROVE  Xor[x][y] \in Octet /\ Xor[Xor[x][y]][y] = x
  <2> USE <1>XorTwice
  <2> DEFINE p(b) == (x \div b) % 2
             q(b) == (y \div b) % 2
             r(b) == IF p(b) = q(b) THEN 0 ELSE 1
             s == r(1) + 2 * r(2) + 4 * r(4) + 8 * r(8) + 16 * r(16) + 32 * r(32)
                      + 64 * r(64) + 128 * r(128)
             B == {1, 2, 4, 8, 16, 32, 64, 128}
  <2>1. \A b \in B : /\ p(b) \in {0, 1} /\ r(b) \in {0, 1}
                     /\ XorBit(x, y, b) = b * r(b)
                     /\ \A z : (z \div b) % 2 = r(b) => XorBit(z, y, b) = b * p(b)
    BY <1>XorOfBit
  <2>2. x = p(1) + 2 * p(2) + 4 * p(4) + 8 * p(8) + 16 * p(16) + 32 * p(32)
                + 64 * p(64) + 128 * p(128)
    BY <1>SumOfBits
  <2> HIDE DEF p, r
  <2>3. s \in Octet /\ \A b \in B : (s \div b) % 2 = r(b)
    <3>1. /\ r(1) \in {0, 1} /\ r(2) \in {0, 1} /\ r(4) \in {0, 1} /\ r(8) \in {0, 1}
          /\ r(16) \in {0, 1} /\ r(32) \in {0, 1} /\ r(64) \in {0, 1} /\ r(128) \in {0, 1}
      BY <2>1
    <3>2. /\ s \in Octet
          /\ (s \div 1) % 2 = r(1) /\ (s \div 2) % 2 = r(2) /\ (s \div 4) % 2 = r(4)
          /\ (s \div 8) % 2 = r(8) /\ (s \div 16) % 2 = r(16) /\ (s \div 32) % 2 = r(32)
          /\ (s \div 64) % 2 = r(64) /\ (s \div 128) % 2 = r(128)
      BY <3>1, <1>BitsOfSum
    <3> HIDE DEF s
    <3> QED BY <3>2
  <2>4. \A z \in Octet : Xor[z][y] = XorBit(z, y, 1) + XorBit(z, y, 2) + XorBit(z, y, 4)
            + XorBit(z, y, 8) + XorBit(z, y, 16) + XorBit(z, y, 32) + XorBit(z, y, 64)
            + XorBit(z, y, 128)
    BY DEF Xor
  <2>5. Xor[x][y] = s
    <3>1. /\ XorBit(x, y, 1) = r(1) /\ XorBit(x, y, 2) = 2 * r(2) /\ XorBit(x, y, 4) = 4 * r(4)
          /\ XorBit(x, y, 8) = 8 * r(8) /\ XorBit(x, y, 16) = 16 * r(16)
          /\ XorBit(x, y, 32) = 32 * r(32) /\ XorBit(x, y, 64) = 64 * r(64)
          /\ XorBit(x, y, 128) = 128 * r(128)
      BY <2>1
    <3> QED BY <2>4, <3>1
  <2> HIDE DEF s
  <2>6. Xor[s][y] = x
    <3>1. /\ XorBit(s, y, 1) = p(1) /\ XorBit(s, y, 2) = 2 * p(2) /\ XorBit(s, y, 4) = 4 * p(4)
          /\ XorBit(s, y, 8) = 8 * p(8) /\ XorBit(s, y, 16) = 16 * p(16)
          /\ XorBit(s, y, 32) = 32 * p(32) /\ XorBit(s, y, 64) = 64 * p(64)
          /\ XorBit(s, y, 128) = 128 * p(128)
      BY <2>1, <2>3
    <3> QED BY <2>2, <2>3, <2>4, <3>1
  <2> QED BY <2>3, <2>5, <2>6
<1> SUFFICES ASSUME NEW secret, NEW g, NEW h, SameKey(g, h), NEW body \in Seq(Octet)
             PROVE /\ Crypt(secret, h, body) \in Seq(Octet)
                   /\ Len(Crypt(secret, h, body)) = Len(body)
                   /\ Crypt(secret, g, Crypt(secret, h, body)) = body
  OBVIOUS
<1> DEFINE P(i) == PadOctet(secret, h, i)
           c == [i \in 1..Len(body) |-> Xor[body[i]][P(i)]]
<1>1. \A i : P(i) \in Octet /\ PadOctet(secret, g, i) = P(i)
  BY OctetRange DEF PadOctet, SameKey
<1> HIDE DEF P
<1>2. \A i \in 1..Len(body) : /\ Xor[body[i]][P(i)] \in Octet
                              /\ Xor[Xor[body[i]][P(i)]][P(i)] = body[i]
  BY <1>1, <1>XorTwice
<1>3. c \in Seq(Octet) /\ Len(c) = Len(body) /\ \A i \in 1..Len(body) : c[i] = Xor[body[i]][P(i)]
  BY <1>2
<1>4. CASE Unencrypted(h)
  BY <1>4 DEF Crypt, SameKey
<1>5. CASE ~Unencrypted(h)
  <2>1. Crypt(secret, h, body) = c
    BY <1>5 DEF Crypt, P
  <2> HIDE DEF c
  <2>2. Crypt(secret, g, c) = [i \in 1..Len(body) |-> Xor[c[i]][P(i)]]
    BY <1>1, <1>3, <1>5 DEF Crypt, SameKey
  <2>3. Crypt(secret, g, c) = [i \in 1..Len(body) |-> body[i]]
    BY <1>2, <1>3, <2>2
  <2> QED BY <1>3, <2>1, <2>3
<1> QED BY <1>4, <1>5

\* Crypt of any octets is octets.
LEMMA CryptType ==
    ASSUME NEW secret, NEW h, NEW body \in Seq(Octet)
    PROVE  Crypt(secret, h, body) \in Seq(Octet) /\ Len(Crypt(secret, h, body)) = Len(body)
<1>1. SameKey(h, h)
  BY DEF SameKey
<1> QED BY <1>1, CryptTwice

(***************************************************************************)
(* The header                                                              *)
(***************************************************************************)
\* A header that is valid and fits its fields.
Sound(h) == h \in Header /\ HeaderValid(h) /\ h.sid \div 16777216 \in Octet

LEMMA Marshalled ==
    \A h :
        Sound(h) =>
            LET d == HeaderMarshal(h) IN
            /\ d \in Seq(Octet) /\ Len(d) = MaxHeaderLength
            /\ d[1] = h.major * 16 + h.minor /\ d[2] = h.type /\ d[3] = h.seq /\ d[4] = h.flags
            /\ ReadUint32(d, 4) = h.sid /\ ReadUint32(d, 8) = h.length
\* The four octets of a number in the header.
<1>FourOctets. ASSUME NEW n \in Nat, n \div 16777216 \in Octet
               PROVE  /\ (n \div 65536) % 256 \in Octet /\ (n \div 256) % 256 \in Octet /\ n % 256 \in Octet
                      /\ 16777216 * (n \div 16777216) + 65536 * ((n \div 65536) % 256)
                             + 256 * ((n \div 256) % 256) + (n % 256) = n
  <2> USE <1>FourOctets
  <2>1. n \div 16777216 < 256
    BY OctetRange
  <2>2. (n \div 65536) % 256 \in Octet /\ (n \div 256) % 256 \in Octet /\ n % 256 \in Octet
    BY OctetRange, SMT
  <2>3. 16777216 * (n \div 16777216) + 65536 * ((n \div 65536) % 256)
            + 256 * ((n \div 256) % 256) + (n % 256) = n
    BY <2>1, SMT
  <2> QED BY <2>2, <2>3, SMT
<1>Uint32Type. ASSUME NEW n \in Nat, n \div 16777216 \in Octet
               PROVE  /\ Uint32(n) \in Seq(Octet) /\ Len(Uint32(n)) = 4
                      /\ \A i \in 1..4 : Uint32(n)[i] = <<n \div 16777216, (n \div 65536) % 256, (n \div 256) % 256, n % 256>>[i]
                      /\ 16777216 * Uint32(n)[1] + 65536 * Uint32(n)[2] + 256 * Uint32(n)[3] + Uint32(n)[4] = n
  <2> USE <1>Uint32Type
  <2> DEFINE a == n \div 16777216
             b == (n \div 65536) % 256
             c == (n \div 256) % 256
             d == n % 256
  <2>1. /\ a \in Octet /\ b \in Octet /\ c \in Octet /\ d \in Octet
        /\ 16777216 * a + 65536 * b + 256 * c + d = n
    BY <1>FourOctets, SMT
  <2>2. Uint32(n) = <<a, b, c, d>>
    BY SMT DEF Uint32
  <2> HIDE DEF a, b, c, d
  <2>3. <<a, b, c, d>> \in Seq(Octet) /\ Len(<<a, b, c, d>>) = 4
    BY <2>1, SMT
  <2> QED BY <2>1, <2>2, <2>3, SMT DEF a, b, c, d
<1> SUFFICES ASSUME NEW h, Sound(h)
             PROVE LET d == HeaderMarshal(h) IN
                   /\ d \in Seq(Octet) /\ Len(d) = MaxHeaderLength
                   /\ d[1] = h.major * 16 + h.minor /\ d[2] = h.type /\ d[3] = h.seq /\ d[4] = h.flags
                   /\ ReadUint32(d, 4) = h.sid /\ ReadUint32(d, 8) = h.length
  OBVIOUS
<1> DEFINE u == <<h.major * 16 + h.minor, h.type, h.seq, h.flags>>
           v == Uint32(h.sid)
           w == Uint32(h.length)
<1>1. /\ h.major = 12 /\ h.minor \in {0, 1} /\ h.type \in 1..3 /\ h.seq \in 1..255
      /\ h.flags \in Octet /\ h.sid \in Nat /\ h.sid \div 16777216 \in Octet
      /\ h.length \in Nat /\ h.length <= 65536
  BY SMT DEF Sound, HeaderValid, Header, MaxBodyLength
<1>2. h.length \div 16777216 \in Octet
  BY <1>1, OctetRange, SMT
<1>3. /\ h.major * 16 + h.minor \in Octet /\ h.type \in Octet /\ h.seq \in Octet
  BY <1>1, OctetRange, SMT
<1>4. u \in Seq(Octet) /\ Len(u) = 4
  BY <1>1, <1>3, SMT
<1>5. /\ v \in Seq(Octet) /\ Len(v) = 4
      /\ 16777216 * v[1] + 65536 * v[2] + 256 * v[3] + v[4] = h.sid
  BY <1>1, <1>Uint32Type, SMT
<1>6. /\ w \in Seq(Octet) /\ Len(w) = 4
      /\ 16777216 * w[1] + 65536 * w[2] + 256 * w[3] + w[4] = h.length
  BY <1>1, <1>2, <1>Uint32Type, SMT
<1>7. HeaderMarshal(h) = u \o v \o w
  BY SMT DEF HeaderMarshal
<1>8. u[1] = h.major * 16 + h.minor /\ u[2] = h.type /\ u[3] = h.seq /\ u[4] = h.flags
  BY SMT
<1> HIDE DEF u, v, w
<1> DEFINE e == u \o v
           d == e \o w
<1>9. /\ e \in Seq(Octet) /\ Len(e) = 8
      /\ e[1] = u[1] /\ e[2] = u[2] /\ e[3] = u[3] /\ e[4] = u[4]
      /\ e[5] = v[1] /\ e[6] = v[2] /\ e[7] = v[3] /\ e[8] = v[4]
  <2>1. u \in Seq(Octet) /\ Len(u) = 4 /\ v \in Seq(Octet) /\ Len(v) = 4
    BY <1>4, <1>5
  <2> DEFINE m == Len(u)
             k == Len(v)
  <2>2. /\ e \in Seq(Octet) /\ Len(e) = m + k
        /\ \A i \in 1..(m + k) : e[i] = IF i <= m THEN u[i] ELSE v[i - m]
    BY <2>1, ConcatProperties, Zenon
  <2>3. m = 4 /\ k = 4
    BY <2>1
  <2> HIDE DEF m, k, e
  <2> QED BY <2>2, <2>3
<1> HIDE DEF e
<1>10. /\ d \in Seq(Octet) /\ Len(d) = 12
       /\ d[1] = e[1] /\ d[2] = e[2] /\ d[3] = e[3] /\ d[4] = e[4]
       /\ d[5] = e[5] /\ d[6] = e[6] /\ d[7] = e[7] /\ d[8] = e[8]
       /\ d[9] = w[1] /\ d[10] = w[2] /\ d[11] = w[3] /\ d[12] = w[4]
  <2>1. e \in Seq(Octet) /\ Len(e) = 8 /\ w \in Seq(Octet) /\ Len(w) = 4
    BY <1>6, <1>9
  <2> DEFINE m == Len(e)
             k == Len(w)
  <2>2. /\ d \in Seq(Octet) /\ Len(d) = m + k
        /\ \A i \in 1..(m + k) : d[i] = IF i <= m THEN e[i] ELSE w[i - m]
    BY <2>1, ConcatProperties, Zenon
  <2>3. m = 8 /\ k = 4
    BY <2>1
  <2> HIDE DEF m, k, d
  <2> QED BY <2>2, <2>3
<1> HIDE DEF d
<1>11. /\ d[1] = u[1] /\ d[2] = u[2] /\ d[3] = u[3] /\ d[4] = u[4]
       /\ d[5] = v[1] /\ d[6] = v[2] /\ d[7] = v[3] /\ d[8] = v[4]
       /\ d[9] = w[1] /\ d[10] = w[2] /\ d[11] = w[3] /\ d[12] = w[4]
  BY <1>9, <1>10, SMT
<1>12. ReadUint32(d, 4) = h.sid /\ ReadUint32(d, 8) = h.length
  BY <1>5, <1>6, <1>11, SMT DEF ReadUint32
<1> QED BY <1>7, <1>8, <1>10, <1>11, <1>12, SMT DEF MaxHeaderLength, d, e

(***************************************************************************)
(* What read takes from the stream                                         *)
(***************************************************************************)
\* The first of the four octets of a number.
TopOctet(n) == n \div 16777216

\* A header as read decodes it: it need not be valid.
Fitting(h) == h \in Header /\ TopOctet(h.sid) \in Octet

\* Setting SingleConnect in the first reply changes nothing else.
LEMMA FirstReplyKeeps ==
    ASSUME NEW h \in Header
    PROVE  LET g == FirstReply(h) IN
           /\ g \in Header /\ SameKey(g, h)
           /\ g.type = h.type /\ g.sid = h.sid /\ g.length = h.length
           /\ g.major = h.major /\ g.minor = h.minor /\ g.seq = h.seq
           /\ HeaderValid(h) <=> HeaderValid(g)
<1> DEFINE g == FirstReply(h)
<1>1. h.flags \in Octet
  BY DEF Header
<1>2. CASE h.seq = 2 /\ ~Bit(h.flags, 4)
  <2>1. g = [h EXCEPT !.flags = h.flags + 4]
    BY <1>2 DEF FirstReply
  <2> DEFINE f == h.flags
  <2>2. f \in Int /\ 0 <= f /\ f < 256 /\ (f \div 4) % 2 # 1
    BY <1>1, <1>2, OctetRange DEF Bit
  <2> HIDE DEF f
  <2>3. f + 4 \in Int /\ 0 <= f + 4 /\ f + 4 < 256
    BY <2>2, SMT
  <2>4. (f + 4) % 2 = f % 2 /\ f \div 1 = f /\ (f + 4) \div 1 = f + 4
    BY <2>2, SMT
  <2>5. f + 4 \in Octet
    BY <2>3, OctetRange
  <2>6. Unencrypted(g) <=> Unencrypted(h)
    <3>1. g.flags = f + 4 /\ h.flags = f
      BY <2>1 DEF Header, f
    <3> QED BY <2>4, <3>1 DEF Unencrypted, Bit
  <2>7. /\ g \in Header
        /\ g.type = h.type /\ g.sid = h.sid /\ g.length = h.length
        /\ g.major = h.major /\ g.minor = h.minor /\ g.seq = h.seq
    BY <2>1, <2>5 DEF Header, f
  <2>8. HeaderValid(h) <=> HeaderValid(g)
    BY <2>7, Zenon DEF HeaderValid
  <2> QED BY <2>6, <2>7, <2>8 DEF SameKey
<1>3. CASE ~(h.seq = 2 /\ ~Bit(h.flags, 4))
  <2>1. g = h
    BY <1>3 DEF FirstReply
  <2> QED BY <2>1 DEF SameKey
<1> QED BY <1>2, <1>3

(***************************************************************************)
(* The inductive invariant                                                 *)
(***************************************************************************)
\* A list of entries.
Entries(s) == s \in Seq(Range(s)) /\ \A i \in 1..Len(s) : IsEntry(s[i])

\* What write has sent: the header gives the length of the body, and the body is
\* the encoding of the message, if there is one.
Sent(p) ==
    p.t # "foreign" =>
        /\ Sound(p.h) /\ p.body \in Seq(Octet) /\ p.h.length = Len(p.body)
        /\ p.t \in BodyType => /\ IsMessage(p.t, p.msg) /\ Valid(p.t, p.msg)
                               /\ p.body = MarshalBinary(p.t, p.msg)

\* What read has returned.
Returned(p) ==
    /\ Sound(p.h) /\ p.body \in Seq(Octet) /\ Len(p.body) = p.h.length

Typed ==
    /\ Entries(script)
    /\ ends.proxy \in BOOLEAN /\ ends.every \in BOOLEAN /\ IsLine(ends.line)
    /\ stream \in Seq(Octet) /\ answer \in Seq(Octet)
    /\ broken \in BOOLEAN /\ reader \in {"open", "closed"}
    /\ written \in Seq(Range(written)) /\ \A i \in 1..Len(written) : Sent(written[i])
    /\ got \in Seq(Range(got)) /\ \A i \in 1..Len(got) : Returned(got[i])

\* With the ends e and the packets w: the line of the proxy before the i-th packet,
\* the octets of a packet, and both.
LineOf(e, i) == IF e.every \/ i = 1 THEN e.line ELSE <<>>

PacketOf(e, p) == PacketOctets(e.writer, p.h, p.body)

Frame(e, w, i) == LineOf(e, i) \o PacketOf(e, w[i])

\* The octets of the packets after the k-th.
Frames(e, w, k) == [i \in 1..(Len(w) - k) |-> Frame(e, w, k + i)]

Ahead(e, w, k) == Flat(Frames(e, w, k))

\* The stream is what is ahead, or the beginning of it once it is broken.
InPlace ==
    /\ Begins(stream, Ahead(ends, written, Len(got)))
    /\ ~broken => stream = Ahead(ends, written, Len(got))

\* Between the ends e, r is what read makes of the packet w, and the packets g that
\* were read are the first of the packets w that were written.
IsReadOf(e, r, w) == r.h = FirstReply(w.h) /\ (e.writer = e.reader => r.body = w.body)

FirstOf(e, g, w) == Len(g) <= Len(w) /\ \A i \in 1..Len(g) : IsReadOf(e, g[i], w[i])

\* read has returned the first packets that were written, and while it is open
\* the rest of them lies before it.
InStep ==
    OwnTraffic => FirstOf(ends, got, written) /\ (reader = "open" => InPlace)

(***************************************************************************)
(* What write puts on the stream                                           *)
(***************************************************************************)
\* t is s and one more element.
Longer(t, s, x) ==
    /\ t \in Seq(Range(t)) /\ Len(s) \in Nat /\ Len(t) = Len(s) + 1
    /\ \A i \in 1..Len(s) : t[i] = s[i]
    /\ \A i \in 1..Len(t) : (i \in 1..Len(s) /\ t[i] = s[i]) \/ (i = Len(s) + 1 /\ t[i] = x)

LEMMA AppendSelf ==
    ASSUME NEW s, s \in Seq(Range(s)), NEW x
    PROVE  Longer(Append(s, x), s, x)
<1> DEFINE t == Append(s, x)
           T == Range(s) \cup {x}
<1>1. s \in Seq(T) /\ x \in T
  OBVIOUS
<1> HIDE DEF T
<1>2. /\ t \in Seq(T) /\ Len(s) \in Nat /\ Len(t) = Len(s) + 1
      /\ \A i \in 1..Len(s) : t[i] = s[i]
      /\ t[Len(s) + 1] = x
  BY <1>1
<1> HIDE DEF t
<1>3. \A i \in 1..Len(t) : t[i] \in Range(t) /\ (i \in 1..Len(s) \/ i = Len(s) + 1)
  BY <1>2, RangeElements
<1>4. t \in Seq(Range(t))
  BY <1>2, <1>3
<1>5. Longer(t, s, x)
  BY <1>2, <1>3, <1>4, Zenon DEF Longer
<1> QED BY <1>5 DEF t

\* The octets of a packet: the header and the obfuscated body.
PacketIs(p, d, c, n) ==
    /\ p \in Seq(Octet) /\ Len(p) = MaxHeaderLength + n
    /\ \A i \in 1..MaxHeaderLength : p[i] = d[i]
    /\ \A i \in 1..n : p[MaxHeaderLength + i] = c[i]

LEMMA PacketLaid ==
    ASSUME NEW secret, NEW h, Sound(h), NEW body \in Seq(Octet), h.length = Len(body)
    PROVE  PacketIs(PacketOctets(secret, h, body), HeaderMarshal(h), Crypt(secret, h, body), Len(body))
<1> DEFINE p == PacketOctets(secret, h, body)
           c == Crypt(secret, h, body)
           d == HeaderMarshal(h)
           a == MaxHeaderLength
           b == Len(body)
<1>1. h \in Header
  BY SMT DEF Sound
<1>2. [h EXCEPT !.length = Len(body)] = h
  BY <1>1 DEF Header
<1>3. p = d \o c
  BY <1>2, Zenon DEF PacketOctets
<1>4. d \in Seq(Octet) /\ Len(d) = a
  BY Marshalled, SMT
<1>5. c \in Seq(Octet) /\ Len(c) = b
  BY CryptType
<1> HIDE DEF p, c, d, a, b
<1>6. /\ p \in Seq(Octet) /\ Len(p) = a + b
      /\ \A i \in 1..a : p[i] = d[i]
      /\ \A i \in 1..b : p[a + i] = c[i]
  <2>1. d \in Seq(Octet) /\ c \in Seq(Octet) /\ a = Len(d) /\ b = Len(c)
    BY <1>4, <1>5
  <2> QED BY <1>3, <2>1, ConcatParts, SMT
<1> QED BY <1>6 DEF PacketIs, p, c, d, a, b

\* A body the header of which is valid is octets.
LEMMA EntryPacket ==
    ASSUME NEW x, IsEntry(x), Encodes(x), x.t # "foreign", NEW secret
    PROVE  /\ Sent(Packet(x))
           /\ PacketOctets(secret, x.h, BodyOf(x)) = PacketOctets(secret, Packet(x).h, Packet(x).body)
           /\ Packet(x).t # "foreign"
<1> DEFINE b == BodyOf(x)
           p == Packet(x)
           n == Len(b)
<1>1. /\ x.t \in BodyType \cup {"raw", "foreign"} /\ x.h \in Header
      /\ x.t \in BodyType => IsMessage(x.t, x.msg)
      /\ x.t \notin BodyType => x.msg \in Seq(Octet)
  <2> HIDE DEF BodyType, Header, IsMessage
  <2> QED BY SMT DEF IsEntry
<1>2. TopOctet(x.h.sid) \in Octet
  BY SMT DEF IsEntry, TopOctet
<1>3. (x.t \in BodyType => Valid(x.t, x.msg)) /\ HeaderValid(p.h)
  BY DEF Encodes
<1>4. /\ b \in Seq(Octet)
      /\ x.t \in BodyType => b = MarshalBinary(x.t, x.msg)
  <2>1. "raw" \notin BodyType
    BY Layouts
  <2>2. CASE x.t \in BodyType
    <3>1. MarshalBinary(x.t, x.msg) \in Seq(Octet)
      BY <1>1, <1>3, <2>2, Encoded
    <3>2. b = MarshalBinary(x.t, x.msg)
      BY <2>1, <2>2 DEF BodyOf
    <3> QED BY <3>1, <3>2
  <2>3. CASE x.t \notin BodyType
    BY <1>1, <2>3 DEF BodyOf
  <2> QED BY <2>2, <2>3
<1>5. p = [h |-> [x.h EXCEPT !.length = n], body |-> b, t |-> x.t, msg |-> x.msg]
  BY DEF Packet
<1> HIDE DEF b, p
<1>6. n \in Nat
  BY <1>4
<1> HIDE DEF n
<1>7. p.h = [x.h EXCEPT !.length = n] /\ p.body = b /\ p.t = x.t /\ p.msg = x.msg
  BY <1>5
<1>8. p.h \in Header /\ p.h.length = n /\ p.h.sid = x.h.sid
  BY <1>1, <1>6, <1>7 DEF Header
<1>9. Sound(p.h)
  BY <1>2, <1>3, <1>8, SMT DEF Sound, TopOctet
<1>10. [p.h EXCEPT !.length = n] = [x.h EXCEPT !.length = n]
  BY <1>1, <1>7, Zenon DEF Header
<1>11. PacketOctets(secret, x.h, b) = PacketOctets(secret, p.h, p.body)
  BY <1>7, <1>10, Zenon DEF PacketOctets, n
<1>12. p.h.length = Len(p.body)
  BY <1>7, <1>8 DEF n
<1>13. Sent(p)
  BY <1>1, <1>3, <1>4, <1>7, <1>9, <1>12 DEF Sent
<1> QED BY <1>7, <1>11, <1>13 DEF b, p

(***************************************************************************)
(* What read makes of it                                                   *)
(***************************************************************************)
\* s and p agree as far as both of them go.
Along(s, p) == \A i \in 1..Len(s) : i <= Len(p) => s[i] = p[i]

\* The packet at the beginning of a stream, decoded with the secret of its writer.
LEMMA PacketBack ==
    \A secret, h : \A body \in Seq(Octet), s \in Seq(Octet) :
        Sound(h) /\ h.length = Len(body) /\ Headed(s) /\ Along(s, PacketOctets(secret, h, body)) =>
            /\ HeaderUnmarshal(s) = FirstReply(h) /\ BodyLength(s) = Len(body) /\ ~TooLong(s)
            /\ Whole(s) => Crypt(secret, FirstReply(h),
                                 SubSeq(s, MaxHeaderLength + 1, MaxHeaderLength + BodyLength(s))) = body
\* A stream that begins with the header of a packet.
<1>HeaderBack. ASSUME NEW h, Sound(h), NEW s \in Seq(Octet), Headed(s),
                      \A i \in 1..MaxHeaderLength : s[i] = HeaderMarshal(h)[i]
               PROVE  HeaderUnmarshal(s) = FirstReply(h) /\ BodyLength(s) = h.length
  <2> USE <1>HeaderBack
  <2> DEFINE d == HeaderMarshal(h)
  <2>1. /\ d[1] = h.major * 16 + h.minor /\ d[2] = h.type /\ d[3] = h.seq /\ d[4] = h.flags
        /\ ReadUint32(d, 4) = h.sid /\ ReadUint32(d, 8) = h.length
    BY Marshalled, SMT
  <2> HIDE DEF d
  <2>2. \A i \in 1..12 : s[i] = d[i]
    BY SMTT(20) DEF MaxHeaderLength, d
  <2>3. s[1] = d[1] /\ s[2] = d[2] /\ s[3] = d[3] /\ s[4] = d[4]
    BY <2>2
  <2>4. ReadUint32(s, 4) = ReadUint32(d, 4) /\ ReadUint32(s, 8) = ReadUint32(d, 8)
    <3>1. /\ s[4 + 1] = d[4 + 1] /\ s[4 + 2] = d[4 + 2] /\ s[4 + 3] = d[4 + 3] /\ s[4 + 4] = d[4 + 4]
          /\ s[8 + 1] = d[8 + 1] /\ s[8 + 2] = d[8 + 2] /\ s[8 + 3] = d[8 + 3] /\ s[8 + 4] = d[8 + 4]
      BY <2>2
    <3> QED BY <3>1, SMT DEF ReadUint32
  <2>5. h \in Header /\ h.major = 12 /\ h.minor \in {0, 1}
    BY SMT DEF Sound, HeaderValid
  <2>6. s[1] \div 16 = h.major /\ s[1] % 16 = h.minor
    <3>1. s[1] = 12 * 16 + h.minor
      BY <2>1, <2>3, <2>5
    <3> QED BY <2>5, <3>1
  <2>7. h = [major |-> s[1] \div 16, minor |-> s[1] % 16, type |-> s[2], seq |-> s[3],
             flags |-> s[4], sid |-> ReadUint32(s, 4), length |-> ReadUint32(s, 8)]
    BY <2>1, <2>3, <2>4, <2>5, <2>6 DEF Header
  <2> QED BY <2>1, <2>4, <2>7, Zenon DEF HeaderUnmarshal, BodyLength
<1> SUFFICES ASSUME NEW secret, NEW h, Sound(h), NEW body \in Seq(Octet), h.length = Len(body),
           NEW s \in Seq(Octet), Headed(s), Along(s, PacketOctets(secret, h, body))
             PROVE /\ HeaderUnmarshal(s) = FirstReply(h) /\ BodyLength(s) = Len(body) /\ ~TooLong(s)
                   /\ Whole(s) => Crypt(secret, FirstReply(h),
                                        SubSeq(s, MaxHeaderLength + 1, MaxHeaderLength + BodyLength(s))) = body
  OBVIOUS
<1> DEFINE p == PacketOctets(secret, h, body)
           c == Crypt(secret, h, body)
           a == MaxHeaderLength
           b == Len(body)
           n == Len(s)
<1>1. /\ p \in Seq(Octet) /\ Len(p) = a + b
      /\ \A i \in 1..a : p[i] = HeaderMarshal(h)[i]
      /\ \A i \in 1..b : p[a + i] = c[i]
  <2>1. PacketIs(p, HeaderMarshal(h), c, b)
    BY PacketLaid, Zenon
  <2> HIDE DEF p, c, a, b
  <2> QED BY <2>1 DEF PacketIs, a
<1>2. a \in Nat /\ b \in Nat /\ n \in Nat /\ a <= n
  <2>1. a = 12 /\ a <= n
    BY DEF Headed, MaxHeaderLength
  <2>2. b \in Nat /\ n \in Nat
    OBVIOUS
  <2> QED BY <2>1, <2>2
<1>3. \A i \in 1..n : i <= Len(p) => s[i] = p[i]
  BY DEF Along
<1> HIDE DEF p, c
<1>4. \A i \in 1..MaxHeaderLength : s[i] = HeaderMarshal(h)[i]
  <2> HIDE DEF b, n
  <2>1. \A i \in 1..a : i \in 1..n /\ i <= Len(p)
    <3> HIDE DEF a
    <3> QED BY <1>1, <1>2
  <2> QED BY <1>1, <1>3, <2>1
<1>5. HeaderUnmarshal(s) = FirstReply(h) /\ BodyLength(s) = b
  BY <1>4, <1>HeaderBack
<1>6. ~TooLong(s)
  <2>1. h.length <= MaxBodyLength
    BY SMT DEF Sound, HeaderValid
  <2>2. MaxBodyLength \in Nat
    BY SMT DEF MaxBodyLength
  <2> QED BY <1>2, <1>5, <2>1, <2>2 DEF TooLong
<1>7. ASSUME Whole(s)
      PROVE  Crypt(secret, FirstReply(h), SubSeq(s, a + 1, a + BodyLength(s))) = body
  <2> DEFINE u == SubSeq(s, a + 1, a + b)
  <2>1. a + b <= n
    BY <1>5, <1>7 DEF Whole
  <2>2. a \in 0..n /\ a + b \in 0..n /\ a <= a + b /\ (a + b) - a = b
    <3> HIDE DEF a, b, n
    <3> QED BY <1>2, <2>1
  <2>3. u \in Seq(Octet) /\ Len(u) = b /\ \A i \in 1..b : u[i] = s[a + i]
    <3> DEFINE e == a + b
    <3> HIDE DEF a, b, n, e
    <3>1. a \in 0..Len(s) /\ e \in 0..Len(s) /\ a <= e /\ e - a = b
      BY <2>2 DEF n, e
    <3>2. LET v == SubSeq(s, a + 1, e)
          IN  v \in Seq(Octet) /\ Len(v) = e - a /\ \A i \in 1..(e - a) : v[i] = s[a + i]
      BY <3>1, SubSeqParts
    <3> QED BY <3>1, <3>2 DEF e
  <2>4. c \in Seq(Octet) /\ Len(c) = b
    BY CryptType DEF c
  <2> HIDE DEF u
  <2>5. \A i \in 1..b : u[i] = c[i]
    <3>1. \A i \in 1..b : a + i \in 1..n /\ a + i <= Len(p)
      <4> HIDE DEF a, b, n
      <4> QED BY <1>1, <1>2, <2>1
    <3> QED BY <1>1, <1>3, <2>3, <3>1
  <2>6. u = c
    <3> HIDE DEF b
    <3> QED BY <2>3, <2>4, <2>5, SeqEqual
  <2>7. SameKey(FirstReply(h), h)
    <3>1. h \in Header
      BY SMT DEF Sound
    <3> QED BY <3>1, FirstReplyKeeps
  <2>8. Crypt(secret, FirstReply(h), c) = body
    BY <2>7, CryptTwice DEF c
  <2> QED BY <1>5, <2>6, <2>8, Zenon DEF u
<1> QED BY <1>5, <1>6, <1>7

\* What read takes from any stream.
LEMMA LineFound ==
    ASSUME stream \in Seq(Octet), ends.proxy \in BOOLEAN, HasLine
    PROVE  /\ LineLength \in 0..Len(stream)
           /\ ~ends.proxy => LineLength = 0
           /\ ends.proxy => /\ LineLength \in 1..Len(stream) /\ stream[LineLength] = 0
                            /\ \A i \in 1..(LineLength - 1) : stream[i] # 0
<1>1. CASE ~ends.proxy
  BY <1>1 DEF LineLength
<1>2. CASE ends.proxy
  <2> DEFINE n == Len(stream)
             I == {i \in 1..n : stream[i] = 0}
  <2>1. I # {} /\ I \subseteq 1..n /\ n \in Nat
    BY <1>2 DEF HasLine, Range
  <2>2. LineLength = Min(I)
    BY <1>2, <2>1 DEF LineLength
  <2>3. Min(I) \in I /\ Min(I) \in 1..n /\ \A k \in 1..(Min(I) - 1) : k \notin I
    <3> HIDE DEF I, n
    <3> QED BY <2>1, FirstIn, Zenon
  <2> DEFINE m == Min(I)
  <2> HIDE DEF m
  <2>4. m \in 1..n /\ stream[m] = 0 /\ \A k \in 1..(m - 1) : stream[k] # 0
    <3>1. m \in I /\ m \in 1..n /\ \A k \in 1..(m - 1) : k \notin I
      BY <2>3 DEF m
    <3>2. \A k \in 1..(m - 1) : k \in 1..n
      BY <2>1, <3>1
    <3> QED BY <3>1, <3>2
  <2> HIDE DEF n, I
  <2>5. m \in 0..n
    BY <2>4
  <2> QED BY <1>2, <2>2, <2>4, <2>5 DEF n, m
<1> QED BY <1>1, <1>2

(***************************************************************************)
(* The types                                                               *)
(***************************************************************************)
LEMMA InitTyped == Init => Typed
<1> SUFFICES ASSUME Init PROVE Typed
  OBVIOUS
<1>1. PICK s \in Setups : script = s.script /\ ends = s.ends
  BY DEF Init
<1>2. /\ s.script \in Seq(Range(s.script)) /\ \A x \in Range(s.script) : IsEntry(x)
      /\ s.ends.proxy \in BOOLEAN /\ s.ends.every \in BOOLEAN /\ IsLine(s.ends.line)
  BY WireAssumption, Zenon
<1>3. Entries(script)
  <2>1. \A i \in 1..Len(script) : script[i] \in Range(script)
    BY <1>1, <1>2, RangeElements
  <2> QED BY <1>1, <1>2, <2>1, Zenon DEF Entries
<1>4. /\ <<>> \in Seq(Octet) /\ <<>> \in Seq(Range(<<>>)) /\ Len(<<>>) = 0
      /\ \A i \in 1..0 : FALSE
  OBVIOUS
<1> QED BY <1>1, <1>2, <1>3, <1>4, Zenon DEF Init, Typed

LEMMA LineIsText ==
    ASSUME Typed
    PROVE  LineBefore \in Seq(Octet)
<1>1. ends.line \in Seq(Octet) /\ <<>> \in Seq(Octet)
  BY DEF Typed, IsLine
<1> QED BY <1>1, Zenon DEF LineBefore

\* What is left of the script, and its next entry.
LEMMA NextEntry ==
        Typed /\ script # <<>> =>
            Entries(Tail(script)) /\ IsEntry(script[1])
<1>TailSelf. ASSUME NEW s, s \in Seq(Range(s)), s # <<>>
             PROVE  LET t == Tail(s)
                    IN  /\ t \in Seq(Range(t)) /\ 1 \in 1..Len(s) /\ Len(s) \in Nat /\ Len(t) = Len(s) - 1
                        /\ \A i \in 1..Len(t) : i + 1 \in 1..Len(s) /\ t[i] = s[i + 1]
  <2> USE <1>TailSelf
  <2> DEFINE t == Tail(s)
             T == Range(s)
  <2>1. s \in Seq(T)
    OBVIOUS
  <2> HIDE DEF T
  <2>2. /\ t \in Seq(T) /\ 1 \in 1..Len(s) /\ Len(s) \in Nat /\ Len(t) = Len(s) - 1
        /\ \A i \in 1..Len(t) : i + 1 \in 1..Len(s) /\ t[i] = s[i + 1]
    BY <2>1
  <2> HIDE DEF t
  <2>3. \A i \in 1..Len(t) : t[i] \in Range(t)
    BY <2>2, RangeElements, Zenon
  <2>4. t \in Seq(Range(t))
    BY <2>2, <2>3
  <2> QED BY <2>2, <2>4 DEF t
<1> SUFFICES ASSUME Typed, script # <<>>
             PROVE Entries(Tail(script)) /\ IsEntry(script[1])
  OBVIOUS
<1>1. script \in Seq(Range(script)) /\ \A i \in 1..Len(script) : IsEntry(script[i])
  BY Zenon DEF Typed, Entries
<1> DEFINE t == Tail(script)
<1>2. /\ t \in Seq(Range(t)) /\ 1 \in 1..Len(script)
      /\ \A i \in 1..Len(t) : i + 1 \in 1..Len(script) /\ t[i] = script[i + 1]
  BY <1>1, <1>TailSelf
<1> HIDE DEF t
<1>3. Entries(t) /\ IsEntry(script[1])
  BY <1>1, <1>2, Zenon DEF Entries
<1> QED BY <1>3 DEF t

\* The answer to a bad secret is a packet.
LEMMA AnswerSent ==
    \A h :
        Sound(h) =>
            LET m == BadSecretMessage(h.type)
                b == MarshalBinary(ReplyType(h.type), m)
                g == [h EXCEPT !.seq = 1, !.length = Len(b)]
            IN  /\ ReplyType(h.type) \in BodyType /\ Fits(ReplyType(h.type), m)
                /\ b \in Seq(Octet)
                /\ Sound(g) /\ g.length = Len(b) /\ g.type = h.type /\ g.seq = 1
                /\ \A secret : BadSecretReply(secret, h) = PacketOctets(secret, g, b)
<1>BadText. /\ BadSecretText \in Seq(Octet) /\ Len(BadSecretText) = 3
            /\ Within(BadSecretText, ASCII) /\ Within(BadSecretText, Octet)
            /\ <<>> \in Seq(Octet) /\ Len(<<>>) = 0 /\ Within(<<>>, ASCII) /\ Within(<<>>, Octet)
  <2>1. BadSecretText = <<98, 97, 100>>
    BY DEF BadSecretText
  <2>2. 98 \in Octet /\ 97 \in Octet /\ 100 \in Octet /\ 98 \in ASCII /\ 97 \in ASCII /\ 100 \in ASCII
    BY OctetRange, SMT DEF ASCII
  <2> QED BY <2>1, <2>2, SMT DEF Within
<1>BadAuthen. "AuthenReply" \in BodyType /\ Fits("AuthenReply", BadSecretMessage(1))
  <2> DEFINE t == "AuthenReply"
             m == [status |-> 7, flags |-> 0, servermsg |-> BadSecretText, data |-> <<>>]
             head == HeadOf[t]
  <2>1. t \in BodyType /\ head = AuthenReply.head
    BY Layouts DEF HeadOf
  <2>2. Regular(head) /\ Len(head) = 4
    BY ReplyHead
  <2>3. /\ head[1] = Item("status", "octet", AuthenStatus)
        /\ head[2] = Item("flags", "octet", AuthenFlags)
        /\ head[3] = Item("servermsg", "len16", AuthenServerMsg)
        /\ head[4] = Item("data", "len16", AuthenData)
    BY <2>1 DEF AuthenReply
  <2>4. Fields[t] = {"status", "flags", "servermsg", "data"}
          /\ m = [f \in Fields[t] |-> m[f]] /\ m["status"] = 7 /\ m["flags"] = 0
          /\ m["servermsg"] = BadSecretText /\ m["data"] = <<>>
    <3>1. Fields[t] = {head[i].field : i \in 1..4}
      BY <2>1, <2>2, HeadItems, Zenon DEF Items
    <3> HIDE DEF head
    <3>2. 1..4 = {1, 2, 3, 4}
      OBVIOUS
    <3>3. head[1].field = "status" /\ head[2].field = "flags"
            /\ head[3].field = "servermsg" /\ head[4].field = "data"
      BY <2>3 DEF Item
    <3> QED BY <3>1, <3>2, <3>3
  <2>5. \A x \in Range(head) :
            \/ x = Item("status", "octet", AuthenStatus)
            \/ x = Item("flags", "octet", AuthenFlags)
            \/ x = Item("servermsg", "len16", AuthenServerMsg)
            \/ x = Item("data", "len16", AuthenData)
    <3>1. \A x \in Range(head) : \E i \in 1..4 : x = head[i]
      <4>1. head \in Seq(Range(head))
        BY <2>2 DEF Regular
      <4> HIDE DEF head
      <4>2. \A x : x \in Range(head) <=> \E i \in 1..Len(head) : x = head[i]
        BY <4>1, RangeElements
      <4> QED BY <2>2, <4>2
    <3> HIDE DEF head
    <3> QED BY <2>3, <3>1
  <2> HIDE DEF m, head
  <2>6. ASSUME NEW x \in Range(head)
        PROVE  m[x.field] \in ValueOf(x.kind) /\ ValidField(x, m[x.field])
    <3>1. 7 \in Octet /\ 0 \in Octet /\ 17 \in Octet /\ 2 \in Octet /\ <<>> \in Seq(Seq(Octet))
      BY OctetRange
    <3>2. CASE x = Item("status", "octet", AuthenStatus)
      <4>1. x.field = "status" /\ x.kind = "octet" /\ x.allowed = AuthenStatus
        BY <3>2 DEF Item
      <4>2. 7 \in AuthenStatus
        BY <3>1 DEF AuthenStatus
      <4> QED BY <2>4, <3>1, <4>1, <4>2 DEF ValueOf, ValidField
    <3>3. CASE x = Item("flags", "octet", AuthenFlags)
      <4>1. x.field = "flags" /\ x.kind = "octet" /\ x.allowed = AuthenFlags
        BY <3>3 DEF Item
      <4>2. 0 \in AuthenFlags
        BY <3>1 DEF AuthenFlags
      <4> QED BY <2>4, <3>1, <4>1, <4>2 DEF ValueOf, ValidField
    <3>4. CASE x = Item("servermsg", "len16", AuthenServerMsg)
      <4>1. x.field = "servermsg" /\ x.kind = "len16" /\ x.allowed = AuthenServerMsg
        BY <3>4 DEF Item
      <4>2. Within(BadSecretText, AuthenServerMsg) /\ BadSecretText \in Seq(Octet)
        BY <1>BadText DEF AuthenServerMsg
      <4> QED BY <2>4, <4>1, <4>2 DEF ValueOf, ValidField
    <3>5. CASE x = Item("data", "len16", AuthenData)
      <4>1. x.field = "data" /\ x.kind = "len16" /\ x.allowed = AuthenData
        BY <3>5 DEF Item
      <4>2. Within(<<>>, AuthenData) /\ <<>> \in Seq(Octet)
        BY <1>BadText DEF AuthenData
      <4> QED BY <2>4, <4>1, <4>2, Zenon DEF ValueOf, ValidField
    <3> QED BY <2>5, <3>2, <3>3, <3>4, <3>5
  <2>7. IsMessage(t, m)
    BY <2>4, <2>6 DEF IsMessage, head
  <2>8. Valid(t, m)
    BY <2>6 DEF Valid, head
  <2>9. ArgsOf(t, m) = <<>>
    BY <2>4 DEF ArgsOf
  <2>10. Kind[t]["status"] = "octet" /\ Kind[t]["flags"] = "octet"
           /\ Kind[t]["servermsg"] = "len16" /\ Kind[t]["data"] = "len16"
    <3>1. \A i \in 1..4 : Kind[t][head[i].field] = head[i].kind
      BY <2>1, <2>2, HeadItems DEF Items, head
    <3>2. head[1].field = "status" /\ head[1].kind = "octet" /\ head[2].field = "flags"
            /\ head[2].kind = "octet" /\ head[3].field = "servermsg"
            /\ head[3].kind = "len16" /\ head[4].field = "data"
            /\ head[4].kind = "len16"
      BY <2>3 DEF Item
    <3>3. 1 \in 1..4 /\ 2 \in 1..4 /\ 3 \in 1..4 /\ 4 \in 1..4
      OBVIOUS
    <3> QED BY <3>1, <3>2, <3>3
  <2>11. Brief(t, m)
    <3>1. \A f \in Fields[t] : Kind[t][f] \in {"len8", "len16"} => f \in {"servermsg", "data"}
      BY <2>4, <2>10
    <3>2. Len(m["servermsg"]) = 3 /\ Len(m["data"]) = 0
      BY <2>4, <1>BadText
    <3>3. \A f \in {"servermsg", "data"} : Len(m[f]) <= 3
      <4>1. Len(m["servermsg"]) <= 3 /\ Len(m["data"]) <= 3
        BY <3>2
      <4> QED BY <4>1, Zenon
    <3> QED BY <2>7, <2>8, <2>9, <3>1, <3>3, Zenon DEF Brief
  <2>12. \A f \in Fields[t] : Kind[t][f] \in {"len8", "count"} => m[f] = <<>>
    BY <2>4, <2>10
  <2>13. Fits(t, m)
    BY <2>1, <2>11, <2>12, BriefFits
  <2>14. BadSecretMessage(1) = m
    BY DEF BadSecretMessage, m
  <2> QED BY <2>1, <2>13, <2>14
<1>BadAuthor. "AuthorReply" \in BodyType /\ Fits("AuthorReply", BadSecretMessage(2))
  <2> DEFINE t == "AuthorReply"
             m == [status |-> 17, args |-> <<>>, servermsg |-> BadSecretText, data |-> <<>>]
             head == HeadOf[t]
  <2>1. t \in BodyType /\ head = AuthorReply.head
    BY Layouts DEF HeadOf
  <2>2. Regular(head) /\ Len(head) = 4
    BY AuthorReplyHead
  <2>3. /\ head[1] = Item("status", "octet", AuthorStatus)
        /\ head[2] = Item("args", "count", ASCII)
        /\ head[3] = Item("servermsg", "len16", AuthorServerMsg)
        /\ head[4] = Item("data", "len16", AuthorData)
    BY <2>1 DEF AuthorReply
  <2>4. Fields[t] = {"status", "args", "servermsg", "data"}
          /\ m = [f \in Fields[t] |-> m[f]] /\ m["status"] = 17 /\ m["args"] = <<>>
          /\ m["servermsg"] = BadSecretText /\ m["data"] = <<>>
    <3>1. Fields[t] = {head[i].field : i \in 1..4}
      BY <2>1, <2>2, HeadItems, Zenon DEF Items
    <3> HIDE DEF head
    <3>2. 1..4 = {1, 2, 3, 4}
      OBVIOUS
    <3>3. head[1].field = "status" /\ head[2].field = "args"
            /\ head[3].field = "servermsg" /\ head[4].field = "data"
      BY <2>3 DEF Item
    <3> QED BY <3>1, <3>2, <3>3
  <2>5. \A x \in Range(head) :
            \/ x = Item("status", "octet", AuthorStatus)
            \/ x = Item("args", "count", ASCII)
            \/ x = Item("servermsg", "len16", AuthorServerMsg)
            \/ x = Item("data", "len16", AuthorData)
    <3>1. \A x \in Range(head) : \E i \in 1..4 : x = head[i]
      <4>1. head \in Seq(Range(head))
        BY <2>2 DEF Regular
      <4> HIDE DEF head
      <4>2. \A x : x \in Range(head) <=> \E i \in 1..Len(head) : x = head[i]
        BY <4>1, RangeElements
      <4> QED BY <2>2, <4>2
    <3> HIDE DEF head
    <3> QED BY <2>3, <3>1
  <2> HIDE DEF m, head
  <2>6. ASSUME NEW x \in Range(head)
        PROVE  m[x.field] \in ValueOf(x.kind) /\ ValidField(x, m[x.field])
    <3>1. 7 \in Octet /\ 0 \in Octet /\ 17 \in Octet /\ 2 \in Octet /\ <<>> \in Seq(Seq(Octet))
      BY OctetRange
    <3>2. CASE x = Item("status", "octet", AuthorStatus)
      <4>1. x.field = "status" /\ x.kind = "octet" /\ x.allowed = AuthorStatus
        BY <3>2 DEF Item
      <4>2. 17 \in AuthorStatus
        BY <3>1 DEF AuthorStatus
      <4> QED BY <2>4, <3>1, <4>1, <4>2 DEF ValueOf, ValidField
    <3>3. CASE x = Item("args", "count", ASCII)
      <4>1. x.field = "args" /\ x.kind = "count" /\ x.allowed = ASCII
        BY <3>3 DEF Item
      <4>2. \A i \in 1..Len(<<>>) : ValidArg(<<>>[i])
        OBVIOUS
      <4> QED BY <2>4, <3>1, <4>1, <4>2, Zenon DEF ValueOf, ValidField
    <3>4. CASE x = Item("servermsg", "len16", AuthorServerMsg)
      <4>1. x.field = "servermsg" /\ x.kind = "len16" /\ x.allowed = AuthorServerMsg
        BY <3>4 DEF Item
      <4>2. Within(BadSecretText, AuthorServerMsg) /\ BadSecretText \in Seq(Octet)
        BY <1>BadText DEF AuthorServerMsg
      <4> QED BY <2>4, <4>1, <4>2 DEF ValueOf, ValidField
    <3>5. CASE x = Item("data", "len16", AuthorData)
      <4>1. x.field = "data" /\ x.kind = "len16" /\ x.allowed = AuthorData
        BY <3>5 DEF Item
      <4>2. Within(<<>>, AuthorData) /\ <<>> \in Seq(Octet)
        BY <1>BadText DEF AuthorData
      <4> QED BY <2>4, <4>1, <4>2, Zenon DEF ValueOf, ValidField
    <3> QED BY <2>5, <3>2, <3>3, <3>4, <3>5
  <2>7. IsMessage(t, m)
    BY <2>4, <2>6 DEF IsMessage, head
  <2>8. Valid(t, m)
    BY <2>6 DEF Valid, head
  <2>9. ArgsOf(t, m) = <<>>
    BY <2>4 DEF ArgsOf
  <2>10. Kind[t]["status"] = "octet" /\ Kind[t]["args"] = "count"
           /\ Kind[t]["servermsg"] = "len16" /\ Kind[t]["data"] = "len16"
    <3>1. \A i \in 1..4 : Kind[t][head[i].field] = head[i].kind
      BY <2>1, <2>2, HeadItems DEF Items, head
    <3>2. head[1].field = "status" /\ head[1].kind = "octet" /\ head[2].field = "args"
            /\ head[2].kind = "count" /\ head[3].field = "servermsg"
            /\ head[3].kind = "len16" /\ head[4].field = "data"
            /\ head[4].kind = "len16"
      BY <2>3 DEF Item
    <3>3. 1 \in 1..4 /\ 2 \in 1..4 /\ 3 \in 1..4 /\ 4 \in 1..4
      OBVIOUS
    <3> QED BY <3>1, <3>2, <3>3
  <2>11. Brief(t, m)
    <3>1. \A f \in Fields[t] : Kind[t][f] \in {"len8", "len16"} => f \in {"servermsg", "data"}
      BY <2>4, <2>10
    <3>2. Len(m["servermsg"]) = 3 /\ Len(m["data"]) = 0
      BY <2>4, <1>BadText
    <3>3. \A f \in {"servermsg", "data"} : Len(m[f]) <= 3
      <4>1. Len(m["servermsg"]) <= 3 /\ Len(m["data"]) <= 3
        BY <3>2
      <4> QED BY <4>1, Zenon
    <3> QED BY <2>7, <2>8, <2>9, <3>1, <3>3, Zenon DEF Brief
  <2>12. \A f \in Fields[t] : Kind[t][f] \in {"len8", "count"} => m[f] = <<>>
    BY <2>4, <2>10
  <2>13. Fits(t, m)
    BY <2>1, <2>11, <2>12, BriefFits
  <2>14. BadSecretMessage(2) = m
    BY DEF BadSecretMessage, m
  <2> QED BY <2>1, <2>13, <2>14
<1>BadAcct. "AcctReply" \in BodyType /\ Fits("AcctReply", BadSecretMessage(3))
  <2> DEFINE t == "AcctReply"
             m == [status |-> 2, servermsg |-> BadSecretText, data |-> <<>>]
             head == HeadOf[t]
  <2>1. t \in BodyType /\ head = AcctReply.head
    BY Layouts DEF HeadOf
  <2>2. Regular(head) /\ Len(head) = 3
    BY AcctReplyHead
  <2>3. /\ head[1] = Item("servermsg", "len16", AcctServerMsg)
        /\ head[2] = Item("data", "len16", AcctData)
        /\ head[3] = Item("status", "octet", AcctReplyStatus)
    BY <2>1 DEF AcctReply
  <2>4. Fields[t] = {"servermsg", "data", "status"} /\ m = [f \in Fields[t] |-> m[f]]
          /\ m["servermsg"] = BadSecretText /\ m["data"] = <<>> /\ m["status"] = 2
    <3>1. Fields[t] = {head[i].field : i \in 1..3}
      BY <2>1, <2>2, HeadItems, Zenon DEF Items
    <3> HIDE DEF head
    <3>2. 1..3 = {1, 2, 3}
      OBVIOUS
    <3>3. head[1].field = "servermsg" /\ head[2].field = "data" /\ head[3].field = "status"
      BY <2>3 DEF Item
    <3> QED BY <3>1, <3>2, <3>3
  <2>5. \A x \in Range(head) :
            \/ x = Item("servermsg", "len16", AcctServerMsg)
            \/ x = Item("data", "len16", AcctData)
            \/ x = Item("status", "octet", AcctReplyStatus)
    <3>1. \A x \in Range(head) : \E i \in 1..3 : x = head[i]
      <4>1. head \in Seq(Range(head))
        BY <2>2 DEF Regular
      <4> HIDE DEF head
      <4>2. \A x : x \in Range(head) <=> \E i \in 1..Len(head) : x = head[i]
        BY <4>1, RangeElements
      <4> QED BY <2>2, <4>2
    <3> HIDE DEF head
    <3> QED BY <2>3, <3>1
  <2> HIDE DEF m, head
  <2>6. ASSUME NEW x \in Range(head)
        PROVE  m[x.field] \in ValueOf(x.kind) /\ ValidField(x, m[x.field])
    <3>1. 7 \in Octet /\ 0 \in Octet /\ 17 \in Octet /\ 2 \in Octet /\ <<>> \in Seq(Seq(Octet))
      BY OctetRange
    <3>2. CASE x = Item("servermsg", "len16", AcctServerMsg)
      <4>1. x.field = "servermsg" /\ x.kind = "len16" /\ x.allowed = AcctServerMsg
        BY <3>2 DEF Item
      <4>2. Within(BadSecretText, AcctServerMsg) /\ BadSecretText \in Seq(Octet)
        BY <1>BadText DEF AcctServerMsg
      <4> QED BY <2>4, <4>1, <4>2 DEF ValueOf, ValidField
    <3>3. CASE x = Item("data", "len16", AcctData)
      <4>1. x.field = "data" /\ x.kind = "len16" /\ x.allowed = AcctData
        BY <3>3 DEF Item
      <4>2. Within(<<>>, AcctData) /\ <<>> \in Seq(Octet)
        BY <1>BadText DEF AcctData
      <4> QED BY <2>4, <4>1, <4>2, Zenon DEF ValueOf, ValidField
    <3>4. CASE x = Item("status", "octet", AcctReplyStatus)
      <4>1. x.field = "status" /\ x.kind = "octet" /\ x.allowed = AcctReplyStatus
        BY <3>4 DEF Item
      <4>2. 2 \in AcctReplyStatus
        BY <3>1 DEF AcctReplyStatus
      <4> QED BY <2>4, <3>1, <4>1, <4>2 DEF ValueOf, ValidField
    <3> QED BY <2>5, <3>2, <3>3, <3>4
  <2>7. IsMessage(t, m)
    BY <2>4, <2>6 DEF IsMessage, head
  <2>8. Valid(t, m)
    BY <2>6 DEF Valid, head
  <2>9. ArgsOf(t, m) = <<>>
    BY <2>4 DEF ArgsOf
  <2>10. Kind[t]["servermsg"] = "len16" /\ Kind[t]["data"] = "len16" /\ Kind[t]["status"] = "octet"
    <3>1. \A i \in 1..3 : Kind[t][head[i].field] = head[i].kind
      BY <2>1, <2>2, HeadItems DEF Items, head
    <3>2. head[1].field = "servermsg" /\ head[1].kind = "len16"
            /\ head[2].field = "data" /\ head[2].kind = "len16"
            /\ head[3].field = "status" /\ head[3].kind = "octet"
      BY <2>3 DEF Item
    <3>3. 1 \in 1..3 /\ 2 \in 1..3 /\ 3 \in 1..3
      OBVIOUS
    <3> QED BY <3>1, <3>2, <3>3
  <2>11. Brief(t, m)
    <3>1. \A f \in Fields[t] : Kind[t][f] \in {"len8", "len16"} => f \in {"servermsg", "data"}
      BY <2>4, <2>10
    <3>2. Len(m["servermsg"]) = 3 /\ Len(m["data"]) = 0
      BY <2>4, <1>BadText
    <3>3. \A f \in {"servermsg", "data"} : Len(m[f]) <= 3
      <4>1. Len(m["servermsg"]) <= 3 /\ Len(m["data"]) <= 3
        BY <3>2
      <4> QED BY <4>1, Zenon
    <3> QED BY <2>7, <2>8, <2>9, <3>1, <3>3, Zenon DEF Brief
  <2>12. \A f \in Fields[t] : Kind[t][f] \in {"len8", "count"} => m[f] = <<>>
    BY <2>4, <2>10
  <2>13. Fits(t, m)
    BY <2>1, <2>11, <2>12, BriefFits
  <2>14. BadSecretMessage(3) = m
    BY SMTT(20) DEF BadSecretMessage, m
  <2> QED BY <2>1, <2>13, <2>14
<1> SUFFICES ASSUME NEW h, Sound(h)
             PROVE LET m == BadSecretMessage(h.type)
                       b == MarshalBinary(ReplyType(h.type), m)
                       g == [h EXCEPT !.seq = 1, !.length = Len(b)]
                   IN  /\ ReplyType(h.type) \in BodyType /\ Fits(ReplyType(h.type), m)
                       /\ b \in Seq(Octet)
                       /\ Sound(g) /\ g.length = Len(b) /\ g.type = h.type /\ g.seq = 1
                       /\ \A secret : BadSecretReply(secret, h) = PacketOctets(secret, g, b)
  BY Zenon
<1> DEFINE t == ReplyType(h.type)
           m == BadSecretMessage(h.type)
           b == MarshalBinary(t, m)
           g == [h EXCEPT !.seq = 1, !.length = Len(b)]
<1>1. h.type \in {1, 2, 3}
  BY SMT DEF Sound, HeaderValid
<1>2. t \in BodyType /\ Fits(t, m)
  <2>1. CASE h.type = 1
    <3>1. t = "AuthenReply" /\ m = BadSecretMessage(1)
      BY <2>1 DEF ReplyType
    <3> HIDE DEF t, m
    <3> QED BY <3>1, <1>BadAuthen, Zenon
  <2>2. CASE h.type = 2
    <3>1. t = "AuthorReply" /\ m = BadSecretMessage(2)
      BY <2>2 DEF ReplyType
    <3> HIDE DEF t, m
    <3> QED BY <3>1, <1>BadAuthor, Zenon
  <2>3. CASE h.type = 3
    <3>1. t = "AcctReply" /\ m = BadSecretMessage(3)
      BY <2>3 DEF ReplyType
    <3> HIDE DEF t, m
    <3> QED BY <3>1, <1>BadAcct, Zenon
  <2> QED BY <1>1, <2>1, <2>2, <2>3
<1> HIDE DEF t, m
<1>3. b \in Seq(Octet) /\ Len(b) <= MaxBodyLength
  <2>1. IsMessage(t, m) /\ Valid(t, m) /\ Len(b) <= MaxBodyLength
    BY <1>2, Zenon DEF Fits
  <2> QED BY <1>2, <2>1, Encoded
<1>4. Len(b) \in Nat
  BY <1>3
<1> HIDE DEF b
<1>5. /\ g \in Header /\ g.length = Len(b) /\ g.type = h.type /\ g.seq = 1 /\ g.sid = h.sid
      /\ g.major = h.major /\ g.minor = h.minor
      /\ [[h EXCEPT !.seq = 1] EXCEPT !.length = Len(b)] = g /\ [g EXCEPT !.length = Len(b)] = g
  <2> DEFINE n == Len(b)
  <2>1. n \in Nat /\ 1 \in Nat /\ h \in Header
    BY <1>4, SMT DEF Sound
  <2> HIDE DEF n
  <2> DEFINE k == [h EXCEPT !.seq = 1]
             f == [k EXCEPT !.length = n]
  <2>2. /\ k \in Header /\ k.type = h.type /\ k.seq = 1 /\ k.sid = h.sid
        /\ k.major = h.major /\ k.minor = h.minor
    BY <2>1 DEF Header
  <2> HIDE DEF k
  <2>3. /\ f \in Header /\ f.length = n /\ f.type = k.type /\ f.seq = k.seq /\ f.sid = k.sid
        /\ f.major = k.major /\ f.minor = k.minor /\ [f EXCEPT !.length = n] = f
    BY <2>1, <2>2, Zenon DEF Header
  <2>4. f = g
    BY Zenon DEF k, n
  <2> HIDE DEF f, g
  <2> QED BY <2>2, <2>3, <2>4, Zenon DEF f, k, n
<1>6. Sound(g)
  BY <1>3, <1>5, SMT DEF Sound, HeaderValid
<1>7. ASSUME NEW secret PROVE BadSecretReply(secret, h) = PacketOctets(secret, g, b)
  <2> DEFINE k == [h EXCEPT !.seq = 1]
  <2>1. [k EXCEPT !.length = Len(b)] = g /\ [g EXCEPT !.length = Len(b)] = g
    BY <1>5
  <2> HIDE DEF g, k
  <2>2. PacketOctets(secret, k, b) = PacketOctets(secret, g, b)
    BY <2>1, Zenon DEF PacketOctets
  <2> QED BY <2>2, Zenon DEF BadSecretReply, b, t, m, k
<1> QED BY <1>2, <1>3, <1>5, <1>6, <1>7 DEF t, m, b

\* A packet with a valid header.
LEMMA ReceivedSound ==
    \A p \in Received :
        Typed /\ HeaderValid(p.h) =>
            Returned(p) /\ p.rest \in Seq(Octet)
<1>FourOctetsBack. ASSUME NEW a \in Octet, NEW b \in Octet, NEW c \in Octet, NEW d \in Octet
                   PROVE  LET n == 16777216 * a + 65536 * b + 256 * c + d
                          IN  n \in Nat /\ n \div 16777216 \in Octet
  <2> USE <1>FourOctetsBack
  <2> DEFINE n == 16777216 * a + 65536 * b + 256 * c + d
  <2>1. /\ a \in Int /\ b \in Int /\ c \in Int /\ d \in Int
        /\ 0 <= a /\ a < 256 /\ 0 <= b /\ b < 256 /\ 0 <= c /\ c < 256 /\ 0 <= d /\ d < 256
    BY OctetRange
  <2>2. n \in Nat /\ n \div 16777216 = a
    BY <2>1, SMT
  <2> HIDE DEF n
  <2>3. n \in Nat /\ n \div 16777216 \in Octet
    BY <2>2
  <2> QED BY <2>3, SMT DEF n
<1>UintRead. ASSUME NEW s, NEW p, s[p + 1] \in Octet, s[p + 2] \in Octet, s[p + 3] \in Octet, s[p + 4] \in Octet
             PROVE  ReadUint32(s, p) \in Nat /\ TopOctet(ReadUint32(s, p)) \in Octet
  <2> USE <1>UintRead
  <2> DEFINE a == s[p + 1]
             b == s[p + 2]
             c == s[p + 3]
             d == s[p + 4]
             n == 16777216 * a + 65536 * b + 256 * c + d
  <2>1. a \in Octet /\ b \in Octet /\ c \in Octet /\ d \in Octet /\ ReadUint32(s, p) = n
    BY SMT DEF ReadUint32
  <2> HIDE DEF a, b, c, d
  <2>2. n \in Nat /\ n \div 16777216 \in Octet
    BY <2>1, <1>FourOctetsBack, SMT
  <2> QED BY <2>1, <2>2, SMT DEF TopOctet
\* The header of a packet, whatever the octets are.
<1>HeaderRead. ASSUME NEW s \in Seq(Octet), Headed(s)
               PROVE  /\ Fitting(HeaderUnmarshal(s))
                      /\ BodyLength(s) \in Nat /\ HeaderUnmarshal(s).length = BodyLength(s)
  <2> USE <1>HeaderRead
  <2> DEFINE h == [major |-> s[1] \div 16, minor |-> s[1] % 16, type |-> s[2], seq |-> s[3],
                   flags |-> s[4], sid |-> ReadUint32(s, 4), length |-> ReadUint32(s, 8)]
  <2>1. Len(s) \in Nat /\ Len(s) >= 12
    BY DEF Headed, MaxHeaderLength
  <2>2. \A i \in 1..12 : s[i] \in Octet
    BY <2>1
  <2>3. /\ ReadUint32(s, 4) \in Nat /\ TopOctet(ReadUint32(s, 4)) \in Octet
        /\ ReadUint32(s, 8) \in Nat
    <3>1. /\ s[4 + 1] \in Octet /\ s[4 + 2] \in Octet /\ s[4 + 3] \in Octet /\ s[4 + 4] \in Octet
          /\ s[8 + 1] \in Octet /\ s[8 + 2] \in Octet /\ s[8 + 3] \in Octet /\ s[8 + 4] \in Octet
      BY <2>2
    <3> QED BY <3>1, <1>UintRead, SMTT(20)
  <2>4. s[1] \div 16 \in Nat /\ s[1] % 16 \in Nat /\ s[2] \in Nat /\ s[3] \in Nat /\ s[4] \in Octet
    <3> DEFINE x == s[1]
    <3>1. x \in Nat /\ s[2] \in Nat /\ s[3] \in Nat /\ s[4] \in Octet
      <4>1. s[1] \in Octet /\ s[2] \in Octet /\ s[3] \in Octet /\ s[4] \in Octet
        BY <2>2
      <4> QED BY <4>1, OctetRange
    <3> HIDE DEF x
    <3>2. x \div 16 \in Nat /\ x % 16 \in Nat
      BY <3>1
    <3> QED BY <3>1, <3>2 DEF x
  <2>5. h \in Header /\ h.sid = ReadUint32(s, 4) /\ h.length = ReadUint32(s, 8)
    BY <2>3, <2>4, SMT DEF Header
  <2>6. HeaderUnmarshal(s) = FirstReply(h)
    BY Zenon DEF HeaderUnmarshal
  <2> HIDE DEF h
  <2>7. /\ FirstReply(h) \in Header /\ FirstReply(h).sid = h.sid
        /\ FirstReply(h).length = h.length
    BY <2>5, FirstReplyKeeps
  <2> QED BY <2>3, <2>5, <2>6, <2>7, SMT DEF Fitting, BodyLength
<1>ReceivedType. ASSUME stream \in Seq(Octet), ends.proxy \in BOOLEAN
                 PROVE  \A p \in Received :
                           /\ Fitting(p.h) /\ p.body \in Seq(Octet) /\ Len(p.body) = p.h.length
                           /\ p.rest \in Seq(Octet)
  <2> USE <1>ReceivedType
  <2> DEFINE n == Len(stream)
             a == MaxHeaderLength
  <2>1. ASSUME NEW s \in Following PROVE s \in Seq(Octet)
    <3>1. LineAccepted /\ s = SubSeq(stream, LineLength + 1, Len(stream))
      BY <2>1 DEF Following
    <3>2. LineLength \in 0..Len(stream)
      BY <3>1, LineFound DEF LineAccepted
    <3> QED BY <3>1, <3>2
  <2>2. ASSUME NEW s \in Following, Headed(s), Whole(s)
        PROVE  LET b == BodyLength(s)
                   u == SubSeq(s, a + 1, a + b)
               IN  /\ Fitting(HeaderUnmarshal(s)) /\ HeaderUnmarshal(s).length = b
                   /\ u \in Seq(Octet) /\ Len(u) = b
                   /\ SubSeq(s, a + b + 1, Len(s)) \in Seq(Octet)
    <3> DEFINE b == BodyLength(s)
               m == Len(s)
    <3>1. s \in Seq(Octet)
      BY <2>1
    <3>2. Fitting(HeaderUnmarshal(s)) /\ b \in Nat /\ HeaderUnmarshal(s).length = b
      BY <2>2, <3>1, <1>HeaderRead
    <3>3. a \in Nat /\ m \in Nat /\ a + b <= m
      BY <2>2, <3>1 DEF MaxHeaderLength, Whole
    <3> HIDE DEF a, b, m
    <3>4. a \in 0..m /\ a + b \in 0..m /\ m \in 0..m /\ a <= a + b /\ (a + b) - a = b
      BY <3>2, <3>3
    <3> DEFINE e == a + b
    <3> HIDE DEF e
    <3>5. a \in 0..Len(s) /\ e \in 0..Len(s) /\ Len(s) \in 0..Len(s) /\ a <= e
            /\ e - a = b /\ e <= Len(s)
      BY <3>3, <3>4 DEF e, m
    <3>6. LET u == SubSeq(s, a + 1, e) IN u \in Seq(Octet) /\ Len(u) = e - a
      BY <3>1, <3>5, SubSeqParts
    <3>7. SubSeq(s, e + 1, Len(s)) \in Seq(Octet)
      BY <3>1, <3>5, SubSeqParts
    <3> QED BY <3>2, <3>5, <3>6, <3>7, Zenon DEF e, b
  <2>3. ASSUME NEW p \in Received
        PROVE  /\ Fitting(p.h) /\ p.body \in Seq(Octet) /\ Len(p.body) = p.h.length
               /\ p.rest \in Seq(Octet)
    <3>1. PICK s \in Following :
             /\ Headed(s) /\ Whole(s)
             /\ p = [h |-> HeaderUnmarshal(s), rest |-> SubSeq(s, a + BodyLength(s) + 1, Len(s)),
                     body |-> Crypt(ends.reader, HeaderUnmarshal(s),
                                    SubSeq(s, a + 1, a + BodyLength(s)))]
      BY <2>3 DEF Received
    <3> DEFINE u == SubSeq(s, a + 1, a + BodyLength(s))
    <3>2. /\ Fitting(HeaderUnmarshal(s)) /\ HeaderUnmarshal(s).length = BodyLength(s)
          /\ u \in Seq(Octet) /\ Len(u) = BodyLength(s)
          /\ SubSeq(s, a + BodyLength(s) + 1, Len(s)) \in Seq(Octet)
      BY <2>2, <3>1
    <3>3. /\ p.h = HeaderUnmarshal(s) /\ p.rest = SubSeq(s, a + BodyLength(s) + 1, Len(s))
          /\ p.body = Crypt(ends.reader, HeaderUnmarshal(s), u)
      BY <3>1, Zenon
    <3> HIDE DEF u, a
    <3>4. p.body \in Seq(Octet) /\ Len(p.body) = Len(u)
      BY <3>2, <3>3, CryptType
    <3> QED BY <3>2, <3>3, <3>4
  <2> QED BY <2>3
<1> SUFFICES ASSUME Typed, NEW p \in Received, HeaderValid(p.h)
             PROVE Returned(p) /\ p.rest \in Seq(Octet)
  OBVIOUS
<1>1. Fitting(p.h) /\ p.body \in Seq(Octet) /\ Len(p.body) = p.h.length /\ p.rest \in Seq(Octet)
  BY <1>ReceivedType, Zenon DEF Typed
<1>2. Sound(p.h)
  BY <1>1, SMT DEF Fitting, TopOctet, Sound
<1> QED BY <1>1, <1>2, Zenon DEF Returned

LEMMA AlwaysTyped == Spec => []Typed
<1>WriteTyped. ASSUME Typed, Write
               PROVE  Typed'
  <2> USE <1>WriteTyped
  <2> DEFINE x == script[1]
             p == PacketOctets(ends.writer, x.h, BodyOf(x))
  <2>1. Entries(script') /\ IsEntry(x) /\ x.t # "foreign"
    BY NextEntry, Zenon DEF Write
  <2>2. UNCHANGED <<ends, broken, reader, got, answer>>
    BY DEF Write
  <2>3. CASE Encodes(x)
    <3>1. stream' = (stream \o LineBefore) \o p /\ written' = Append(written, Packet(x))
      BY <2>3, Zenon DEF Write
    <3>2. Sent(Packet(x)) /\ p = PacketOctets(ends.writer, Packet(x).h, Packet(x).body)
            /\ Packet(x).t # "foreign"
      BY <2>1, <2>3, EntryPacket
    <3>3. p \in Seq(Octet)
      <4>1. Sound(Packet(x).h) /\ Packet(x).body \in Seq(Octet)
              /\ Packet(x).h.length = Len(Packet(x).body)
        BY <3>2, Zenon DEF Sent
      <4>2. PacketIs(p, HeaderMarshal(Packet(x).h), Crypt(ends.writer, Packet(x).h, Packet(x).body), Len(Packet(x).body))
        BY <3>2, <4>1, PacketLaid, Zenon
      <4> QED BY <4>2 DEF PacketIs
    <3> HIDE DEF p, x
    <3>4. stream' \in Seq(Octet)
      <4>1. stream \in Seq(Octet) /\ LineBefore \in Seq(Octet)
        BY LineIsText DEF Typed
      <4> QED BY <3>1, <3>3, <4>1, ConcatProperties
    <3>5. /\ written' \in Seq(Range(written'))
          /\ \A i \in 1..Len(written') : (i \in 1..Len(written) /\ written'[i] = written[i]) \/ written'[i] = Packet(x)
      <4>1. written \in Seq(Range(written))
        BY DEF Typed
      <4>2. Longer(written', written, Packet(x))
        BY <3>1, <4>1, AppendSelf, Zenon
      <4> QED BY <4>2, Zenon DEF Longer
    <3>6. \A i \in 1..Len(written') : Sent(written'[i])
      BY <3>2, <3>5, Zenon DEF Typed
    <3> QED BY <2>1, <2>2, <3>4, <3>5, <3>6, Zenon DEF Typed
  <2>4. CASE ~Encodes(x)
    <3>1. UNCHANGED <<stream, written>>
      BY <2>4, Zenon DEF Write
    <3> QED BY <2>1, <2>2, <3>1, Zenon DEF Typed
  <2> QED BY <2>3, <2>4
<1>WriteForeignTyped. ASSUME Typed, WriteForeign
                      PROVE  Typed'
  <2> USE <1>WriteForeignTyped
  <2> DEFINE x == script[1]
             p == [h |-> x.h, body |-> <<>>, t |-> "foreign", msg |-> <<>>]
  <2>1. Entries(script') /\ IsEntry(x) /\ x.t = "foreign"
    BY NextEntry, Zenon DEF WriteForeign
  <2>2. UNCHANGED <<ends, broken, reader, got, answer>> /\ stream' = stream \o x.msg
          /\ written' = Append(written, p)
    BY Zenon DEF WriteForeign
  <2>3. x.msg \in Seq(Octet)
    <3>1. "foreign" \notin BodyType
      BY Layouts
    <3> QED BY <2>1, <3>1, SMT DEF IsEntry
  <2>4. Sent(p)
    BY DEF Sent
  <2> HIDE DEF p, x
  <2>5. stream' \in Seq(Octet)
    BY <2>2, <2>3, ConcatProperties DEF Typed
  <2>6. /\ written' \in Seq(Range(written'))
        /\ \A i \in 1..Len(written') : (i \in 1..Len(written) /\ written'[i] = written[i]) \/ written'[i] = p
    <3>1. written \in Seq(Range(written))
      BY DEF Typed
    <3>2. Longer(written', written, p)
      BY <2>2, <3>1, AppendSelf, Zenon
    <3> QED BY <3>2, Zenon DEF Longer
  <2>7. \A i \in 1..Len(written') : Sent(written'[i])
    BY <2>4, <2>6, Zenon DEF Typed
  <2> QED BY <2>1, <2>2, <2>5, <2>6, <2>7, Zenon DEF Typed
<1>BreakTyped. ASSUME Typed, NEW n \in Breaks, Break(n)
               PROVE  Typed'
  <2> USE <1>BreakTyped
  <2>1. UNCHANGED <<script, ends, reader, written, got, answer>> /\ broken' \in BOOLEAN
    BY DEF Break
  <2>2. n \in Nat
    BY WireAssumption
  <2>3. stream' \in Seq(Octet)
    BY <2>2, SubSeqParts DEF Break, Typed
  <2> QED BY <2>1, <2>3, Zenon DEF Typed
<1>ReadPacketTyped. ASSUME Typed, ReadPacket
                    PROVE  Typed'
  <2> USE <1>ReadPacketTyped
  <2>1. PICK p \in Received : /\ HeaderValid(p.h)
                              /\ got' = Append(got, [h |-> p.h, body |-> p.body])
                              /\ stream' = p.rest
    BY DEF ReadPacket
  <2> DEFINE g == [h |-> p.h, body |-> p.body]
  <2>2. Returned(p) /\ stream' \in Seq(Octet)
    BY <2>1, ReceivedSound
  <2>3. Returned(g)
    BY <2>2 DEF Returned
  <2> HIDE DEF g
  <2>4. Longer(got', got, g)
    <3>1. got \in Seq(Range(got)) /\ got' = Append(got, g)
      BY <2>1 DEF Typed, g
    <3> QED BY <3>1, AppendSelf, Zenon
  <2>5. got' \in Seq(Range(got')) /\ \A i \in 1..Len(got') : Returned(got'[i])
    BY <2>3, <2>4, Zenon DEF Longer, Typed
  <2>6. UNCHANGED <<script, ends, broken, reader, written, answer>>
    BY DEF ReadPacket
  <2> QED BY <2>2, <2>5, <2>6, Zenon DEF Typed
<1>ReadBadSecretTyped. ASSUME Typed, ReadBadSecret
                       PROVE  Typed'
  <2> USE <1>ReadBadSecretTyped
  <2>1. PICK p \in Received : /\ HeaderValid(p.h)
                              /\ answer' = BadSecretReply(ends.reader, p.h)
                              /\ stream' = p.rest
    BY DEF ReadBadSecret
  <2>2. Returned(p) /\ stream' \in Seq(Octet)
    BY <2>1, ReceivedSound
  <2> DEFINE b == MarshalBinary(ReplyType(p.h.type), BadSecretMessage(p.h.type))
             g == [p.h EXCEPT !.seq = 1, !.length = Len(b)]
  <2>3. Sound(p.h)
    BY <2>2 DEF Returned
  <2>4. /\ b \in Seq(Octet) /\ Sound(g) /\ g.length = Len(b)
        /\ \A secret : BadSecretReply(secret, p.h) = PacketOctets(secret, g, b)
    BY <2>3, AnswerSent, Zenon
  <2> HIDE DEF b, g
  <2>5. PacketIs(answer', HeaderMarshal(g), Crypt(ends.reader, g, b), Len(b))
    BY <2>1, <2>4, PacketLaid, Zenon
  <2>6. UNCHANGED <<script, ends, broken, written, got>> /\ reader' = "closed"
    BY DEF ReadBadSecret
  <2> QED BY <2>2, <2>5, <2>6, Zenon DEF Typed, PacketIs
<1>NextTyped. Typed /\ [Next]_vars => Typed'
  <2> SUFFICES ASSUME Typed, [Next]_vars PROVE Typed'
    OBVIOUS
  <2>1. CASE Write
    BY <2>1, <1>WriteTyped
  <2>2. CASE WriteForeign
    BY <2>2, <1>WriteForeignTyped
  <2>3. ASSUME NEW n \in Breaks, Break(n) PROVE Typed'
    BY <2>3, <1>BreakTyped
  <2>4. CASE ReadPacket
    BY <2>4, <1>ReadPacketTyped
  <2>5. CASE ReadBadSecret
    BY <2>5, <1>ReadBadSecretTyped
  <2>6. CASE ReadFails
    BY <2>6, Zenon DEF ReadFails, Typed
  <2>7. CASE UNCHANGED vars
    BY <2>7, Zenon DEF vars, Typed
  <2> QED BY <2>1, <2>2, <2>3, <2>4, <2>5, <2>6, <2>7 DEF Next
<1> QED BY InitTyped, <1>NextTyped, PTL DEF Spec

\* The stream and the answer hold octets, and every packet read returns has a
\* valid header that gives the length of its body: the types of crypter.read and
\* crypter.write, for any peer.
THEOREM Types == Spec => []TypeOK
<1>1. Typed => TypeOK
  <2> SUFFICES ASSUME Typed PROVE TypeOK
    OBVIOUS
  <2>1. \A s \in Seq(Octet) : Within(s, Octet)
    BY DEF Within
  <2>2. \A i \in 1..Len(got) : HeaderValid(got[i].h) /\ Len(got[i].body) = got[i].h.length
    <3> SUFFICES ASSUME NEW i \in 1..Len(got)
                 PROVE  HeaderValid(got[i].h) /\ Len(got[i].body) = got[i].h.length
      OBVIOUS
    <3>1. Sound(got[i].h) /\ Len(got[i].body) = got[i].h.length
      BY Zenon DEF Typed, Returned
    <3> QED BY <3>1, SMT DEF Sound
  <2> QED BY <2>1, <2>2, Zenon DEF Typed, TypeOK
<1> QED BY <1>1, AlwaysTyped, PTL

\* What a packet's type may be, and the bodies of that type.
LEMMA CandidatesAre ==
    ASSUME NEW h, Sound(h)
    PROVE  Candidates(h.type) \subseteq BodyType
<1>1. h.type \in {1, 2, 3}
  BY SMT DEF Sound, HeaderValid
<1> QED BY <1>1, Layouts DEF Candidates

\* Whatever octets the peer sends: a body that decodes as a message of its type
\* begins with the encoding of that message (MarshalBinary and UnmarshalBinary of
\* every body, for texts and arguments of any length and number).
THEOREM OneEncoding == Spec => []Canonical
<1>1. Typed => Canonical
  <2> SUFFICES ASSUME Typed, NEW i \in 1..Len(got), NEW t \in Candidates(got[i].h.type),
                      Len(got[i].body) >= HeadLen[t], NEW m \in UnmarshalBinary(t, got[i].body)
               PROVE  SubSeq(got[i].body, 1, Len(MarshalBinary(t, m))) = MarshalBinary(t, m)
    BY DEF Canonical
  <2> DEFINE d == got[i].body
  <2>1. Sound(got[i].h) /\ d \in Seq(Octet)
    BY Zenon DEF Typed, Returned
  <2>2. t \in BodyType
    BY <2>1, CandidatesAre
  <2> HIDE DEF d
  <2>3. HeadLen[t] <= Len(d)
    <3>1. HeadLen[t] \in Nat
      BY <2>2, HeadLengths
    <3> QED BY <2>1, <3>1 DEF d
  <2>4. m \in UnmarshalBinary(t, d)
    BY DEF d
  <2>5. SubSeq(d, 1, Len(MarshalBinary(t, m))) = MarshalBinary(t, m)
    BY <2>1, <2>2, <2>3, <2>4, EncodesToItself
  <2> QED BY <2>5 DEF d
<1> QED BY <1>1, AlwaysTyped, PTL

\* No body below the bound is both a Start and a Continue, so that GetPassword
\* (authenticators/shared.go) may try the one before the other.
THEOREM NotBoth == Spec => []StartOrContinue
<1>1. Typed => StartOrContinue
  <2> SUFFICES ASSUME Typed, NEW i \in 1..Len(got), Len(got[i].body) < AmbiguousFrom
               PROVE  {} \in {UnmarshalBinary(t, got[i].body) : t \in {"AuthenStart", "AuthenContinue"}}
    BY Zenon DEF StartOrContinue
  <2>1. got[i].body \in Seq(Octet)
    BY Zenon DEF Typed, Returned
  <2> QED BY <2>1, StartIsNoContinue
<1> QED BY <1>1, AlwaysTyped, PTL

(***************************************************************************)
(* What lies ahead of read                                                 *)
(***************************************************************************)
\* The ends e, and the packets w that write has sent.
Traffic(e, w) ==
    /\ IsLine(e.line)
    /\ w \in Seq(Range(w)) /\ \A i \in 1..Len(w) : Sent(w[i]) /\ w[i].t # "foreign"

LEMMA FrameType ==
    ASSUME NEW e, NEW w, Traffic(e, w), NEW i \in 1..Len(w)
    PROVE  /\ LineOf(e, i) \in Seq(Octet) /\ IsLine(LineOf(e, i))
           /\ PacketOf(e, w[i]) \in Seq(Octet)
           /\ Frame(e, w, i) \in Seq(Octet)
<1>1. IsLine(<<>>)
  BY DEF IsLine
<1>2. IsLine(LineOf(e, i))
  BY <1>1, Zenon DEF LineOf, Traffic
<1>3. Sound(w[i].h) /\ w[i].body \in Seq(Octet) /\ w[i].h.length = Len(w[i].body)
  BY Zenon DEF Traffic, Sent
<1>4. PacketIs(PacketOf(e, w[i]), HeaderMarshal(w[i].h), Crypt(e.writer, w[i].h, w[i].body), Len(w[i].body))
  BY <1>3, PacketLaid, Zenon DEF PacketOf
<1>5. LineOf(e, i) \in Seq(Octet) /\ PacketOf(e, w[i]) \in Seq(Octet)
  BY <1>2, <1>4, Zenon DEF IsLine, PacketIs
<1>6. Frame(e, w, i) \in Seq(Octet)
  BY <1>5, ConcatProperties DEF Frame
<1> QED BY <1>2, <1>5, <1>6

LEMMA FramesType ==
    ASSUME NEW e, NEW w, Traffic(e, w), NEW k \in 0..Len(w)
    PROVE  /\ Frames(e, w, k) \in Seq(Seq(Octet)) /\ Len(Frames(e, w, k)) = Len(w) - k
           /\ \A i \in 1..(Len(w) - k) : Frames(e, w, k)[i] = Frame(e, w, k + i)
           /\ Ahead(e, w, k) \in Seq(Octet)
<1>1. Len(w) \in Nat /\ Len(w) - k \in Nat
  BY DEF Traffic
<1>2. ASSUME NEW i \in 1..(Len(w) - k) PROVE Frame(e, w, k + i) \in Seq(Octet)
  <2>1. k + i \in 1..Len(w)
    BY <1>1
  <2> QED BY <2>1, FrameType
<1>3. /\ Frames(e, w, k) \in Seq(Seq(Octet)) /\ Len(Frames(e, w, k)) = Len(w) - k
      /\ \A i \in 1..(Len(w) - k) : Frames(e, w, k)[i] = Frame(e, w, k + i)
  BY <1>1, <1>2 DEF Frames
<1> QED BY <1>3, FlatIsSeq DEF Ahead

LEMMA AheadOfNone ==
    ASSUME NEW e, NEW w, Traffic(e, w)
    PROVE  Ahead(e, w, Len(w)) = <<>>
<1>1. Len(w) \in Nat /\ Len(w) \in 0..Len(w)
  BY DEF Traffic
<1>2. Frames(e, w, Len(w)) \in Seq(Seq(Octet)) /\ Len(Frames(e, w, Len(w))) = 0
  BY <1>1, FramesType
<1>3. Frames(e, w, Len(w)) = <<>>
  BY <1>2, EmptySeq
<1> QED BY <1>3, FlatEmpty DEF Ahead

(***************************************************************************)
(* Where read looks for the next packet                                    *)
(***************************************************************************)
\* The octets before read begin with the line L, the packet P, and R.
Before(L, P, R) ==
    \E A : Laid(A, L, P, R) /\ Begins(stream, A)

\* A line that the reader expects is skipped.
LEMMA LineSkipped ==
    ASSUME Typed, NEW L, NEW P, NEW R, IsLine(L), Before(L, P, R), HasLine,
           ends.proxy <=> L # <<>>
    PROVE  LineLength = Len(L)
<1> DEFINE q == LineLength
           n == Len(L)
           m == Len(stream)
<1>1. /\ q \in 0..m /\ (~ends.proxy => q = 0)
      /\ ends.proxy => /\ q \in 1..m /\ stream[q] = 0
                       /\ \A i \in 1..(q - 1) : stream[i] # 0
  BY LineFound DEF Typed
<1>2. n \in Nat /\ m \in Nat /\ (L = <<>> => n = 0)
  BY DEF IsLine, Typed
<1>3. L # <<>> => n \in 1..n /\ L[n] = 0 /\ \A i \in 1..(n - 1) : L[i] # 0
  BY EmptySeq DEF IsLine
<1>4. PICK A : Laid(A, L, P, R) /\ Begins(stream, A)
  BY DEF Before
<1>5. (\A i \in 1..n : A[i] = L[i]) /\ \A i \in 1..m : A[i] = stream[i]
  BY <1>4 DEF Laid, Begins
<1> HIDE DEF q, n, m
<1>6. CASE ~ends.proxy
  BY <1>1, <1>2, <1>6 DEF q, n
<1>7. CASE ends.proxy
  <2>1. q \in 1..m /\ n \in 1..n
    BY <1>1, <1>3, <1>7
  <2>2. ASSUME q < n PROVE FALSE
    <3>1. q \in 1..(n - 1) /\ q \in 1..n
      BY <1>2, <2>1, <2>2
    <3> QED BY <1>1, <1>3, <1>5, <1>7, <2>1, <3>1, Zenon
  <2>3. ASSUME n < q PROVE FALSE
    <3>1. n \in 1..(q - 1) /\ n \in 1..m
      BY <1>2, <2>1, <2>3
    <3> QED BY <1>1, <1>3, <1>5, <1>7, <2>1, <3>1, Zenon
  <2>4. q = n
    BY <1>2, <2>1, <2>2, <2>3
  <2> QED BY <2>4 DEF q, n
<1> QED BY <1>6, <1>7

\* What follows the line.
Follows(f, n, P, R) ==
    /\ f \in Seq(Octet) /\ Len(f) = n /\ Along(f, P)
    /\ \A i \in 1..Len(f) : i > Len(P) => i - Len(P) \in 1..Len(R) /\ f[i] = R[i - Len(P)]

\* The first octets of a packet.
Opening(P) == P[1] > 100 /\ P[2] < 4 /\ P[9] = 0

\* The line before the next packet is one that the reader expects.
Expected == ends.proxy <=> LineOf(ends, Len(got) + 1) # <<>>

\* f begins with the packet w, and what is ahead comes after it.
Taken(f, w, ahead) ==
    /\ HeaderUnmarshal(f) = FirstReply(w.h) /\ BodyLength(f) = Len(w.body) /\ ~TooLong(f)
    /\ Whole(f) =>
          LET rest == SubSeq(f, MaxHeaderLength + BodyLength(f) + 1, Len(f))
          IN  /\ ends.writer = ends.reader =>
                    Crypt(ends.reader, FirstReply(w.h),
                          SubSeq(f, MaxHeaderLength + 1, MaxHeaderLength + BodyLength(f))) = w.body
              /\ Begins(rest, ahead) /\ (~broken => rest = ahead)

LEMMA OwnIsTraffic ==
    ASSUME Typed, OwnTraffic
    PROVE  Traffic(ends, written)
BY Zenon DEF Typed, OwnTraffic, Traffic

LEMMA NoneLeft ==
    ASSUME Typed, OwnTraffic, InPlace, Len(got) <= Len(written),
           stream # <<>>
    PROVE  Len(got) \in 0..(Len(written) - 1)
<1>1. Len(got) \in Nat /\ Len(written) \in Nat /\ stream \in Seq(Octet)
  BY DEF Typed
<1>2. ASSUME Len(got) = Len(written) PROVE FALSE
  <2>1. Ahead(ends, written, Len(written)) = <<>>
    BY OwnIsTraffic, AheadOfNone
  <2>2. Begins(stream, <<>>)
    BY <1>2, <2>1 DEF InPlace
  <2>3. Len(stream) = 0
    BY <1>1, <2>2 DEF Begins
  <2> QED BY <1>1, <2>3, EmptySeq
<1> QED BY <1>1, <1>2

\* The next packet lies before read.
LEMMA NextBefore ==
        Typed /\ OwnTraffic /\ InPlace /\ Len(got) \in 0..(Len(written) - 1) =>
            LET k == Len(got) + 1
                L == LineOf(ends, k)
                P == PacketOf(ends, written[k])
                R == Ahead(ends, written, k)
            IN  /\ IsLine(L) /\ P \in Seq(Octet) /\ Len(P) >= 12 /\ Opening(P) /\ R \in Seq(Octet)
                /\ Before(L, P, R) /\ (~broken => stream = (L \o P) \o R)
                /\ Sound(written[k].h) /\ written[k].body \in Seq(Octet)
                /\ written[k].h.length = Len(written[k].body)
<1>ElementOfSeq. ASSUME NEW T, NEW s \in Seq(T), NEW i \in 1..Len(s)
                 PROVE  s[i] \in T
  BY <1>ElementOfSeq
\* The next packet lies first.
<1>AheadNext. ASSUME NEW e, NEW w, Traffic(e, w), NEW k \in 0..(Len(w) - 1)
              PROVE  Ahead(e, w, k) = Frame(e, w, k + 1) \o Ahead(e, w, k + 1)
  <2> USE <1>AheadNext
  <2> DEFINE s == Frames(e, w, k)
             t == Frames(e, w, k + 1)
             x == Frame(e, w, k + 1)
  <2>1. Len(w) \in Nat /\ k \in 0..Len(w) /\ k + 1 \in 0..Len(w) /\ k + 1 \in 1..Len(w)
    BY DEF Traffic
  <2>2. x \in Seq(Octet)
    BY <2>1, FrameType
  <2>3. /\ s \in Seq(Seq(Octet)) /\ Len(s) = Len(w) - k
        /\ \A i \in 1..(Len(w) - k) : s[i] = Frame(e, w, k + i)
        /\ t \in Seq(Seq(Octet)) /\ Len(t) = Len(w) - (k + 1)
        /\ \A i \in 1..(Len(w) - (k + 1)) : t[i] = Frame(e, w, (k + 1) + i)
    BY <2>1, FramesType
  <2> DEFINE u == <<x>>
             v == u \o t
  <2>4. u \in Seq(Seq(Octet)) /\ Len(u) = 1 /\ u[1] = x
    BY <2>2
  <2> HIDE DEF s, t, x, u
  <2>5. /\ v \in Seq(Seq(Octet)) /\ Len(v) = 1 + Len(t)
        /\ \A i \in 1..(1 + Len(t)) : v[i] = IF i <= 1 THEN u[i] ELSE t[i - 1]
    <3>1. u \in Seq(Seq(Octet)) /\ t \in Seq(Seq(Octet))
      BY <2>3, <2>4
    <3>2. /\ v \in Seq(Seq(Octet)) /\ Len(v) = Len(u) + Len(t)
          /\ \A i \in 1..(Len(u) + Len(t)) : v[i] = IF i <= Len(u) THEN u[i] ELSE t[i - Len(u)]
      BY <3>1, ConcatProperties, Zenon
    <3> QED BY <2>4, <3>2, Zenon
  <2> HIDE DEF v
  <2>6. ASSUME NEW i \in 1..(Len(w) - k) PROVE s[i] = v[i]
    <3>1. CASE i = 1
      BY <2>3, <2>4, <2>5, <3>1 DEF x
    <3>2. CASE i # 1
      <4>1. i - 1 \in 1..(Len(w) - (k + 1)) /\ ~(i <= 1) /\ (k + 1) + (i - 1) = k + i
        BY <2>1, <3>2
      <4>2. i \in 1..(1 + Len(t))
        BY <2>1, <2>3
      <4> QED BY <2>3, <2>5, <4>1, <4>2
    <3> QED BY <3>1, <3>2
  <2>7. s = v
    <3>1. Len(s) = Len(v) /\ \A i \in 1..Len(s) : s[i] = v[i]
      BY <2>1, <2>3, <2>5, <2>6
    <3> QED BY <2>3, <2>5, <3>1, SeqEqual, Zenon
  <2>8. Flat(v) = Flat(u) \o Flat(t) /\ Flat(u) = x
    BY <2>2, <2>3, <2>4, FlatConcat, FlatOne, Zenon DEF v, u
  <2> QED BY <2>7, <2>8 DEF Ahead, s, t, x
<1>PacketOpening. ASSUME NEW secret, NEW h, Sound(h), NEW body \in Seq(Octet), h.length = Len(body)
                  PROVE  LET P == PacketOctets(secret, h, body)
                         IN  P \in Seq(Octet) /\ Len(P) >= 12 /\ Opening(P)
  <2> USE <1>PacketOpening
  <2> DEFINE P == PacketOctets(secret, h, body)
             d == HeaderMarshal(h)
  <2>1. PacketIs(P, d, Crypt(secret, h, body), Len(body))
    BY PacketLaid, Zenon
  <2>2. /\ d \in Seq(Octet) /\ Len(d) = MaxHeaderLength
        /\ d[1] = h.major * 16 + h.minor /\ d[2] = h.type /\ ReadUint32(d, 8) = h.length
    BY Marshalled, SMT
  <2> HIDE DEF P, d
  <2>3. Len(body) \in Nat
    OBVIOUS
  <2>4. P \in Seq(Octet) /\ Len(P) >= 12 /\ \A i \in 1..12 : P[i] = d[i]
    BY <2>1, <2>3, SMT DEF PacketIs, MaxHeaderLength
  <2>5. h.major = 12 /\ h.minor \in {0, 1} /\ h.type \in 1..3 /\ h.length <= 65536
    BY SMT DEF Sound, HeaderValid, MaxBodyLength
  <2>6. d[1] > 100 /\ d[2] < 4
    BY <2>2, <2>5, SMT
  <2>7. d[9] = 0
    <3>1. \A i \in 1..12 : d[i] \in Octet
      <4>1. d \in Seq(Octet) /\ Len(d) = 12
        BY <2>2 DEF MaxHeaderLength
      <4> QED BY <4>1, <1>ElementOfSeq, Zenon
    <3>2. d[9] \in Octet /\ d[10] \in Octet /\ d[11] \in Octet /\ d[12] \in Octet
      BY <3>1
    <3>3. 16777216 * d[9] + 65536 * d[10] + 256 * d[11] + d[12] <= 65536
      BY <2>2, <2>5, SMT DEF ReadUint32
    <3> DEFINE a == d[9]
               b == d[10]
               c == d[11]
               e == d[12]
    <3>4. /\ a \in Int /\ 0 <= a /\ b \in Int /\ 0 <= b /\ c \in Int /\ 0 <= c /\ e \in Int /\ 0 <= e
          /\ 16777216 * a + 65536 * b + 256 * c + e <= 65536
      BY <3>2, <3>3, OctetRange, SMT
    <3> HIDE DEF a, b, c, e
    <3>5. a = 0
      BY <3>4, SMT
    <3> QED BY <3>5 DEF a
  <2> HIDE DEF P, d
  <2>8. P[1] > 100 /\ P[2] < 4 /\ P[9] = 0
    BY <2>4, <2>6, <2>7, SMTT(20)
  <2> QED BY <2>4, <2>8 DEF P, Opening
<1> SUFFICES ASSUME Typed, OwnTraffic, InPlace, Len(got) \in 0..(Len(written) - 1)
             PROVE LET k == Len(got) + 1
                       L == LineOf(ends, k)
                       P == PacketOf(ends, written[k])
                       R == Ahead(ends, written, k)
                   IN  /\ IsLine(L) /\ P \in Seq(Octet) /\ Len(P) >= 12 /\ Opening(P) /\ R \in Seq(Octet)
                       /\ Before(L, P, R) /\ (~broken => stream = (L \o P) \o R)
                       /\ Sound(written[k].h) /\ written[k].body \in Seq(Octet)
                       /\ written[k].h.length = Len(written[k].body)
  OBVIOUS
<1> DEFINE k == Len(got) + 1
           L == LineOf(ends, k)
           P == PacketOf(ends, written[k])
           R == Ahead(ends, written, k)
           A == Ahead(ends, written, Len(got))
<1>1. Len(got) \in Nat /\ Len(written) \in Nat
  BY DEF Typed
<1>2. k \in 1..Len(written) /\ k \in 0..Len(written)
  BY <1>1
<1>3. Traffic(ends, written)
  BY OwnIsTraffic
<1>4. IsLine(L) /\ L \in Seq(Octet) /\ P \in Seq(Octet)
  BY <1>2, <1>3, FrameType
<1>5. R \in Seq(Octet)
  BY <1>2, <1>3, FramesType
<1>6. A = (L \o P) \o R
  BY <1>3, <1>AheadNext, Zenon DEF Frame
<1>7. /\ Sound(written[k].h) /\ written[k].body \in Seq(Octet)
      /\ written[k].h.length = Len(written[k].body)
  BY <1>2, <1>3, Zenon DEF Traffic, Sent
<1>8. Len(P) >= 12 /\ Opening(P)
  BY <1>7, <1>PacketOpening DEF PacketOf
<1> HIDE DEF k, L, P, R, A
<1>9. Laid(A, L, P, R)
  BY <1>4, <1>5, <1>6, LaidOut, Zenon
<1>10. Begins(stream, A) /\ (~broken => stream = A)
  BY DEF InPlace, A
<1>11. Before(L, P, R)
  BY <1>9, <1>10 DEF Before
<1>12. ~broken => stream = (L \o P) \o R
  BY <1>6, <1>10
<1> QED BY <1>4, <1>5, <1>7, <1>8, <1>11, <1>12 DEF k, L, P, R

\* What follows the line is what read takes for the header of a packet; it is
\* valid, or comes after a line that the reader expects.
Heading(f) == f \in Following /\ Headed(f) /\ (HeaderValid(HeaderUnmarshal(f)) \/ Expected)

LEMMA SomethingAhead ==
    ASSUME Typed, NEW f, f \in Following, Headed(f)
    PROVE  stream # <<>>
<1>1. stream \in Seq(Octet) /\ ends.proxy \in BOOLEAN
  BY DEF Typed
<1>2. LineAccepted /\ f = SubSeq(stream, LineLength + 1, Len(stream))
  BY DEF Following
<1>3. LineLength \in 0..Len(stream)
  BY <1>1, <1>2, LineFound DEF LineAccepted
<1>4. Len(f) = Len(stream) - LineLength
  BY <1>1, <1>2, <1>3
<1>5. Len(stream) # 0
  BY <1>1, <1>3, <1>4 DEF Headed, MaxHeaderLength
<1> QED BY <1>5, EmptySeq

LEMMA TakesNext ==
    \A f :
        Typed /\ OwnTraffic /\ InPlace /\ Len(got) \in 0..(Len(written) - 1) /\ Heading(f) =>
            Taken(f, written[Len(got) + 1], Ahead(ends, written, Len(got) + 1))
<1>SubSeqFull. ASSUME NEW T, NEW s \in Seq(T)
               PROVE  SubSeq(s, 1, Len(s)) = s
  BY <1>SubSeqFull
<1>FollowsLine. ASSUME Typed, NEW L, NEW P, NEW R, IsLine(L), P \in Seq(Octet), R \in Seq(Octet),
                       Before(L, P, R), Len(L) <= Len(stream),
                       NEW f, f = SubSeq(stream, Len(L) + 1, Len(stream))
                PROVE  Follows(f, Len(stream) - Len(L), P, R)
  <2> USE <1>FollowsLine
  <2> DEFINE n == Len(L)
             m == Len(stream)
             b == Len(P)
             c == Len(R)
  <2>1. n \in 0..m /\ m \in 0..m /\ n <= m /\ n \in Nat /\ m \in Nat /\ b \in Nat /\ c \in Nat
    BY DEF IsLine, Typed
  <2>2. f \in Seq(Octet) /\ Len(f) = m - n /\ \A i \in 1..(m - n) : f[i] = stream[n + i]
    <3>1. stream \in Seq(Octet)
      BY DEF Typed
    <3> QED BY <2>1, <3>1, SubSeqParts
  <2>3. PICK A : Laid(A, L, P, R) /\ Begins(stream, A)
    BY DEF Before
  <2>4. /\ Len(A) = (n + b) + c
        /\ \A i \in 1..b : A[n + i] = P[i]
        /\ \A i \in 1..c : A[(n + b) + i] = R[i]
        /\ m <= Len(A) /\ \A i \in 1..m : A[i] = stream[i]
    BY <2>3 DEF Laid, Begins
  <2> HIDE DEF n, m, b, c
  <2>5. ASSUME NEW i \in 1..Len(f) PROVE f[i] = A[n + i] /\ n + i <= (n + b) + c
    <3>1. i \in 1..(m - n) /\ n + i \in 1..m
      BY <2>1, <2>2
    <3>2. f[i] = A[n + i]
      BY <2>2, <2>4, <3>1, Zenon
    <3> QED BY <2>1, <2>4, <3>1, <3>2
  <2>6. ASSUME NEW i \in 1..Len(f), i <= b PROVE f[i] = P[i]
    <3>1. i \in 1..b
      BY <2>1, <2>2, <2>6
    <3> QED BY <2>4, <2>5, <3>1
  <2>7. ASSUME NEW i \in 1..Len(f), i > b PROVE i - b \in 1..c /\ f[i] = R[i - b]
    <3>1. i - b \in 1..c /\ (n + b) + (i - b) = n + i
      BY <2>1, <2>2, <2>5, <2>7
    <3> QED BY <2>4, <2>5, <3>1
  <2>8. Along(f, P)
    BY <2>6 DEF Along, b
  <2> QED BY <2>2, <2>7, <2>8 DEF Follows, n, m, b, c
\* A packet is not taken for a line: it has a zero in its ninth octet at the latest,
\* and no line of so few octets has five spaces beside its signature.
<1>NoLineInPacket. ASSUME NEW line \in Seq(Octet), NEW P, Opening(P), Along(line, P), Len(P) >= 12,
                          Len(line) \in 1..9, line[Len(line)] = 0
                   PROVE  ~ProxyLine(line)
  <2> USE <1>NoLineInPacket
  <2> DEFINE q == Len(line)
             ended == Len(line) >= 3 /\ SubSeq(line, Len(line) - 2, Len(line)) = LineEnd
             text == IF ended THEN SubSeq(line, 1, Len(line) - 3) ELSE line
             spaces == {i \in 1..Len(text) : text[i] = 32}
  <2> SUFFICES ASSUME ProxyLine(line) PROVE FALSE
    OBVIOUS
  <2>1. /\ \E i \in 1..(q - 4) : SubSeq(line, i, i + 4) = Signature
        /\ Len(Keep(text, spaces)) = 5
    BY Zenon DEF ProxyLine
  <2>2. q \in 1..9 /\ line[q] = 0
    OBVIOUS
  <2>3. \A i \in 1..q : line[i] = P[i]
    BY <2>2 DEF Along
  <2>4. PICK i \in 1..(q - 4) : SubSeq(line, i, i + 4) = Signature
    BY <2>1
  <2>5. line[i] = 80 /\ line[i + 1] = 82 /\ line[i + 2] = 79 /\ line[i + 3] = 88 /\ line[i + 4] = 89
    <3> DEFINE u == SubSeq(line, i, i + 4)
    <3>1. u[1] = line[i] /\ u[2] = line[i + 1] /\ u[3] = line[i + 2]
            /\ u[4] = line[i + 3] /\ u[5] = line[i + 4]
      BY <2>2
    <3>2. u = <<80, 82, 79, 88, 89>>
      BY <2>4 DEF Signature
    <3> HIDE DEF u
    <3> QED BY <3>1, <3>2, Zenon
  <2>6. line[1] > 100 /\ (q >= 2 => line[2] < 4)
    BY <2>2, <2>3 DEF Opening
  <2>7. i \in {3, 4} /\ i + 4 < q
    <3>1. i # 1 /\ i # 2 /\ i + 4 # q
      BY <2>2, <2>5, <2>6
    <3> QED BY <2>2, <3>1
  <2>8. \A j \in 1..Len(text) : j \in 1..q /\ text[j] = line[j]
    BY <2>2
  <2>9. spaces \subseteq {3, 8}
    <3> HIDE DEF text
    <3> SUFFICES ASSUME NEW j \in 1..q, line[j] = 32 PROVE j \in {3, 8}
      BY <2>8
    <3>1. j # 1 /\ j # 2 /\ j # q /\ j # i /\ j # i + 1 /\ j # i + 2 /\ j # i + 3 /\ j # i + 4
      <4>1. q >= 2 /\ line[1] # 32 /\ line[2] # 32
        BY <2>2, <2>6, <2>7
      <4>2. line[q] # 32 /\ line[i] # 32
        BY <2>2, <2>5
      <4>3. line[i + 1] # 32 /\ line[i + 2] # 32 /\ line[i + 3] # 32 /\ line[i + 4] # 32
        BY <2>5
      <4> QED BY <4>1, <4>2, <4>3, Zenon
    <3> QED BY <2>2, <2>7, <3>1
  <2>10. text \in Seq(Octet)
    BY <2>2
  <2> HIDE DEF text, spaces
  <2>11. PICK f : Picks(f, Keep(text, spaces), text, spaces, Len(text))
    BY <2>10, KeepPicks, SMTT(20)
  <2>12. f[1] < f[2] /\ f[2] < f[3] /\ f[1] \in spaces /\ f[2] \in spaces /\ f[3] \in spaces
    BY <2>1, <2>11 DEF Picks
  <2>13. f[1] \in {3, 8} /\ f[2] \in {3, 8} /\ f[3] \in {3, 8}
    BY <2>9, <2>12, Zenon
  <2> QED BY <2>12, <2>13
\* "P" is no version.
<1>NoLineIsHeader. ASSUME NEW f, f[1] = 80
                   PROVE  ~HeaderValid(HeaderUnmarshal(f))
  <2> USE <1>NoLineIsHeader
  <2> DEFINE a == f[1] \div 16
             b == f[1] % 16
             c == ReadUint32(f, 4)
             d == ReadUint32(f, 8)
             h == [major |-> a, minor |-> b, type |-> f[2], seq |-> f[3], flags |-> f[4],
                   sid |-> c, length |-> d]
  <2>1. a = 5
    BY SMT
  <2>2. HeaderUnmarshal(f) = FirstReply(h)
    BY Zenon DEF HeaderUnmarshal
  <2> HIDE DEF a, b, c, d
  <2>3. h.major = a /\ [h EXCEPT !.flags = @ + 4].major = a
    BY SMT
  <2> HIDE DEF h
  <2>4. FirstReply(h).major = a
    BY <2>3, Zenon DEF FirstReply
  <2> QED BY <2>1, <2>2, <2>4, SMT DEF HeaderValid
\* A line that the reader does not expect, or one that is left out.
<1>LineAmiss. ASSUME Typed, NEW L, NEW P, NEW R, IsLine(L), P \in Seq(Octet), Len(P) >= 12, Opening(P),
                     Before(L, P, R), LineAccepted, ~(ends.proxy <=> L # <<>>),
                     NEW f, f = SubSeq(stream, LineLength + 1, Len(stream)), Headed(f)
              PROVE  ~HeaderValid(HeaderUnmarshal(f))
  <2> USE <1>LineAmiss
  <2> DEFINE q == LineLength
             m == Len(stream)
  <2>1. stream \in Seq(Octet) /\ m \in Nat /\ ends.proxy \in BOOLEAN
    BY DEF Typed
  <2>2. HasLine /\ (ends.proxy => ProxyLine(SubSeq(stream, 1, q)))
    BY DEF LineAccepted
  <2>3. /\ q \in 0..m /\ (~ends.proxy => q = 0)
        /\ ends.proxy => /\ q \in 1..m /\ stream[q] = 0
                         /\ \A i \in 1..(q - 1) : stream[i] # 0
    BY <2>1, <2>2, LineFound
  <2>4. PICK A : Laid(A, L, P, R) /\ Begins(stream, A)
    BY DEF Before
  <2>5. /\ \A i \in 1..Len(L) : A[i] = L[i]
        /\ \A i \in 1..Len(P) : A[Len(L) + i] = P[i]
        /\ \A i \in 1..m : A[i] = stream[i]
    BY <2>4 DEF Laid, Begins
  <2> HIDE DEF q, m
  <2>6. CASE ends.proxy /\ L = <<>>
    <3> DEFINE line == SubSeq(stream, 1, q)
    <3>1. \A i \in 1..m : i <= Len(P) => stream[i] = P[i]
      <4>1. \A i \in 1..Len(P) : A[i] = P[i]
        <5>1. Len(L) = 0 /\ \A i \in 1..Len(P) : 0 + i = i
          BY <2>6
        <5> QED BY <2>5, <5>1
      <4>2. Len(P) \in Nat
        OBVIOUS
      <4> QED BY <2>1, <2>5, <4>1, <4>2
    <3>2. line \in Seq(Octet) /\ Len(line) = q /\ \A i \in 1..q : line[i] = stream[i]
      BY <2>1, <2>3, <2>6 DEF m
    <3>3. q \in 1..9
      <4>1. ASSUME 9 < q PROVE FALSE
        <5>1. 9 \in 1..(q - 1) /\ 9 \in 1..m /\ 9 <= Len(P)
          BY <2>1, <2>3, <2>6, <4>1
        <5>2. stream[9] = 0 /\ stream[9] # 0
          BY <2>3, <2>6, <3>1, <5>1 DEF Opening
        <5> QED BY <5>2
      <4> QED BY <2>1, <2>3, <2>6, <4>1
    <3> HIDE DEF line
    <3>4. Along(line, P)
      <4>1. \A i \in 1..q : i \in 1..m
        BY <2>1, <2>3, <2>6
      <4> QED BY <3>1, <3>2, <4>1 DEF Along
    <3>5. Len(line) \in 1..9 /\ line[Len(line)] = 0
      BY <2>3, <2>6, <3>2, <3>3
    <3>6. ~ProxyLine(line)
      BY <3>2, <3>4, <3>5, <1>NoLineInPacket, Zenon
    <3> QED BY <2>2, <2>6, <3>6 DEF line
  <2>7. CASE ~ends.proxy /\ L # <<>>
    <3>1. L[1] = 80 /\ 1 \in 1..Len(L)
      BY <2>7, EmptySeq DEF IsLine
    <3>2. f = SubSeq(stream, 1, m)
      BY <2>3, <2>7 DEF q, m
    <3>3. f \in Seq(Octet) /\ Len(f) = m /\ \A i \in 1..m : f[i] = stream[i]
      <4>1. f = stream
        BY <2>1, <3>2, <1>SubSeqFull, Zenon DEF m
      <4> QED BY <2>1, <4>1, Zenon DEF m
    <3>4. m >= 12
      BY <3>3 DEF Headed, MaxHeaderLength
    <3>5. f[1] = 80
      <4>1. 1 \in 1..m
        BY <2>1, <3>4
      <4>2. f[1] = stream[1]
        BY <3>3, <4>1, Zenon
      <4>3. stream[1] = L[1]
        BY <2>5, <3>1, <4>1
      <4> QED BY <3>1, <4>2, <4>3, Zenon
    <3> QED BY <3>5, <1>NoLineIsHeader, Zenon
  <2> QED BY <2>1, <2>6, <2>7
<1>PlaceOfNext. ASSUME Typed, OwnTraffic, InPlace, Len(got) \in 0..(Len(written) - 1),
                       NEW f, Heading(f)
                PROVE  LET L == LineOf(ends, Len(got) + 1)
                       IN  Len(L) <= Len(stream) /\ f = SubSeq(stream, Len(L) + 1, Len(stream))
  <2> USE <1>PlaceOfNext
  <2> DEFINE k == Len(got) + 1
             L == LineOf(ends, k)
             P == PacketOf(ends, written[k])
             R == Ahead(ends, written, k)
  <2>1. /\ IsLine(L) /\ P \in Seq(Octet) /\ Len(P) >= 12 /\ Opening(P) /\ R \in Seq(Octet)
        /\ Before(L, P, R)
    BY NextBefore, Zenon
  <2>2. LineAccepted /\ f = SubSeq(stream, LineLength + 1, Len(stream)) /\ Headed(f)
    BY Zenon DEF Heading, Following
  <2>3. (HeaderValid(HeaderUnmarshal(f)) \/ Expected) /\ (Expected <=> (ends.proxy <=> L # <<>>))
    BY Zenon DEF Heading, Expected
  <2> HIDE DEF k, L, P, R
  <2>4. ends.proxy <=> L # <<>>
    BY <2>1, <2>2, <2>3, <1>LineAmiss, Zenon
  <2>5. HasLine
    BY <2>2, Zenon DEF LineAccepted
  <2>6. LineLength = Len(L)
    BY <2>1, <2>4, <2>5, LineSkipped, Zenon
  <2>7. LineLength \in 0..Len(stream)
    BY <2>5, LineFound DEF Typed
  <2>8. Len(L) <= Len(stream)
    BY <2>6, <2>7 DEF Typed
  <2> QED BY <2>2, <2>6, <2>8, Zenon DEF L, k
<1> SUFFICES ASSUME Typed, OwnTraffic, InPlace, Len(got) \in 0..(Len(written) - 1),
           NEW f, Heading(f)
             PROVE Taken(f, written[Len(got) + 1], Ahead(ends, written, Len(got) + 1))
  OBVIOUS
<1> DEFINE k == Len(got) + 1
           w == written[k]
           L == LineOf(ends, k)
           P == PacketOf(ends, w)
           R == Ahead(ends, written, k)
           n == Len(L)
           m == Len(stream)
           a == Len(P)
           rest == SubSeq(f, MaxHeaderLength + BodyLength(f) + 1, Len(f))
<1>1. /\ IsLine(L) /\ P \in Seq(Octet) /\ R \in Seq(Octet) /\ Before(L, P, R)
      /\ (~broken => stream = (L \o P) \o R)
      /\ Sound(w.h) /\ w.body \in Seq(Octet) /\ w.h.length = Len(w.body)
  BY NextBefore, Zenon
<1>2. n <= m /\ f = SubSeq(stream, n + 1, m) /\ Headed(f)
  BY <1>PlaceOfNext, Zenon DEF Heading
<1> HIDE DEF k, w, L, R
<1>3. /\ f \in Seq(Octet) /\ Len(f) = m - n /\ Along(f, P)
      /\ \A i \in 1..Len(f) : i > a => i - a \in 1..Len(R) /\ f[i] = R[i - a]
  <2>1. Follows(f, Len(stream) - Len(L), P, R)
    <3> HIDE DEF P
    <3> QED BY <1>1, <1>2, <1>FollowsLine, Zenon
  <2> HIDE DEF P
  <2> QED BY <2>1, Zenon DEF Follows
<1>4. /\ HeaderUnmarshal(f) = FirstReply(w.h) /\ BodyLength(f) = Len(w.body) /\ ~TooLong(f)
      /\ Whole(f) => Crypt(ends.writer, FirstReply(w.h),
                           SubSeq(f, MaxHeaderLength + 1, MaxHeaderLength + BodyLength(f))) = w.body
  <2>1. Along(f, PacketOctets(ends.writer, w.h, w.body))
    BY <1>3, Zenon DEF PacketOf
  <2>2. /\ Sound(w.h) /\ w.body \in Seq(Octet) /\ w.h.length = Len(w.body)
        /\ f \in Seq(Octet) /\ Headed(f)
    BY <1>1, <1>2, <1>3, Zenon
  <2> QED BY <2>1, <2>2, PacketBack
<1>5. a = MaxHeaderLength + BodyLength(f) /\ a \in Nat /\ n \in Nat /\ m \in Nat
  <2>1. PacketIs(P, HeaderMarshal(w.h), Crypt(ends.writer, w.h, w.body), Len(w.body))
    BY <1>1, PacketLaid, Zenon DEF PacketOf
  <2>2. a = MaxHeaderLength + BodyLength(f)
    BY <1>4, <2>1, Zenon DEF PacketIs
  <2> QED BY <1>1, <2>2 DEF Typed, IsLine
<1> HIDE DEF P
<1>6. ASSUME Whole(f) PROVE Begins(rest, R) /\ (~broken => rest = R)
  <2>1. a <= Len(f) /\ Len(f) \in Nat
    BY <1>3, <1>5, <1>6 DEF Whole
  <2> DEFINE c == Len(f)
             u == SubSeq(f, a + 1, c)
  <2>2. u \in Seq(Octet) /\ Len(u) = c - a /\ \A i \in 1..(c - a) : u[i] = f[a + i]
    <3>1. a \in 0..Len(f) /\ c \in 0..Len(f) /\ a <= c
      BY <1>5, <2>1
    <3> QED BY <1>3, <3>1, SubSeqParts
  <2>3. rest = u
    BY <1>5
  <2> HIDE DEF a, c, u, rest
  <2>4. ASSUME NEW i \in 1..(c - a) PROVE i \in 1..Len(R) /\ u[i] = R[i]
    <3>1. a + i \in 1..c /\ a + i > a /\ (a + i) - a = i
      BY <1>5, <2>1 DEF c
    <3> QED BY <1>3, <2>2, <3>1, SMTT(20) DEF c
  <2>5. Begins(u, R)
    <3>1. c - a <= Len(R)
      <4>1. CASE c - a = 0
        BY <1>1, <4>1
      <4>2. CASE c - a # 0
        <5>1. c - a \in 1..(c - a)
          BY <1>5, <2>1, <4>2 DEF c
        <5>2. c - a \in 1..Len(R)
          BY <2>4, <5>1
        <5> QED BY <1>1, <5>2
      <4> QED BY <4>1, <4>2
    <3> QED BY <2>2, <2>4, <3>1 DEF Begins
  <2>6. ASSUME ~broken PROVE u = R
    <3>1. Len(stream) = (n + a) + Len(R)
      BY <1>1, <2>6 DEF n, a, IsLine
    <3>2. c - a = Len(R)
      <4>1. c = m - n /\ Len(R) \in Nat /\ m = (n + a) + Len(R)
        BY <1>1, <1>3, <3>1 DEF c
      <4>2. a \in Nat /\ n \in Nat
        BY <1>5
      <4> HIDE DEF m, n
      <4> QED BY <4>1, <4>2
    <3>3. Len(u) = Len(R) /\ \A i \in 1..Len(u) : u[i] = R[i]
      BY <2>2, <2>4, <3>2
    <3> QED BY <1>1, <2>2, <3>3, SeqEqual
  <2> QED BY <2>3, <2>5, <2>6
<1> QED BY <1>4, <1>6, Zenon DEF Taken, k, w, R

(***************************************************************************)
(* read stays in step with write                                           *)
(***************************************************************************)

\* A packet that read takes whole from the stream is the next one that was written.
Part(p, f) ==
    /\ p.h = HeaderUnmarshal(f)
    /\ p.rest = SubSeq(f, MaxHeaderLength + BodyLength(f) + 1, Len(f))
    /\ p.body = Crypt(ends.reader, HeaderUnmarshal(f),
                      SubSeq(f, MaxHeaderLength + 1, MaxHeaderLength + BodyLength(f)))

NextOne(p, k) ==
    /\ k \in 1..Len(written) /\ IsReadOf(ends, p, written[k])
    /\ Begins(p.rest, Ahead(ends, written, k)) /\ (~broken => p.rest = Ahead(ends, written, k))

LEMMA ReceivesNext ==
    ASSUME Typed, OwnTraffic, FirstOf(ends, got, written), InPlace,
           NEW p \in Received, HeaderValid(p.h) \/ Expected
    PROVE  NextOne(p, Len(got) + 1)
<1> DEFINE k == Len(got) + 1
           w == written[k]
<1>1. PICK f \in Following : Headed(f) /\ ~TooLong(f) /\ Whole(f) /\ Part(p, f)
  BY DEF Received, Part
<1>2. Heading(f)
  BY <1>1, Zenon DEF Heading, Part
<1>3. stream # <<>>
  BY <1>1, SomethingAhead, Zenon
<1>4. Len(got) <= Len(written)
  BY DEF FirstOf
<1>5. Len(got) \in 0..(Len(written) - 1)
  BY <1>3, <1>4, NoneLeft, Zenon
<1>6. Taken(f, w, Ahead(ends, written, k))
  BY <1>2, <1>5, TakesNext, Zenon
<1>7. k \in 1..Len(written)
  BY <1>5 DEF Typed
<1> HIDE DEF k
<1> QED BY <1>1, <1>6, <1>7, Zenon DEF Taken, Part, NextOne, IsReadOf, k

LEMMA AlwaysInStep == Spec => []InStep
\* One more packet comes last.
<1>AheadMore. ASSUME NEW e, NEW w, NEW v, NEW x, Longer(v, w, x), Traffic(e, v), Traffic(e, w),
                     NEW k \in 0..Len(w)
              PROVE  Ahead(e, v, k) = Ahead(e, w, k) \o Frame(e, v, Len(w) + 1)
  <2> USE <1>AheadMore
  <2> DEFINE s == Frames(e, w, k)
             t == Frames(e, v, k)
             f == Frame(e, v, Len(w) + 1)
             u == Append(s, f)
  <2>1. /\ Len(w) \in Nat /\ Len(v) = Len(w) + 1 /\ k \in 0..Len(v) /\ Len(w) + 1 \in 1..Len(v)
        /\ \A i \in 1..Len(w) : v[i] = w[i]
    BY DEF Longer
  <2>2. /\ s \in Seq(Seq(Octet)) /\ Len(s) = Len(w) - k
        /\ \A i \in 1..(Len(w) - k) : s[i] = Frame(e, w, k + i)
        /\ t \in Seq(Seq(Octet)) /\ Len(t) = Len(v) - k
        /\ \A i \in 1..(Len(v) - k) : t[i] = Frame(e, v, k + i)
    BY <2>1, FramesType, SMTT(20)
  <2>f. f \in Seq(Octet)
    BY <2>1, FrameType
  <2> HIDE DEF s, t, f
  <2>3. /\ u \in Seq(Seq(Octet)) /\ Len(u) = Len(s) + 1 /\ u[Len(s) + 1] = f
        /\ \A i \in 1..Len(s) : u[i] = s[i]
    BY <2>2, <2>f, AppendProperties
  <2> HIDE DEF u
  <2>4. ASSUME NEW i \in 1..Len(t) PROVE t[i] = u[i]
    <3>1. CASE i \in 1..Len(s)
      <4>1. i \in 1..(Len(w) - k) /\ i \in 1..(Len(v) - k) /\ k + i \in 1..Len(w)
        BY <2>1, <2>2, <3>1
      <4>2. Frame(e, v, k + i) = Frame(e, w, k + i)
        BY <2>1, <4>1, Zenon DEF Frame
      <4> QED BY <2>2, <2>3, <3>1, <4>1, <4>2, Zenon
    <3>2. CASE i \notin 1..Len(s)
      <4>0. Len(s) = Len(w) - k /\ Len(t) = Len(v) - k
        BY <2>2
      <4>1. i = Len(s) + 1 /\ k + i = Len(w) + 1 /\ i \in 1..(Len(v) - k)
        BY <2>1, <4>0, <3>2
      <4> QED BY <2>2, <2>3, <4>1 DEF f
    <3> QED BY <3>1, <3>2
  <2>5. t = u
    <3>1. Len(t) = Len(u)
      BY <2>1, <2>2, <2>3
    <3> QED BY <2>2, <2>3, <2>4, <3>1, SeqEqual, Zenon
  <2>6. Flat(u) = Flat(s) \o f
    BY <2>2, <2>f, FlatAppend DEF u
  <2> QED BY <2>5, <2>6 DEF Ahead, s, t, f
<1>BeginsSelf. ASSUME NEW s, Len(s) \in Nat
               PROVE  Begins(s, s)
  BY <1>BeginsSelf DEF Begins
<1>InitInStep. Init => InStep
  <2> SUFFICES ASSUME Init, OwnTraffic
               PROVE  FirstOf(ends, got, written) /\ InPlace
    BY Zenon DEF InStep
  <2>1. stream = <<>> /\ got = <<>> /\ written = <<>>
    BY DEF Init
  <2>2. Traffic(ends, written)
    BY InitTyped, OwnIsTraffic
  <2>3. Ahead(ends, written, Len(written)) = <<>>
    BY <2>2, AheadOfNone
  <2>4. Begins(<<>>, <<>>)
    BY <1>BeginsSelf
  <2>5. InPlace
    BY <2>1, <2>3, <2>4, Zenon DEF InPlace
  <2>6. FirstOf(ends, got, written)
    BY <2>1 DEF FirstOf
  <2> QED BY <2>5, <2>6
<1>WriteInStep. ASSUME Typed, Typed', InStep, Write
                PROVE  InStep'
  <2> USE <1>WriteInStep
  <2> SUFFICES ASSUME OwnTraffic'
               PROVE  FirstOf(ends, got, written)' /\ (reader' = "open" => InPlace')
    BY Zenon DEF InStep
  <2> DEFINE x == script[1]
             P == PacketOctets(ends.writer, x.h, BodyOf(x))
             k == Len(got)
             A == Ahead(ends, written, k)
             F == Frame(ends, written', Len(written) + 1)
  <2>1. IsEntry(x) /\ x.t # "foreign"
    BY NextEntry, Zenon DEF Write
  <2>2. UNCHANGED <<ends, broken, reader, got, answer>> /\ ~broken
    BY DEF Write
  <2>4. CASE Encodes(x)
    <3>1. stream' = (stream \o LineBefore) \o P /\ written' = Append(written, Packet(x))
      BY <2>4, Zenon DEF Write
    <3>2. /\ Sent(Packet(x)) /\ Packet(x).t # "foreign"
          /\ P = PacketOctets(ends.writer, Packet(x).h, Packet(x).body)
      BY <2>1, <2>4, EntryPacket
    <3>3. Longer(written', written, Packet(x))
      <4>1. written \in Seq(Range(written))
        BY DEF Typed
      <4> QED BY <3>1, <4>1, AppendSelf, Zenon
    <3> HIDE DEF x, P, F
    <3>4. /\ Len(written) \in Nat /\ Len(written') = Len(written) + 1
          /\ \A i \in 1..Len(written) : i \in 1..Len(written') /\ written'[i] = written[i]
          /\ Len(written) + 1 \in 1..Len(written') /\ written'[Len(written) + 1] = Packet(x)
      BY <3>3 DEF Longer
    <3>5. OwnTraffic
      BY <3>4, Zenon DEF OwnTraffic
    <3>6. FirstOf(ends, got, written) /\ (reader = "open" => InPlace)
      BY <3>5, Zenon DEF InStep
    <3>7. k \in Nat /\ k \in 0..Len(written)
      BY <3>4, <3>6 DEF FirstOf, Typed
    <3>8. FirstOf(ends, got, written')
      <4>1. \A i \in 1..k : i \in 1..Len(written)
        BY <3>4, <3>7
      <4>2. k <= Len(written')
        BY <3>4, <3>7
      <4> QED BY <3>4, <3>6, <4>1, <4>2, Zenon DEF FirstOf
    <3>9. Traffic(ends, written) /\ Traffic(ends, written')
      <4>1. Traffic(ends, written)
        BY <3>5, OwnIsTraffic
      <4>2. Traffic(ends', written')
        BY Zenon DEF Typed, OwnTraffic, Traffic
      <4> QED BY <2>2, <4>1, <4>2
    <3>10. F = LineBefore \o P
      <4>1. LineBefore = LineOf(ends, Len(written) + 1)
        <5>1. written = <<>> <=> Len(written) + 1 = 1
          BY <3>4, EmptySeq DEF Typed
        <5> QED BY <5>1, Zenon DEF LineBefore, LineOf
      <4> QED BY <3>2, <3>4, <4>1, Zenon DEF F, Frame, PacketOf
    <3>11. Ahead(ends, written', k) = A \o F
      BY <3>3, <3>7, <3>9, <1>AheadMore DEF F
    <3>12. ASSUME reader = "open" PROVE InPlace'
      <4>1. stream = A
        BY <2>2, <3>6, <3>12 DEF InPlace
      <4>2. stream \in Seq(Octet) /\ LineBefore \in Seq(Octet) /\ stream' \in Seq(Octet)
        BY LineIsText DEF Typed
      <4>3. P \in Seq(Octet)
        <5>1. PacketOf(ends, Packet(x)) \in Seq(Octet)
          BY <3>4, <3>9, FrameType
        <5> QED BY <3>2, <5>1 DEF PacketOf
      <4>4. stream' = stream \o (LineBefore \o P)
        BY <3>1, <4>2, <4>3, ConcatAssociative
      <4>5. stream' = Ahead(ends, written', k)
        BY <3>10, <3>11, <4>1, <4>4, Zenon
      <4>6. Begins(stream', stream')
        BY <4>2, <1>BeginsSelf
      <4> QED BY <2>2, <4>5, <4>6, Zenon DEF InPlace
    <3> QED BY <2>2, <3>8, <3>12
  <2>5. CASE ~Encodes(x)
    <3>1. UNCHANGED <<stream, written>>
      BY <2>5, Zenon DEF Write
    <3>2. OwnTraffic
      BY <3>1, Zenon DEF OwnTraffic
    <3> QED BY <2>2, <3>1, <3>2, Zenon DEF InStep, InPlace
  <2> QED BY <2>4, <2>5
\* The octets of another program are none of write's.
<1>WriteForeignInStep. ASSUME Typed, WriteForeign
                       PROVE  InStep'
  <2> USE <1>WriteForeignInStep
  <2> DEFINE p == [h |-> script[1].h, body |-> <<>>, t |-> "foreign", msg |-> <<>>]
  <2>1. written \in Seq(Range(written)) /\ written' = Append(written, p)
    BY DEF Typed, WriteForeign
  <2>2. p.t = "foreign"
    OBVIOUS
  <2> HIDE DEF p
  <2>3. Longer(written', written, p)
    BY <2>1, AppendSelf, Zenon
  <2>4. Len(written) + 1 \in 1..Len(written') /\ written'[Len(written) + 1] = p
    BY <2>3 DEF Longer
  <2>5. ~OwnTraffic'
    BY <2>2, <2>4, Zenon DEF OwnTraffic
  <2> QED BY <2>5 DEF InStep
<1>BreakInStep. ASSUME Typed, InStep, NEW n \in Breaks, Break(n)
                PROVE  InStep'
  <2> USE <1>BreakInStep
  <2> SUFFICES ASSUME OwnTraffic'
               PROVE  FirstOf(ends, got, written)' /\ (reader' = "open" => InPlace')
    BY Zenon DEF InStep
  <2>1. /\ UNCHANGED <<script, ends, reader, written, got, answer>> /\ broken' = TRUE
        /\ n \in Nat /\ n <= Len(stream) /\ stream' = SubSeq(stream, 1, n)
    BY WireAssumption DEF Break
  <2>2. OwnTraffic
    BY <2>1, Zenon DEF OwnTraffic
  <2>3. FirstOf(ends, got, written) /\ (reader = "open" => InPlace)
    BY <2>2, Zenon DEF InStep
  <2> DEFINE A == Ahead(ends, written, Len(got))
  <2>4. ASSUME Begins(stream, A) PROVE Begins(stream', A)
    <3> HIDE DEF A
    <3>1. stream \in Seq(Octet)
      BY DEF Typed
    <3>2. Len(stream') = n /\ \A i \in 1..n : i \in 1..Len(stream) /\ stream'[i] = stream[i]
      BY <2>1, <3>1
    <3>3. Len(stream) <= Len(A) /\ \A i \in 1..Len(stream) : A[i] = stream[i]
      BY <2>4 DEF Begins
    <3>4. n <= Len(A)
      BY <2>1, <3>1, <3>3
    <3> QED BY <3>2, <3>3, <3>4, Zenon DEF Begins
  <2> QED BY <2>1, <2>3, <2>4, Zenon DEF InPlace
<1>ReadPacketInStep. ASSUME Typed, InStep, ReadPacket
                     PROVE  InStep'
  <2> USE <1>ReadPacketInStep
  <2> SUFFICES ASSUME OwnTraffic'
               PROVE  FirstOf(ends, got, written)' /\ InPlace'
    BY Zenon DEF InStep
  <2>1. PICK p \in Received : /\ HeaderValid(p.h)
                              /\ got' = Append(got, [h |-> p.h, body |-> p.body])
                              /\ stream' = p.rest
    BY DEF ReadPacket
  <2>2. UNCHANGED <<script, ends, broken, reader, written, answer>> /\ reader = "open"
    BY DEF ReadPacket
  <2>3. OwnTraffic
    BY <2>2, Zenon DEF OwnTraffic
  <2>4. FirstOf(ends, got, written) /\ InPlace
    BY <2>2, <2>3, Zenon DEF InStep
  <2> DEFINE k == Len(got) + 1
             g == [h |-> p.h, body |-> p.body]
  <2>5. NextOne(p, k)
    BY <2>1, <2>3, <2>4, ReceivesNext, Zenon
  <2>6. IsReadOf(ends, g, written[k])
    <3>1. g.h = p.h /\ g.body = p.body
      OBVIOUS
    <3> QED BY <2>5, <3>1, Zenon DEF NextOne, IsReadOf
  <2> HIDE DEF g
  <2>7. Longer(got', got, g)
    <3>1. got \in Seq(Range(got)) /\ got' = Append(got, g)
      BY <2>1 DEF Typed, g
    <3> QED BY <3>1, AppendSelf, Zenon
  <2>8. Len(got') = k /\ k <= Len(written)
    BY <2>5, <2>7 DEF Longer, NextOne
  <2>9. FirstOf(ends, got', written)
    BY <2>4, <2>6, <2>7, <2>8, Zenon DEF FirstOf, Longer
  <2>10. InPlace'
    BY <2>1, <2>2, <2>5, <2>8, Zenon DEF InPlace, NextOne
  <2> QED BY <2>2, <2>9, <2>10
<1>NextInStep. Typed /\ Typed' /\ InStep /\ [Next]_vars => InStep'
  <2> SUFFICES ASSUME Typed, Typed', InStep, [Next]_vars PROVE InStep'
    OBVIOUS
  <2>1. CASE Write
    BY <2>1, <1>WriteInStep
  <2>2. CASE WriteForeign
    BY <2>2, <1>WriteForeignInStep
  <2>3. ASSUME NEW n \in Breaks, Break(n) PROVE InStep'
    BY <2>3, <1>BreakInStep
  <2>4. CASE ReadPacket
    BY <2>4, <1>ReadPacketInStep
  <2>5. CASE ReadBadSecret \/ ReadFails
    <3>1. reader' = "closed" /\ UNCHANGED <<ends, written, got>>
      BY <2>5 DEF ReadBadSecret, ReadFails
    <3> QED BY <3>1, Zenon DEF InStep, OwnTraffic
  <2>6. CASE UNCHANGED vars
    BY <2>6, Zenon DEF vars, InStep, InPlace, OwnTraffic
  <2> QED BY <2>1, <2>2, <2>3, <2>4, <2>5, <2>6 DEF Next
<1> QED BY AlwaysTyped, <1>InitInStep, <1>NextInStep, PTL DEF Spec

\* read returns the packets that write sent, in order, for any messages, any pad, any
\* line of a proxy and wherever the stream breaks: the headers whatever the secrets
\* are, and the bodies with one secret at both ends (crypter.read, crypter.write).
THEOREM ReadsInOrder == Spec => []ReadsWhatWasWritten
<1>1. InStep => ReadsWhatWasWritten
  BY Zenon DEF InStep, FirstOf, IsReadOf, SameSecret, ReadsWhatWasWritten
<1> QED BY <1>1, AlwaysInStep, PTL

(***************************************************************************)
(* The answer to a bad secret                                              *)
(***************************************************************************)
\* The packets written so far stay written, and the ends stay the same.
LEMMA WrittenStays ==
    ASSUME Typed, [Next]_vars
    PROVE  /\ ends' = ends
           /\ \A i \in 1..Len(written) : i \in 1..Len(written') /\ written'[i] = written[i]
<1>1. ASSUME NEW x, written' = Append(written, x)
      PROVE  \A i \in 1..Len(written) : i \in 1..Len(written') /\ written'[i] = written[i]
  <2>1. written \in Seq(Range(written))
    BY DEF Typed
  <2>2. Longer(written', written, x)
    BY <1>1, <2>1, AppendSelf, Zenon
  <2> QED BY <2>2 DEF Longer
<1>2. (\E x : written' = Append(written, x)) \/ written' = written
  BY DEF Next, Write, WriteForeign, Break, ReadPacket, ReadBadSecret, ReadFails, vars
<1>3. ends' = ends
  BY DEF Next, Write, WriteForeign, Break, ReadPacket, ReadBadSecret, ReadFails, vars
<1> QED BY <1>1, <1>2, <1>3

\* With the secret, the octets a decode to the Error reply of their header's type.
Readable(secret, a) ==
    LET k == HeaderUnmarshal(a)
        body == Crypt(secret, k, SubSeq(a, MaxHeaderLength + 1, Len(a)))
    IN  /\ HeaderValid(k) /\ k.length = Len(body)
        /\ UnmarshalBinary(ReplyType(k.type), body) = {BadSecretMessage(k.type)}

\* The answer, if there is one, is readable, and is to the packet after those that
\* were returned.  No other packet is returned after it.
Answered ==
    answer # <<>> =>
        /\ reader = "closed" /\ Readable(ends.reader, answer)
        /\ OwnTraffic => /\ Len(got) + 1 \in 1..Len(written)
                         /\ Answers(HeaderUnmarshal(answer), written[Len(got) + 1].h)

\* The answer of read to a packet it cannot make sense of is a packet itself: the
\* header it decodes to is valid, with the secret of read its body is the Error reply
\* of that type, and where only write has put octets on the stream, its type and
\* session are those of the packet that was turned away (crypt.go: badSecretReply).
THEOREM AnswerReadable == Spec => []AnswerIsReadable
<1>AnswerBack. ASSUME NEW secret, NEW h, Sound(h), NEW a, a = BadSecretReply(secret, h)
               PROVE  Readable(secret, a) /\ Answers(HeaderUnmarshal(a), h)
  <2> USE <1>AnswerBack
  <2> DEFINE t == ReplyType(h.type)
             m == BadSecretMessage(h.type)
             b == MarshalBinary(t, m)
             g == [h EXCEPT !.seq = 1, !.length = Len(b)]
  <2>1. /\ t \in BodyType /\ Fits(t, m) /\ b \in Seq(Octet)
        /\ Sound(g) /\ g.length = Len(b) /\ g.type = h.type /\ g.seq = 1
        /\ \A z : BadSecretReply(z, h) = PacketOctets(z, g, b)
    BY AnswerSent, Zenon
  <2>2. UnmarshalBinary(t, b) = {m}
    BY <2>1, DecodesToItself
  <2>s. Answers(g, h)
    BY SMT DEF Sound, Header, Answers
  <2> HIDE DEF b, g, t, m
  <2>3. a = PacketOctets(secret, g, b)
    BY <2>1, Zenon
  <2>4. PacketIs(a, HeaderMarshal(g), Crypt(secret, g, b), Len(b))
    BY <2>1, <2>3, PacketLaid, Zenon
  <2>5. a \in Seq(Octet) /\ Len(a) = 12 + Len(b) /\ Len(b) \in Nat
    BY <2>1, <2>4 DEF PacketIs, MaxHeaderLength
  <2>6. Headed(a) /\ Along(a, PacketOctets(secret, g, b))
    BY <2>3, <2>5 DEF Headed, Along, MaxHeaderLength
  <2>7. /\ HeaderUnmarshal(a) = FirstReply(g) /\ BodyLength(a) = Len(b)
        /\ Whole(a) => Crypt(secret, FirstReply(g),
                             SubSeq(a, MaxHeaderLength + 1, MaxHeaderLength + BodyLength(a))) = b
    BY <2>1, <2>5, <2>6, PacketBack
  <2>8. Whole(a) /\ MaxHeaderLength + BodyLength(a) = Len(a)
    BY <2>5, <2>7 DEF Whole, MaxHeaderLength
  <2>9. FirstReply(g) = g
    BY <2>1 DEF FirstReply
  <2>10. HeaderUnmarshal(a) = g /\ Crypt(secret, g, SubSeq(a, MaxHeaderLength + 1, Len(a))) = b
    BY <2>7, <2>8, <2>9, Zenon
  <2>11. HeaderValid(g)
    BY <2>1, SMT DEF Sound
  <2> QED BY <2>1, <2>2, <2>s, <2>10, <2>11, Zenon DEF Readable, t, m
<1>1. Init => Answered
  BY Zenon DEF Init, Answered
<1>2. Typed /\ InStep /\ Answered /\ [Next]_vars => Answered'
  <2> SUFFICES ASSUME Typed, InStep, Answered, [Next]_vars PROVE Answered'
    OBVIOUS
  <2>1. CASE ReadBadSecret
    <3>1. PICK p \in Received : HeaderValid(p.h) /\ answer' = BadSecretReply(ends.reader, p.h)
      BY <2>1 DEF ReadBadSecret
    <3>2. Sound(p.h) /\ reader = "open" /\ reader' = "closed" /\ UNCHANGED <<ends, written, got>>
      BY <2>1, <3>1, ReceivedSound DEF Returned, ReadBadSecret
    <3>3. Readable(ends.reader, answer') /\ Answers(HeaderUnmarshal(answer'), p.h)
      BY <3>1, <3>2, <1>AnswerBack, Zenon
    <3>4. ASSUME OwnTraffic'
          PROVE  /\ Len(got) + 1 \in 1..Len(written)
                 /\ Answers(HeaderUnmarshal(answer'), written[Len(got) + 1].h)
      <4> DEFINE w == written[Len(got) + 1]
      <4>1. OwnTraffic
        BY <3>2, <3>4, Zenon DEF OwnTraffic
      <4>2. FirstOf(ends, got, written) /\ InPlace
        BY <3>2, <4>1, Zenon DEF InStep
      <4>3. Len(got) + 1 \in 1..Len(written) /\ p.h = FirstReply(w.h)
        BY <3>1, <4>1, <4>2, ReceivesNext, Zenon DEF NextOne, IsReadOf
      <4>4. Sound(w.h)
        BY <4>1, <4>3, Zenon DEF OwnTraffic, Typed, Sent
      <4> HIDE DEF w
      <4>5. w.h \in Header
        BY <4>4, SMT DEF Sound
      <4>6. p.h.type = w.h.type /\ p.h.sid = w.h.sid
        BY <4>3, <4>5, FirstReplyKeeps, Zenon
      <4> QED BY <3>3, <4>3, <4>6, Zenon DEF Answers, w
    <3> QED BY <3>2, <3>3, <3>4, Zenon DEF Answered
  <2>2. CASE ~ReadBadSecret
    <3>1. answer' = answer /\ ends' = ends
      BY <2>2, Zenon DEF Next, Write, WriteForeign, Break, ReadPacket, ReadFails, vars
    <3>2. ASSUME answer # <<>> PROVE reader' = "closed" /\ got' = got
      <4>1. reader = "closed"
        BY <3>2, Zenon DEF Answered
      <4> QED BY <2>2, <4>1 DEF Next, Write, WriteForeign, Break, ReadPacket, ReadFails, vars
    <3>3. \A i \in 1..Len(written) : i \in 1..Len(written') /\ written'[i] = written[i]
      BY WrittenStays
    <3>4. ASSUME OwnTraffic' PROVE OwnTraffic
      BY <3>3, <3>4, Zenon DEF OwnTraffic
    <3> QED BY <3>1, <3>2, <3>3, <3>4, Zenon DEF Answered
  <2> QED BY <2>1, <2>2
<1>3. Typed /\ Answered => AnswerIsReadable
  <2> SUFFICES ASSUME Typed, Answered PROVE AnswerIsReadable
    OBVIOUS
  <2>1. Len(got) + 1 \in 1..Len(written) => Len(got) < Len(written)
    BY DEF Typed
  <2> QED BY <2>1, Zenon DEF Answered, Readable, AnswerIsReadable
<1> QED BY <1>1, <1>2, <1>3, AlwaysTyped, AlwaysInStep, PTL DEF Spec

\* A message that was written fits into its packet.
LEMMA WrittenFits ==
    ASSUME Typed, NEW i \in 1..Len(written), written[i].t \in BodyType,
           Narrow(written[i].t, written[i].msg)
    PROVE  /\ Fits(written[i].t, written[i].msg)
           /\ written[i].body = MarshalBinary(written[i].t, written[i].msg)
<1> DEFINE w == written[i]
<1>1. w.t # "foreign"
  BY Layouts
<1> HIDE DEF w
<1>2. Sent(w)
  BY Zenon DEF Typed, w
<1>3. /\ Sound(w.h) /\ w.h.length = Len(w.body)
      /\ IsMessage(w.t, w.msg) /\ Valid(w.t, w.msg) /\ w.body = MarshalBinary(w.t, w.msg)
  BY <1>1, <1>2, Zenon DEF Sent, w
<1>4. w.h.length <= MaxBodyLength
  BY <1>3, SMT DEF Sound, HeaderValid
<1> QED BY <1>3, <1>4, Zenon DEF Fits, w

\* A message whose one-octet lengths fit decodes at the other end to itself: every
\* MarshalBinary and UnmarshalBinary, through the obfuscation and the stream.
THEOREM RoundTrips == Spec => []RoundTrip
<1>1. Typed /\ InStep => RoundTrip
  <2> SUFFICES ASSUME Typed, InStep, SameSecret, OwnTraffic, NEW i \in 1..Len(got),
                      written[i].t \in BodyType, Narrow(written[i].t, written[i].msg)
               PROVE  UnmarshalBinary(written[i].t, got[i].body) = {written[i].msg}
    BY Zenon DEF RoundTrip
  <2>1. FirstOf(ends, got, written)
    BY Zenon DEF InStep
  <2>2. i \in 1..Len(written)
    BY <2>1 DEF FirstOf, Typed
  <2>3. got[i].body = written[i].body
    <3>1. IsReadOf(ends, got[i], written[i])
      BY <2>1, Zenon DEF FirstOf
    <3> QED BY <3>1, Zenon DEF IsReadOf, SameSecret
  <2>4. Fits(written[i].t, written[i].msg)
          /\ written[i].body = MarshalBinary(written[i].t, written[i].msg)
    BY <2>2, WrittenFits
  <2> QED BY <2>3, <2>4, DecodesToItself, ZenonT(30)
<1> QED BY <1>1, AlwaysTyped, AlwaysInStep, PTL

(***************************************************************************)
(* A peer with the right secret is served                                  *)
(***************************************************************************)
\* What RightSecretAccepted asks of the peer and of the proxy.
Proper(e) == e.t \in Candidates(e.h.type) /\ Narrow(e.t, e.msg)

Honest ==
    SameSecret /\ OwnTraffic /\ LinesFit /\ \A i \in 1..Len(written) : Proper(written[i])

\* A peer with the right secret that sends messages of the packet's type is never
\* told that its secret is bad, whatever the messages, the secret and the pad are,
\* and read gives up on it only at the end of the stream (detectBadSecret, read).
THEOREM RightSecretServed == Spec => []RightSecretAccepted
<1>LinesExpected. ASSUME Typed, LinesFit
                  PROVE  /\ Expected
                         /\ ends.proxy => LineOf(ends, Len(got) + 1) = ends.line /\ ProxyLine(ends.line)
  <2> USE <1>LinesExpected
  <2>1. CASE ends.proxy
    <3>1. ends.every /\ ProxyLine(ends.line)
      BY <2>1, Zenon DEF LinesFit
    <3>2. LineOf(ends, Len(got) + 1) = ends.line
      BY <3>1, Zenon DEF LineOf
    <3>3. ends.line # <<>>
      <4>1. \E i \in 1..(Len(ends.line) - 4) : SubSeq(ends.line, i, i + 4) = Signature
        BY <3>1, Zenon DEF ProxyLine
      <4>2. PICK i \in 1..(Len(ends.line) - 4) : TRUE
        BY <4>1
      <4>3. ends.line = <<>> => Len(ends.line) = 0
        OBVIOUS
      <4> QED BY <4>2, <4>3
    <3> QED BY <2>1, <3>1, <3>2, <3>3, Zenon DEF Expected
  <2>2. CASE ~ends.proxy
    <3>1. ends.line = <<>>
      BY <2>2, Zenon DEF LinesFit
    <3>2. LineOf(ends, Len(got) + 1) = <<>>
      BY <3>1, Zenon DEF LineOf
    <3> QED BY <2>2, <3>2, Zenon DEF Expected
  <2> QED BY <2>1, <2>2
\* The line of the proxy is accepted.
<1>LineIsAccepted. ASSUME Typed, OwnTraffic, FirstOf(ends, got, written), InPlace, LinesFit, HasLine
                   PROVE  LineAccepted
  <2> USE <1>LineIsAccepted
  <2> DEFINE k == Len(got) + 1
             L == LineOf(ends, k)
             P == PacketOf(ends, written[k])
             R == Ahead(ends, written, k)
  <2>1. CASE ~ends.proxy
    BY <2>1, Zenon DEF LineAccepted
  <2>2. CASE ends.proxy
    <3>1. Expected /\ L = ends.line /\ ProxyLine(L)
      BY <2>2, <1>LinesExpected, Zenon
    <3>2. stream # <<>>
      BY <2>2 DEF HasLine, Range
    <3>3. Len(got) \in 0..(Len(written) - 1)
      BY <3>2, NoneLeft, Zenon DEF FirstOf
    <3>4. IsLine(L) /\ Before(L, P, R)
      BY <3>3, NextBefore, Zenon
    <3>5. ends.proxy <=> L # <<>>
      BY <3>1, Zenon DEF Expected
    <3> HIDE DEF k, L, P, R
    <3>6. LineLength = Len(L)
      BY <3>4, <3>5, LineSkipped, Zenon
    <3>7. L \in Seq(Octet) /\ stream \in Seq(Octet)
      BY <3>4, Zenon DEF Typed, IsLine
    <3>8. Len(L) \in 0..Len(stream)
      BY <3>6, LineFound, Zenon DEF Typed
    <3>9. PICK A : Laid(A, L, P, R) /\ Begins(stream, A)
      BY <3>4, Zenon DEF Before
    <3>10. Begins(L, stream)
      <4>1. (\A i \in 1..Len(L) : A[i] = L[i]) /\ \A i \in 1..Len(stream) : A[i] = stream[i]
        BY <3>9, Zenon DEF Laid, Begins
      <4>2. Len(L) <= Len(stream) /\ \A i \in 1..Len(L) : i \in 1..Len(stream)
        BY <3>7, <3>8
      <4> QED BY <4>1, <4>2, Zenon DEF Begins
    <3>11. SubSeq(stream, 1, Len(L)) = L
      BY <3>7, <3>10, BeginsIsCut, Zenon
    <3> QED BY <3>1, <3>6, <3>11, Zenon DEF LineAccepted
  <2> QED BY <2>1, <2>2
\* The next packet is one that read accepts.
<1>NextAccepted. ASSUME Typed, Honest, FirstOf(ends, got, written), InPlace, NEW p \in Received
                 PROVE  HeaderValid(p.h) /\ ~DetectBadSecret(p.h, p.body)
  <2> USE <1>NextAccepted
  <2> DEFINE k == Len(got) + 1
             w == written[k]
  <2>1. NextOne(p, k)
    BY <1>LinesExpected, ReceivesNext, Zenon DEF Honest
  <2>2. /\ k \in 1..Len(written) /\ p.h = FirstReply(w.h) /\ p.body = w.body
    BY <2>1, Zenon DEF NextOne, IsReadOf, Honest, SameSecret
  <2>3. w.t \in Candidates(w.h.type) /\ Narrow(w.t, w.msg)
    BY <2>2, Zenon DEF Honest, Proper
  <2>4. Sound(w.h)
    BY <2>2, Zenon DEF Honest, OwnTraffic, Typed, Sent
  <2>5. w.h \in Header /\ HeaderValid(w.h)
    <3> HIDE DEF w
    <3> QED BY <2>4, SMT DEF Sound
  <2>6. w.t \in BodyType
    BY <2>3, <2>4, CandidatesAre, Zenon
  <2>7. Fits(w.t, w.msg) /\ w.body = MarshalBinary(w.t, w.msg)
    BY <2>2, <2>3, <2>6, WrittenFits
  <2>8. ~ShortBody(w.t, w.body)
    BY <2>6, <2>7, DecodesToItself, Zenon
  <2> HIDE DEF k, w
  <2>9. SameKey(p.h, w.h) /\ p.h.type = w.h.type /\ p.h.length = w.h.length
    BY <2>2, <2>5, FirstReplyKeeps
  <2>10. HeaderValid(p.h)
    BY <2>5, <2>9, SMT DEF SameKey, HeaderValid
  <2>11. ~DetectBadSecret(p.h, p.body)
    BY <2>2, <2>3, <2>8, <2>9, Zenon DEF DetectBadSecret
  <2> QED BY <2>10, <2>11
<1>StaysHonest. ASSUME Typed, [Next]_vars, Honest'
                PROVE  Honest
  <2> USE <1>StaysHonest
  <2>1. /\ ends' = ends
        /\ \A i \in 1..Len(written) : i \in 1..Len(written') /\ written'[i] = written[i]
    BY WrittenStays
  <2> QED BY <2>1, Zenon DEF Honest, SameSecret, OwnTraffic, LinesFit
\* read gives up only at the end of the stream.
<1>FailsAtEnd. ASSUME Typed, InStep, Honest, ReadFails
               PROVE  broken
  <2> USE <1>FailsAtEnd
  <2>1. reader = "open" /\ SameSecret /\ OwnTraffic /\ LinesFit
    BY Zenon DEF ReadFails, Honest
  <2>2. FirstOf(ends, got, written) /\ InPlace
    BY <2>1, Zenon DEF InStep
  <2>3. Expected
    BY <2>1, <1>LinesExpected, Zenon
  <2>4. ASSUME NEW s \in Following, Headed(s) PROVE ~TooLong(s)
    <3>1. stream # <<>>
      BY <2>4, SomethingAhead, Zenon
    <3>2. Len(got) \in 0..(Len(written) - 1)
      BY <2>1, <2>2, <3>1, NoneLeft, Zenon DEF FirstOf
    <3>3. Heading(s)
      BY <2>3, <2>4, Zenon DEF Heading
    <3>4. Taken(s, written[Len(got) + 1], Ahead(ends, written, Len(got) + 1))
      BY <2>1, <2>2, <3>2, <3>3, TakesNext, Zenon
    <3> QED BY <3>4, Zenon DEF Taken
  <2>5. HasLine => LineAccepted
    BY <2>1, <2>2, <1>LineIsAccepted, Zenon
  <2>6. \A p \in Received : HeaderValid(p.h)
    BY <2>2, <1>NextAccepted, Zenon
  <2> QED BY <2>4, <2>5, <2>6, Zenon DEF ReadFails
<1>1. RightSecretAccepted <=> (Honest => answer = <<>> /\ (reader = "closed" => broken))
  BY Zenon DEF RightSecretAccepted, Honest, Proper
<1>2. Init => RightSecretAccepted
  BY <1>1 DEF Init
<1>3. Typed /\ InStep /\ RightSecretAccepted /\ [Next]_vars => RightSecretAccepted'
  <2> SUFFICES ASSUME Typed, InStep, RightSecretAccepted, [Next]_vars, Honest'
               PROVE  answer' = <<>> /\ (reader' = "closed" => broken')
    BY <1>1, Zenon DEF RightSecretAccepted, Honest, Proper
  <2>1. Honest
    BY <1>StaysHonest
  <2>2. answer = <<>> /\ (reader = "closed" => broken)
    BY <1>1, <2>1
  <2>3. CASE Write \/ WriteForeign \/ ReadPacket \/ UNCHANGED vars
    BY <2>2, <2>3 DEF Write, WriteForeign, ReadPacket, vars
  <2>4. ASSUME NEW n \in Breaks, Break(n)
        PROVE  answer' = <<>> /\ (reader' = "closed" => broken')
    BY <2>2, <2>4 DEF Break
  <2>5. CASE ReadBadSecret
    <3>1. PICK p \in Received : DetectBadSecret(p.h, p.body)
      BY <2>5 DEF ReadBadSecret
    <3>2. reader = "open" /\ SameSecret /\ OwnTraffic
      BY <2>1, <2>5, Zenon DEF ReadBadSecret, Honest
    <3>3. FirstOf(ends, got, written) /\ InPlace
      BY <3>2, Zenon DEF InStep
    <3> QED BY <2>1, <3>1, <3>3, <1>NextAccepted, Zenon
  <2>6. CASE ReadFails
    <3>1. broken
      BY <2>1, <2>6, <1>FailsAtEnd
    <3> QED BY <2>2, <2>6, <3>1 DEF ReadFails
  <2> QED BY <2>3, <2>4, <2>5, <2>6 DEF Next
<1> QED BY <1>2, <1>3, AlwaysTyped, AlwaysInStep, PTL DEF Spec

=============================================================================
