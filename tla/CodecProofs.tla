---------------------------- MODULE CodecProofs ----------------------------
(***************************************************************************)
(* Facts about the encoding of the bodies, for texts and arguments of any  *)
(* length and number: what is encoded decodes to itself, and what decodes  *)
(* is encoded to the octets it was decoded from.                           *)
(***************************************************************************)
EXTENDS Codec, ListProofs

(***************************************************************************)
(* Octets                                                                  *)
(***************************************************************************)
LEMMA OctetRange == \A x : x \in Octet <=> x \in Int /\ 0 <= x /\ x < 256
BY SMT DEF Octet

\* The two octets of a length.
LEMMA TwoOctets ==
    ASSUME NEW n \in Nat
    PROVE  /\ (n \div 256) % 256 \in Octet /\ n % 256 \in Octet
           /\ n < 65536 => 256 * ((n \div 256) % 256) + (n % 256) = n
<1>1. (n \div 256) % 256 \in Octet /\ n % 256 \in Octet
  BY OctetRange, SMT
<1>2. n < 65536 => 256 * ((n \div 256) % 256) + (n % 256) = n
  BY SMT
<1> QED BY <1>1, <1>2, SMT

(***************************************************************************)
(* Layouts                                                                 *)
(***************************************************************************)
LEMMA Layouts ==
    /\ BodyType = {"AuthenStart", "AuthenContinue", "AuthenReply", "AuthorRequest",
                   "AuthorReply", "AcctRequest", "AcctReply"}
    /\ Layout["AuthenStart"] = AuthenStart /\ Layout["AuthenContinue"] = AuthenContinue
    /\ Layout["AuthenReply"] = AuthenReply /\ Layout["AuthorRequest"] = AuthorRequest
    /\ Layout["AuthorReply"] = AuthorReply /\ Layout["AcctRequest"] = AcctRequest
    /\ Layout["AcctReply"] = AcctReply
<1> HIDE DEF AuthenStart, AuthenContinue, AuthenReply, AuthorRequest, AuthorReply,
             AcctRequest, AcctReply
<1> QED BY DEF Layout, BodyType

\* What the proofs need of a head: distinct fields, and the arguments are the one
\* field that is counted.
Regular(head) ==
    /\ head \in Seq(Range(head))
    /\ \A i, j \in 1..Len(head) : head[i].field = head[j].field => i = j
    /\ \A i \in 1..Len(head) : head[i].kind \in {"octet", "len8", "len16", "count"}
    /\ \A i \in 1..Len(head) : head[i].kind = "count" <=> head[i].field = "args"

\* A head of n items with these fields and kinds; pos has the place of each field.
Described(head, n, names, kinds, pos) ==
    /\ head = [i \in 1..n |-> head[i]]
    /\ \A i \in 1..n : head[i].field = names[i] /\ head[i].kind = kinds[i]
    /\ \A i \in 1..n : /\ pos[names[i]] = i
                       /\ kinds[i] \in {"octet", "len8", "len16", "count"}
                       /\ kinds[i] = "count" <=> names[i] = "args"

LEMMA RegularHead ==
    ASSUME NEW n \in Nat, NEW head, NEW names, NEW kinds, NEW pos,
           Described(head, n, names, kinds, pos)
    PROVE  Regular(head) /\ Len(head) = n
<1>1. head \in Seq({head[i] : i \in 1..n}) /\ Len(head) = n
  BY DEF Described
<1>2. Range(head) = {head[i] : i \in 1..n}
  BY <1>1 DEF Range
<1> QED BY <1>1, <1>2 DEF Regular, Described

LEMMA StartHead ==
    LET head == HeadOf["AuthenStart"] IN
    /\ Regular(head) /\ Len(head) = 8
    /\ \A i \in 1..8 :
          /\ head[i].field = <<"action", "privlvl", "type", "service", "user", "port", "remaddr", "data">>[i]
          /\ head[i].kind = <<"octet", "octet", "octet", "octet", "len8", "len8", "len8", "len8">>[i]
<1> DEFINE head == HeadOf["AuthenStart"]
           names == <<"action", "privlvl", "type", "service", "user", "port", "remaddr", "data">>
           kinds == <<"octet", "octet", "octet", "octet", "len8", "len8", "len8", "len8">>
           pos == [action |-> 1, privlvl |-> 2, type |-> 3, service |-> 4, user |-> 5, port |->
                    6, remaddr |-> 7, data |-> 8]
<1>1. head = AuthenStart.head
  BY Layouts DEF HeadOf
<1>2. head = [i \in 1..8 |-> head[i]]
  BY <1>1 DEF AuthenStart
<1>3. \A i \in 1..8 : head[i].field = names[i] /\ head[i].kind = kinds[i]
  BY <1>1 DEF AuthenStart, Item, User, Port, RemAddr
<1>4. \A i \in 1..8 : /\ pos[names[i]] = i
                      /\ kinds[i] \in {"octet", "len8", "len16", "count"}
                      /\ kinds[i] = "count" <=> names[i] = "args"
  OBVIOUS
<1> HIDE DEF head, names, kinds, pos
<1>5. Described(head, 8, names, kinds, pos)
  BY <1>2, <1>3, <1>4 DEF Described
<1>6. Regular(head) /\ Len(head) = 8
  BY <1>5, RegularHead, Zenon
<1> QED BY <1>3, <1>6 DEF head, names, kinds

LEMMA ContinueHead ==
    LET head == HeadOf["AuthenContinue"] IN
    /\ Regular(head) /\ Len(head) = 3
    /\ \A i \in 1..3 :
          /\ head[i].field = <<"usermessage", "data", "flags">>[i]
          /\ head[i].kind = <<"len16", "len16", "octet">>[i]
<1> DEFINE head == HeadOf["AuthenContinue"]
           names == <<"usermessage", "data", "flags">>
           kinds == <<"len16", "len16", "octet">>
           pos == [usermessage |-> 1, data |-> 2, flags |-> 3]
<1>1. head = AuthenContinue.head
  BY Layouts DEF HeadOf
<1>2. head = [i \in 1..3 |-> head[i]]
  BY <1>1 DEF AuthenContinue
<1>3. \A i \in 1..3 : head[i].field = names[i] /\ head[i].kind = kinds[i]
  BY <1>1 DEF AuthenContinue, Item
<1>4. \A i \in 1..3 : /\ pos[names[i]] = i
                      /\ kinds[i] \in {"octet", "len8", "len16", "count"}
                      /\ kinds[i] = "count" <=> names[i] = "args"
  OBVIOUS
<1> HIDE DEF head, names, kinds, pos
<1>5. Described(head, 3, names, kinds, pos)
  BY <1>2, <1>3, <1>4 DEF Described
<1>6. Regular(head) /\ Len(head) = 3
  BY <1>5, RegularHead, Zenon
<1> QED BY <1>3, <1>6 DEF head, names, kinds

LEMMA ReplyHead ==
    LET head == HeadOf["AuthenReply"] IN
    /\ Regular(head) /\ Len(head) = 4
    /\ \A i \in 1..4 :
          /\ head[i].field = <<"status", "flags", "servermsg", "data">>[i]
          /\ head[i].kind = <<"octet", "octet", "len16", "len16">>[i]
<1> DEFINE head == HeadOf["AuthenReply"]
           names == <<"status", "flags", "servermsg", "data">>
           kinds == <<"octet", "octet", "len16", "len16">>
           pos == [status |-> 1, flags |-> 2, servermsg |-> 3, data |-> 4]
<1>1. head = AuthenReply.head
  BY Layouts DEF HeadOf
<1>2. head = [i \in 1..4 |-> head[i]]
  BY <1>1 DEF AuthenReply
<1>3. \A i \in 1..4 : head[i].field = names[i] /\ head[i].kind = kinds[i]
  BY <1>1 DEF AuthenReply, Item
<1>4. \A i \in 1..4 : /\ pos[names[i]] = i
                      /\ kinds[i] \in {"octet", "len8", "len16", "count"}
                      /\ kinds[i] = "count" <=> names[i] = "args"
  OBVIOUS
<1> HIDE DEF head, names, kinds, pos
<1>5. Described(head, 4, names, kinds, pos)
  BY <1>2, <1>3, <1>4 DEF Described
<1>6. Regular(head) /\ Len(head) = 4
  BY <1>5, RegularHead, Zenon
<1> QED BY <1>3, <1>6 DEF head, names, kinds

LEMMA AuthorReplyHead ==
    LET head == HeadOf["AuthorReply"] IN
    /\ Regular(head) /\ Len(head) = 4
    /\ \A i \in 1..4 :
          /\ head[i].field = <<"status", "args", "servermsg", "data">>[i]
          /\ head[i].kind = <<"octet", "count", "len16", "len16">>[i]
<1> DEFINE head == HeadOf["AuthorReply"]
           names == <<"status", "args", "servermsg", "data">>
           kinds == <<"octet", "count", "len16", "len16">>
           pos == [status |-> 1, args |-> 2, servermsg |-> 3, data |-> 4]
<1>1. head = AuthorReply.head
  BY Layouts DEF HeadOf
<1>2. head = [i \in 1..4 |-> head[i]]
  BY <1>1 DEF AuthorReply
<1>3. \A i \in 1..4 : head[i].field = names[i] /\ head[i].kind = kinds[i]
  BY <1>1 DEF AuthorReply, Item
<1>4. \A i \in 1..4 : /\ pos[names[i]] = i
                      /\ kinds[i] \in {"octet", "len8", "len16", "count"}
                      /\ kinds[i] = "count" <=> names[i] = "args"
  OBVIOUS
<1> HIDE DEF head, names, kinds, pos
<1>5. Described(head, 4, names, kinds, pos)
  BY <1>2, <1>3, <1>4 DEF Described
<1>6. Regular(head) /\ Len(head) = 4
  BY <1>5, RegularHead, Zenon
<1> QED BY <1>3, <1>6 DEF head, names, kinds

LEMMA AcctReplyHead ==
    LET head == HeadOf["AcctReply"] IN
    /\ Regular(head) /\ Len(head) = 3
    /\ \A i \in 1..3 :
          /\ head[i].field = <<"servermsg", "data", "status">>[i]
          /\ head[i].kind = <<"len16", "len16", "octet">>[i]
<1> DEFINE head == HeadOf["AcctReply"]
           names == <<"servermsg", "data", "status">>
           kinds == <<"len16", "len16", "octet">>
           pos == [servermsg |-> 1, data |-> 2, status |-> 3]
<1>1. head = AcctReply.head
  BY Layouts DEF HeadOf
<1>2. head = [i \in 1..3 |-> head[i]]
  BY <1>1 DEF AcctReply
<1>3. \A i \in 1..3 : head[i].field = names[i] /\ head[i].kind = kinds[i]
  BY <1>1 DEF AcctReply, Item
<1>4. \A i \in 1..3 : /\ pos[names[i]] = i
                      /\ kinds[i] \in {"octet", "len8", "len16", "count"}
                      /\ kinds[i] = "count" <=> names[i] = "args"
  OBVIOUS
<1> HIDE DEF head, names, kinds, pos
<1>5. Described(head, 3, names, kinds, pos)
  BY <1>2, <1>3, <1>4 DEF Described
<1>6. Regular(head) /\ Len(head) = 3
  BY <1>5, RegularHead, Zenon
<1> QED BY <1>3, <1>6 DEF head, names, kinds


\* The items of the head of a body type: their places and widths.
Items(t, n) ==
    /\ Len(HeadOf[t]) = n
    /\ Widths[t] \in Seq(Nat) /\ Len(Widths[t]) = n
    /\ \A i \in 1..n : Widths[t][i] = IF HeadOf[t][i].kind = "len16" THEN 2 ELSE 1
    /\ HeadLen[t] = Sums(Widths[t])[n]
    /\ Fields[t] = {HeadOf[t][i].field : i \in 1..n}
    /\ \A i \in 1..n :
          LET f == HeadOf[t][i].field IN
          /\ Kind[t][f] = HeadOf[t][i].kind
          /\ Offset[t][f] = Sums(Widths[t])[i - 1]

LEMMA HeadItems ==
    ASSUME NEW t \in BodyType, Regular(HeadOf[t])
    PROVE  Len(HeadOf[t]) \in Nat /\ Items(t, Len(HeadOf[t]))
<1> DEFINE head == HeadOf[t]
           n == Len(head)
           W == Widths[t]
<1>1. /\ head \in Seq(Range(head))
      /\ \A i, j \in 1..n : head[i].field = head[j].field => i = j
  BY DEF Regular
<1>2. n \in Nat
  BY <1>1
<1>3. W = [i \in 1..n |-> IF head[i].kind = "len16" THEN 2 ELSE 1]
  BY DEF Widths
<1>4. \A x : x \in Range(head) <=> \E i \in 1..n : x = head[i]
  BY <1>1, RangeElements
<1>5. Fields[t] = {x.field : x \in Range(head)}
  BY DEF Fields
<1> HIDE DEF head, n, W
<1>6. /\ W \in Seq(Nat) /\ Len(W) = n
      /\ \A i \in 1..n : W[i] = IF head[i].kind = "len16" THEN 2 ELSE 1
  BY <1>2, <1>3
<1>7. HeadLen[t] = Sums(W)[n]
  BY <1>6 DEF HeadLen, Sum, W
<1>8. Fields[t] = {head[i].field : i \in 1..n}
  BY <1>4, <1>5
<1>9. ASSUME NEW i \in 1..n
      PROVE  /\ Kind[t][head[i].field] = head[i].kind
             /\ Offset[t][head[i].field] = Sums(W)[i - 1]
  <2>1. head[i].field \in Fields[t]
    BY <1>8
  <2>2. Index[t][head[i].field] = CHOOSE j \in 1..n : head[j].field = head[i].field
    BY <2>1 DEF Index, head, n
  <2>3. Index[t][head[i].field] = i
    BY <1>1, <2>2
  <2> QED BY <2>1, <2>3 DEF Kind, Offset, head, W
<1> QED BY <1>2, <1>6, <1>7, <1>8, <1>9 DEF Items, head, n, W

\* The sums of the widths of the first n items.
Summed(t, n) ==
    /\ HeadLen[t] = Sums(Widths[t])[n]
    /\ \A i \in 1..n : Widths[t][i] = IF HeadOf[t][i].kind = "len16" THEN 2 ELSE 1
    /\ Sums(Widths[t])[0] = 0
    /\ \A i \in 1..n : /\ Sums(Widths[t])[i - 1] \in Nat
                       /\ Sums(Widths[t])[i] = Sums(Widths[t])[i - 1] + Widths[t][i]

LEMMA HeadSums ==
    ASSUME NEW t \in BodyType, Regular(HeadOf[t])
    PROVE  Summed(t, Len(HeadOf[t]))
<1> DEFINE n == Len(HeadOf[t])
<1>1. Items(t, n)
  BY HeadItems
<1> HIDE DEF n
<1>2. Widths[t] \in Seq(Nat) /\ Len(Widths[t]) = n
  BY <1>1 DEF Items
<1>3. /\ Sums(Widths[t]) \in [0..n -> Nat] /\ Sums(Widths[t])[0] = 0
      /\ \A i \in 1..n : Sums(Widths[t])[i] = Sums(Widths[t])[i - 1] + Widths[t][i]
  BY <1>2, SumsSteps
<1>4. n \in Nat
  BY <1>2
<1>5. \A i \in 1..n : Sums(Widths[t])[i - 1] \in Nat
  BY <1>3, <1>4
<1> QED BY <1>1, <1>3, <1>5, Zenon DEF Items, Summed, n

\* The lengths of the heads, and the least lengths that are accepted.
LEMMA HeadLengths ==
    \A t \in BodyType :
        /\ Regular(HeadOf[t])
        /\ HeadLen[t] \in Nat /\ Layout[t].min \in Nat
        /\ 5 <= Layout[t].min /\ Layout[t].min <= HeadLen[t] /\ HeadLen[t] <= 9
<1>AuthorHead. LET head == HeadOf["AuthorRequest"] IN
               /\ Regular(head) /\ Len(head) = 8
               /\ \A i \in 1..8 :
                     /\ head[i].field = <<"method", "privlvl", "type", "service", "user", "port", "remaddr", "args">>[i]
                     /\ head[i].kind = <<"octet", "octet", "octet", "octet", "len8", "len8", "len8", "count">>[i]
  <2> DEFINE head == HeadOf["AuthorRequest"]
             names == <<"method", "privlvl", "type", "service", "user", "port", "remaddr", "args">>
             kinds == <<"octet", "octet", "octet", "octet", "len8", "len8", "len8", "count">>
             pos == [method |-> 1, privlvl |-> 2, type |-> 3, service |-> 4, user |-> 5, port |->
                      6, remaddr |-> 7, args |-> 8]
  <2>1. head = AuthorRequest.head
    BY Layouts DEF HeadOf
  <2>2. head = [i \in 1..8 |-> head[i]]
    BY <2>1 DEF AuthorRequest
  <2>3. \A i \in 1..8 : head[i].field = names[i] /\ head[i].kind = kinds[i]
    BY <2>1 DEF AuthorRequest, Item, User, Port, RemAddr
  <2>4. \A i \in 1..8 : /\ pos[names[i]] = i
                        /\ kinds[i] \in {"octet", "len8", "len16", "count"}
                        /\ kinds[i] = "count" <=> names[i] = "args"
    OBVIOUS
  <2> HIDE DEF head, names, kinds, pos
  <2>5. Described(head, 8, names, kinds, pos)
    BY <2>2, <2>3, <2>4 DEF Described
  <2>6. Regular(head) /\ Len(head) = 8
    BY <2>5, RegularHead, Zenon
  <2> QED BY <2>3, <2>6 DEF head, names, kinds
<1>AcctHead. LET head == HeadOf["AcctRequest"] IN
             /\ Regular(head) /\ Len(head) = 9
             /\ \A i \in 1..9 :
                   /\ head[i].field = <<"flags", "method", "privlvl", "type", "service", "user", "port", "remaddr", "args">>[i]
                   /\ head[i].kind = <<"octet", "octet", "octet", "octet", "octet", "len8", "len8", "len8", "count">>[i]
  <2> DEFINE head == HeadOf["AcctRequest"]
             names == <<"flags", "method", "privlvl", "type", "service", "user", "port",
                        "remaddr", "args">>
             kinds == <<"octet", "octet", "octet", "octet", "octet", "len8", "len8", "len8",
                        "count">>
             pos == [flags |-> 1, method |-> 2, privlvl |-> 3, type |-> 4, service |-> 5, user |->
                      6, port |-> 7, remaddr |-> 8, args |-> 9]
  <2>1. head = AcctRequest.head
    BY Layouts DEF HeadOf
  <2>2. head = [i \in 1..9 |-> head[i]]
    BY <2>1 DEF AcctRequest
  <2>3. \A i \in 1..9 : head[i].field = names[i] /\ head[i].kind = kinds[i]
    BY <2>1 DEF AcctRequest, Item, User, Port, RemAddr
  <2>4. \A i \in 1..9 : /\ pos[names[i]] = i
                        /\ kinds[i] \in {"octet", "len8", "len16", "count"}
                        /\ kinds[i] = "count" <=> names[i] = "args"
    OBVIOUS
  <2> HIDE DEF head, names, kinds, pos
  <2>5. Described(head, 9, names, kinds, pos)
    BY <2>2, <2>3, <2>4 DEF Described
  <2>6. Regular(head) /\ Len(head) = 9
    BY <2>5, RegularHead, Zenon
  <2> QED BY <2>3, <2>6 DEF head, names, kinds
<1>1. Regular(HeadOf["AuthenStart"]) /\ HeadLen["AuthenStart"] = 8 /\ Layout["AuthenStart"].min = 8
  <2> DEFINE W == Widths["AuthenStart"]
             S == Sums(W)
  <2>1. "AuthenStart" \in BodyType /\ Layout["AuthenStart"].min = 8
    BY Layouts DEF AuthenStart
  <2>2. /\ Regular(HeadOf["AuthenStart"]) /\ Len(HeadOf["AuthenStart"]) = 8
        /\ \A i \in 1..8 : HeadOf["AuthenStart"][i].kind = <<"octet", "octet", "octet", "octet", "len8", "len8", "len8", "len8">>[i]
    BY StartHead
  <2>3. /\ HeadLen["AuthenStart"] = S[8] /\ S[0] = 0
        /\ \A i \in 1..8 : /\ W[i] = IF HeadOf["AuthenStart"][i].kind = "len16" THEN 2 ELSE 1
                           /\ S[i - 1] \in Nat /\ S[i] = S[i - 1] + W[i]
    BY <2>1, <2>2, HeadSums, Zenon DEF Summed
  <2> HIDE DEF W, S
  <2>4. W[1] = 1 /\ W[2] = 1 /\ W[3] = 1 /\ W[4] = 1 /\ W[5] = 1 /\ W[6] = 1 /\ W[7] = 1 /\ W[8] = 1
    BY <2>2, <2>3
  <2>5. S[8] = 8
    BY <2>3, <2>4
  <2> QED BY <2>1, <2>2, <2>3, <2>5
<1>2. Regular(HeadOf["AuthenContinue"]) /\ HeadLen["AuthenContinue"] = 5
        /\ Layout["AuthenContinue"].min = 5
  <2> DEFINE W == Widths["AuthenContinue"]
             S == Sums(W)
  <2>1. "AuthenContinue" \in BodyType /\ Layout["AuthenContinue"].min = 5
    BY Layouts DEF AuthenContinue
  <2>2. /\ Regular(HeadOf["AuthenContinue"]) /\ Len(HeadOf["AuthenContinue"]) = 3
        /\ \A i \in 1..3 : HeadOf["AuthenContinue"][i].kind = <<"len16", "len16", "octet">>[i]
    BY ContinueHead
  <2>3. /\ HeadLen["AuthenContinue"] = S[3] /\ S[0] = 0
        /\ \A i \in 1..3 : /\ W[i] = IF HeadOf["AuthenContinue"][i].kind = "len16" THEN 2 ELSE 1
                           /\ S[i - 1] \in Nat /\ S[i] = S[i - 1] + W[i]
    BY <2>1, <2>2, HeadSums, Zenon DEF Summed
  <2> HIDE DEF W, S
  <2>4. W[1] = 2 /\ W[2] = 2 /\ W[3] = 1
    BY <2>2, <2>3
  <2>5. S[3] = 5
    BY <2>3, <2>4
  <2> QED BY <2>1, <2>2, <2>3, <2>5
<1>3. Regular(HeadOf["AuthenReply"]) /\ HeadLen["AuthenReply"] = 6 /\ Layout["AuthenReply"].min = 5
  <2> DEFINE W == Widths["AuthenReply"]
             S == Sums(W)
  <2>1. "AuthenReply" \in BodyType /\ Layout["AuthenReply"].min = 5
    BY Layouts DEF AuthenReply
  <2>2. /\ Regular(HeadOf["AuthenReply"]) /\ Len(HeadOf["AuthenReply"]) = 4
        /\ \A i \in 1..4 : HeadOf["AuthenReply"][i].kind = <<"octet", "octet", "len16", "len16">>[i]
    BY ReplyHead
  <2>3. /\ HeadLen["AuthenReply"] = S[4] /\ S[0] = 0
        /\ \A i \in 1..4 : /\ W[i] = IF HeadOf["AuthenReply"][i].kind = "len16" THEN 2 ELSE 1
                           /\ S[i - 1] \in Nat /\ S[i] = S[i - 1] + W[i]
    BY <2>1, <2>2, HeadSums, Zenon DEF Summed
  <2> HIDE DEF W, S
  <2>4. W[1] = 1 /\ W[2] = 1 /\ W[3] = 2 /\ W[4] = 2
    BY <2>2, <2>3
  <2>5. S[4] = 6
    BY <2>3, <2>4
  <2> QED BY <2>1, <2>2, <2>3, <2>5
<1>4. Regular(HeadOf["AuthorRequest"]) /\ HeadLen["AuthorRequest"] = 8
        /\ Layout["AuthorRequest"].min = 8
  <2> DEFINE W == Widths["AuthorRequest"]
             S == Sums(W)
  <2>1. "AuthorRequest" \in BodyType /\ Layout["AuthorRequest"].min = 8
    BY Layouts DEF AuthorRequest
  <2>2. /\ Regular(HeadOf["AuthorRequest"]) /\ Len(HeadOf["AuthorRequest"]) = 8
        /\ \A i \in 1..8 : HeadOf["AuthorRequest"][i].kind = <<"octet", "octet", "octet", "octet", "len8", "len8", "len8", "count">>[i]
    BY <1>AuthorHead
  <2>3. /\ HeadLen["AuthorRequest"] = S[8] /\ S[0] = 0
        /\ \A i \in 1..8 : /\ W[i] = IF HeadOf["AuthorRequest"][i].kind = "len16" THEN 2 ELSE 1
                           /\ S[i - 1] \in Nat /\ S[i] = S[i - 1] + W[i]
    BY <2>1, <2>2, HeadSums, Zenon DEF Summed
  <2> HIDE DEF W, S
  <2>4. W[1] = 1 /\ W[2] = 1 /\ W[3] = 1 /\ W[4] = 1 /\ W[5] = 1 /\ W[6] = 1 /\ W[7] = 1 /\ W[8] = 1
    BY <2>2, <2>3
  <2>5. S[8] = 8
    BY <2>3, <2>4
  <2> QED BY <2>1, <2>2, <2>3, <2>5
<1>5. Regular(HeadOf["AuthorReply"]) /\ HeadLen["AuthorReply"] = 6 /\ Layout["AuthorReply"].min = 6
  <2> DEFINE W == Widths["AuthorReply"]
             S == Sums(W)
  <2>1. "AuthorReply" \in BodyType /\ Layout["AuthorReply"].min = 6
    BY Layouts DEF AuthorReply
  <2>2. /\ Regular(HeadOf["AuthorReply"]) /\ Len(HeadOf["AuthorReply"]) = 4
        /\ \A i \in 1..4 : HeadOf["AuthorReply"][i].kind = <<"octet", "count", "len16", "len16">>[i]
    BY AuthorReplyHead
  <2>3. /\ HeadLen["AuthorReply"] = S[4] /\ S[0] = 0
        /\ \A i \in 1..4 : /\ W[i] = IF HeadOf["AuthorReply"][i].kind = "len16" THEN 2 ELSE 1
                           /\ S[i - 1] \in Nat /\ S[i] = S[i - 1] + W[i]
    BY <2>1, <2>2, HeadSums, Zenon DEF Summed
  <2> HIDE DEF W, S
  <2>4. W[1] = 1 /\ W[2] = 1 /\ W[3] = 2 /\ W[4] = 2
    BY <2>2, <2>3
  <2>5. S[4] = 6
    BY <2>3, <2>4
  <2> QED BY <2>1, <2>2, <2>3, <2>5
<1>6. Regular(HeadOf["AcctRequest"]) /\ HeadLen["AcctRequest"] = 9 /\ Layout["AcctRequest"].min = 9
  <2> DEFINE W == Widths["AcctRequest"]
             S == Sums(W)
  <2>1. "AcctRequest" \in BodyType /\ Layout["AcctRequest"].min = 9
    BY Layouts DEF AcctRequest
  <2>2. /\ Regular(HeadOf["AcctRequest"]) /\ Len(HeadOf["AcctRequest"]) = 9
        /\ \A i \in 1..9 : HeadOf["AcctRequest"][i].kind = <<"octet", "octet", "octet", "octet", "octet", "len8", "len8", "len8", "count">>[i]
    BY <1>AcctHead
  <2>3. /\ HeadLen["AcctRequest"] = S[9] /\ S[0] = 0
        /\ \A i \in 1..9 : /\ W[i] = IF HeadOf["AcctRequest"][i].kind = "len16" THEN 2 ELSE 1
                           /\ S[i - 1] \in Nat /\ S[i] = S[i - 1] + W[i]
    BY <2>1, <2>2, HeadSums, Zenon DEF Summed
  <2> HIDE DEF W, S
  <2>4. W[1] = 1 /\ W[2] = 1 /\ W[3] = 1 /\ W[4] = 1 /\ W[5] = 1 /\ W[6] = 1 /\ W[7] = 1
          /\ W[8] = 1 /\ W[9] = 1
    BY <2>2, <2>3
  <2>5. S[9] = 9
    BY <2>3, <2>4
  <2> QED BY <2>1, <2>2, <2>3, <2>5
<1>7. Regular(HeadOf["AcctReply"]) /\ HeadLen["AcctReply"] = 5 /\ Layout["AcctReply"].min = 5
  <2> DEFINE W == Widths["AcctReply"]
             S == Sums(W)
  <2>1. "AcctReply" \in BodyType /\ Layout["AcctReply"].min = 5
    BY Layouts DEF AcctReply
  <2>2. /\ Regular(HeadOf["AcctReply"]) /\ Len(HeadOf["AcctReply"]) = 3
        /\ \A i \in 1..3 : HeadOf["AcctReply"][i].kind = <<"len16", "len16", "octet">>[i]
    BY AcctReplyHead
  <2>3. /\ HeadLen["AcctReply"] = S[3] /\ S[0] = 0
        /\ \A i \in 1..3 : /\ W[i] = IF HeadOf["AcctReply"][i].kind = "len16" THEN 2 ELSE 1
                           /\ S[i - 1] \in Nat /\ S[i] = S[i - 1] + W[i]
    BY <2>1, <2>2, HeadSums, Zenon DEF Summed
  <2> HIDE DEF W, S
  <2>4. W[1] = 2 /\ W[2] = 2 /\ W[3] = 1
    BY <2>2, <2>3
  <2>5. S[3] = 5
    BY <2>3, <2>4
  <2> QED BY <2>1, <2>2, <2>3, <2>5
<1> HIDE DEF AuthenStart, AuthenContinue, AuthenReply, AuthorRequest, AuthorReply, AcctRequest,
             AcctReply
<1> QED BY <1>1, <1>2, <1>3, <1>4, <1>5, <1>6, <1>7, Layouts

\* The texts of a body type are its fields with a length, each once.
TextsAre(t) ==
    /\ Texts[t] \in Seq(Fields[t])
    /\ \A k \in 1..Len(Texts[t]) : Kind[t][Texts[t][k]] \in {"len8", "len16"}
    /\ \A k, l \in 1..Len(Texts[t]) : Texts[t][k] = Texts[t][l] => k = l
    /\ \A f \in Fields[t] : Kind[t][f] \in {"len8", "len16"} => \E k \in 1..Len(Texts[t]) : Texts[t][k] = f

LEMMA TextFields ==
    ASSUME NEW t \in BodyType
    PROVE  TextsAre(t)
<1> DEFINE head == HeadOf[t]
           n == Len(head)
           I == {i \in 1..n : head[i].kind \in {"len8", "len16"}}
           K == Keep(head, I)
           X == Texts[t]
<1>1. Regular(head)
  BY HeadLengths
<1>2. n \in Nat /\ Items(t, n)
  BY <1>1, HeadItems
<1>3. /\ Fields[t] = {head[i].field : i \in 1..n}
      /\ \A i \in 1..n : Kind[t][head[i].field] = head[i].kind
  BY <1>2 DEF Items
<1>4. /\ head \in Seq(Range(head))
      /\ \A i, j \in 1..n : head[i].field = head[j].field => i = j
  BY <1>1 DEF Regular
<1>5. X = [k \in 1..Len(K) |-> K[k].field]
  BY Zenon DEF Texts
<1>6. K \in Seq(Range(head)) /\ \E f : Picks(f, K, head, I, n)
  BY <1>4, KeepPicks, Zenon
<1> HIDE DEF head, K, n, X
<1>7. PICK g : Picks(g, K, head, I, n)
  BY <1>6, Zenon
<1> DEFINE m == Len(K)
<1>8. m \in Nat
  BY <1>6
<1>9. /\ g \in [1..m -> 1..n]
      /\ \A j, k \in 1..m : j < k => g[j] < g[k]
      /\ \A k \in 1..m : head[g[k]].kind \in {"len8", "len16"} /\ K[k] = head[g[k]]
      /\ \A i \in 1..n : head[i].kind \in {"len8", "len16"} => \E k \in 1..m : g[k] = i
  BY <1>7 DEF Picks
<1> HIDE DEF m
<1>10. X = [k \in 1..m |-> head[g[k]].field]
  BY <1>5, <1>9 DEF m
<1>11. X \in Seq(Fields[t]) /\ Len(X) = m /\ \A k \in 1..m : X[k] = head[g[k]].field
  BY <1>3, <1>8, <1>9, <1>10
<1>12. ASSUME NEW k \in 1..m
       PROVE  g[k] \in 1..n /\ Kind[t][X[k]] \in {"len8", "len16"}
  <2>1. g[k] \in 1..n
    BY <1>9
  <2>2. X[k] = head[g[k]].field /\ head[g[k]].kind \in {"len8", "len16"}
    BY <1>9, <1>11
  <2>3. Kind[t][head[g[k]].field] = head[g[k]].kind
    BY <1>3, <2>1, Zenon
  <2> QED BY <2>1, <2>2, <2>3
<1>13. ASSUME NEW k \in 1..m, NEW l \in 1..m, X[k] = X[l] PROVE k = l
  <2>1. g[k] \in 1..n /\ g[l] \in 1..n
    BY <1>12
  <2>2. head[g[k]].field = head[g[l]].field
    BY <1>11, <1>13
  <2>3. g[k] = g[l]
    BY <1>4, <2>1, <2>2, Zenon
  <2> QED BY <1>2, <1>8, <1>9, <2>1, <2>3
<1>14. ASSUME NEW f \in Fields[t], Kind[t][f] \in {"len8", "len16"}
       PROVE  \E k \in 1..m : X[k] = f
  BY <1>3, <1>9, <1>11, <1>14
<1> QED BY <1>11, <1>12, <1>13, <1>14 DEF TextsAre, X

(***************************************************************************)
(* Encoding                                                                *)
(***************************************************************************)
\* The parts of an encoding: the items of the head, the lengths of the arguments,
\* and the texts followed by the arguments.
EncodedItems(t, m) ==
    [i \in 1..Len(HeadOf[t]) |-> EncodeItem(HeadOf[t][i], m[HeadOf[t][i].field])]

ArgLengths(t, m) == [i \in 1..Len(ArgsOf(t, m)) |-> Len(ArgsOf(t, m)[i])]

TextsOf(t, m) == [i \in 1..Len(Texts[t]) |-> m[Texts[t][i]]]

PartsOf(t, m) == TextsOf(t, m) \o ArgsOf(t, m)

\* The values of a message, field by field.
LEMMA MessageValues ==
    ASSUME NEW t \in BodyType, NEW m, IsMessage(t, m)
    PROVE  /\ \A i \in 1..Len(HeadOf[t]) :
                 LET x == HeadOf[t][i]
                     v == m[x.field]
                 IN  /\ x.kind = "octet" => v \in Octet
                     /\ x.kind = "count" => v \in Seq(Seq(Octet))
                     /\ x.kind \in {"len8", "len16"} => v \in Seq(Octet)
           /\ ArgsOf(t, m) \in Seq(Seq(Octet))
           /\ TextsOf(t, m) \in Seq(Seq(Octet)) /\ Len(TextsOf(t, m)) = Len(Texts[t])
           /\ \A k \in 1..Len(Texts[t]) : TextsOf(t, m)[k] = m[Texts[t][k]]
<1> DEFINE head == HeadOf[t]
           n == Len(head)
<1>1. Regular(head)
  BY HeadLengths
<1>2. n \in Nat /\ Items(t, n)
  BY <1>1, HeadItems
<1>3. /\ Fields[t] = {head[i].field : i \in 1..n}
      /\ \A i \in 1..n : Kind[t][head[i].field] = head[i].kind
  BY <1>2 DEF Items
<1>4. /\ head \in Seq(Range(head))
      /\ \A i \in 1..n : head[i].kind = "count" <=> head[i].field = "args"
  BY <1>1 DEF Regular
<1> HIDE DEF head, n
<1>5. ASSUME NEW i \in 1..n
      PROVE  LET v == m[head[i].field] IN
             /\ head[i].kind = "octet" => v \in Octet
             /\ head[i].kind = "count" => v \in Seq(Seq(Octet))
             /\ head[i].kind \in {"len8", "len16"} => v \in Seq(Octet)
  <2>1. head[i] \in Range(head)
    BY <1>4, RangeElements DEF n
  <2>2. m[head[i].field] \in ValueOf(head[i].kind)
    BY <2>1, Zenon DEF IsMessage, head
  <2> DEFINE v == m[head[i].field]
             k == head[i].kind
  <2> HIDE DEF v, k
  <2>3. v \in ValueOf(k)
    BY <2>2 DEF v, k
  <2>4. /\ ValueOf("octet") = Octet /\ ValueOf("count") = Seq(Seq(Octet))
        /\ ValueOf("len8") = Seq(Octet) /\ ValueOf("len16") = Seq(Octet)
    BY DEF ValueOf
  <2>5. /\ k = "octet" => v \in Octet
        /\ k = "count" => v \in Seq(Seq(Octet))
        /\ k \in {"len8", "len16"} => v \in Seq(Octet)
    BY <2>3, <2>4, Zenon
  <2> QED BY <2>5 DEF v, k
<1>6. ASSUME NEW f \in Fields[t]
      PROVE  /\ f = "args" => m[f] \in Seq(Seq(Octet))
             /\ Kind[t][f] \in {"len8", "len16"} => m[f] \in Seq(Octet)
  <2>1. PICK i \in 1..n : f = head[i].field
    BY <1>3
  <2> QED BY <1>3, <1>4, <1>5, <2>1, Zenon
<1>7. ArgsOf(t, m) \in Seq(Seq(Octet))
  <2>1. CASE "args" \in Fields[t]
    BY <1>6, <2>1 DEF ArgsOf
  <2>2. CASE "args" \notin Fields[t]
    BY <2>2 DEF ArgsOf
  <2> QED BY <2>1, <2>2
<1>8. /\ TextsOf(t, m) \in Seq(Seq(Octet)) /\ Len(TextsOf(t, m)) = Len(Texts[t])
      /\ \A k \in 1..Len(Texts[t]) : TextsOf(t, m)[k] = m[Texts[t][k]]
  <2> DEFINE X == Texts[t]
  <2>1. X \in Seq(Fields[t]) /\ \A k \in 1..Len(X) : Kind[t][X[k]] \in {"len8", "len16"}
    BY TextFields DEF TextsAre
  <2>2. TextsOf(t, m) = [k \in 1..Len(X) |-> m[X[k]]]
    BY DEF TextsOf
  <2> HIDE DEF X
  <2>3. Len(X) \in Nat /\ \A k \in 1..Len(X) : X[k] \in Fields[t]
    BY <2>1
  <2>4. \A k \in 1..Len(X) : m[X[k]] \in Seq(Octet)
    BY <1>6, <2>1, <2>3, Zenon
  <2>5. [k \in 1..Len(X) |-> m[X[k]]] \in Seq(Seq(Octet))
    BY <2>3, <2>4
  <2> QED BY <2>2, <2>3, <2>5 DEF X
<1> QED BY <1>5, <1>7, <1>8 DEF head, n

LEMMA ValidArgs ==
    ASSUME NEW t \in BodyType, NEW m, Valid(t, m)
    PROVE  \A k \in 1..Len(ArgsOf(t, m)) : ValidArg(ArgsOf(t, m)[k])
<1>1. CASE "args" \in Fields[t]
  <2> DEFINE head == HeadOf[t]
             n == Len(head)
  <2>1. Regular(head)
    BY HeadLengths
  <2>2. n \in Nat /\ Items(t, n)
    BY <2>1, HeadItems
  <2>3. PICK i \in 1..n : head[i].field = "args"
    BY <1>1, <2>2 DEF Items
  <2>4. head[i].kind = "count" /\ head \in Seq(Range(head))
    BY <2>1, <2>3 DEF Regular
  <2>5. head[i] \in Range(head)
    BY <2>4, RangeElements
  <2>6. ValidField(head[i], m["args"])
    BY <2>3, <2>5 DEF Valid
  <2> HIDE DEF head, n
  <2>7. \A k \in 1..Len(m["args"]) : ValidArg(m["args"][k])
    BY <2>4, <2>6 DEF ValidField
  <2> QED BY <1>1, <2>7 DEF ArgsOf
<1>2. CASE "args" \notin Fields[t]
  BY <1>2 DEF ArgsOf
<1> QED BY <1>1, <1>2

LEMMA EncodedHead ==
    \A t \in BodyType : \A m :
        IsMessage(t, m) =>
            /\ EncodedItems(t, m) \in Seq(Seq(Octet))
            /\ Len(EncodedItems(t, m)) = Len(HeadOf[t])
            /\ Measures(Widths[t], EncodedItems(t, m))
            /\ Join(EncodedItems(t, m)) \in Seq(Octet)
            /\ Len(Join(EncodedItems(t, m))) = HeadLen[t]
\* One item of the head has its width.
<1>EncodedItem. ASSUME NEW x, NEW v,
                       x.kind \in {"octet", "len8", "len16", "count"},
                       x.kind = "octet" => v \in Octet,
                       x.kind # "octet" => Len(v) \in Nat
                PROVE  /\ EncodeItem(x, v) \in Seq(Octet)
                       /\ Len(EncodeItem(x, v)) = IF x.kind = "len16" THEN 2 ELSE 1
  <2> USE <1>EncodedItem
  <2>1. CASE x.kind = "octet"
    BY <2>1 DEF EncodeItem
  <2>2. CASE x.kind = "len16"
    <3> DEFINE a == (Len(v) \div 256) % 256
               b == Len(v) % 256
    <3>1. a \in Octet /\ b \in Octet
      BY <2>2, TwoOctets
    <3>2. EncodeItem(x, v) = <<a, b>>
      BY <2>2 DEF EncodeItem
    <3> HIDE DEF a, b
    <3> QED BY <2>2, <3>1, <3>2
  <2>3. CASE x.kind \in {"len8", "count"}
    <3> DEFINE b == Len(v) % 256
    <3>1. b \in Octet
      BY <2>3, TwoOctets
    <3>2. EncodeItem(x, v) = <<b>>
      BY <2>3 DEF EncodeItem
    <3> HIDE DEF b
    <3> QED BY <2>3, <3>1, <3>2
  <2> QED BY <2>1, <2>2, <2>3
<1> SUFFICES ASSUME NEW t \in BodyType, NEW m, IsMessage(t, m)
             PROVE /\ EncodedItems(t, m) \in Seq(Seq(Octet))
                   /\ Len(EncodedItems(t, m)) = Len(HeadOf[t])
                   /\ Measures(Widths[t], EncodedItems(t, m))
                   /\ Join(EncodedItems(t, m)) \in Seq(Octet)
                   /\ Len(Join(EncodedItems(t, m))) = HeadLen[t]
  OBVIOUS
<1> DEFINE head == HeadOf[t]
           n == Len(head)
           E == EncodedItems(t, m)
           v(i) == m[head[i].field]
           W == Widths[t]
<1>1. Regular(head)
  BY HeadLengths
<1>2. n \in Nat /\ Items(t, n)
  BY <1>1, HeadItems
<1>3. \A i \in 1..n : head[i].kind \in {"octet", "len8", "len16", "count"}
  BY <1>1 DEF Regular
<1>4. /\ W \in Seq(Nat) /\ Len(W) = n
      /\ \A i \in 1..n : W[i] = IF head[i].kind = "len16" THEN 2 ELSE 1
      /\ HeadLen[t] = Sums(W)[n]
  BY <1>2 DEF Items
<1>5. ASSUME NEW i \in 1..n
      PROVE  /\ head[i].kind = "octet" => v(i) \in Octet
             /\ head[i].kind # "octet" => Len(v(i)) \in Nat
  <2>1. /\ head[i].kind = "octet" => v(i) \in Octet
        /\ head[i].kind = "count" => v(i) \in Seq(Seq(Octet))
        /\ head[i].kind \in {"len8", "len16"} => v(i) \in Seq(Octet)
    BY MessageValues
  <2> HIDE DEF head, v, n
  <2> QED BY <1>3, <2>1
<1>6. E = [i \in 1..n |-> EncodeItem(head[i], v(i))]
  BY DEF EncodedItems
<1> HIDE DEF head, n, E, v, W
<1>7. ASSUME NEW i \in 1..n
      PROVE  /\ EncodeItem(head[i], v(i)) \in Seq(Octet)
             /\ Len(EncodeItem(head[i], v(i))) = W[i]
  <2> DEFINE x == head[i]
             u == v(i)
  <2>1. /\ x.kind \in {"octet", "len8", "len16", "count"}
        /\ x.kind = "octet" => u \in Octet
        /\ x.kind # "octet" => Len(u) \in Nat
    BY <1>3, <1>5
  <2> HIDE DEF x, u
  <2>2. /\ EncodeItem(x, u) \in Seq(Octet)
        /\ Len(EncodeItem(x, u)) = IF x.kind = "len16" THEN 2 ELSE 1
    BY <2>1, <1>EncodedItem
  <2> QED BY <1>4, <2>2 DEF x, u
<1>8. E \in Seq(Seq(Octet)) /\ Len(E) = n /\ \A i \in 1..n : Len(E[i]) = W[i]
  BY <1>2, <1>6, <1>7
<1>9. Measures(W, E)
  BY <1>4, <1>8 DEF Measures
<1>10. Join(E) = Flat(E)
  BY <1>8, JoinIsFlat
<1>11. Flat(E) \in Seq(Octet) /\ Len(Flat(E)) = Sums(W)[Len(E)]
  BY <1>8, <1>9, FlatIsSeq, FlatPlaces
<1> QED BY <1>4, <1>8, <1>9, <1>10, <1>11 DEF E, n, head, W

\* d is H, then L, then F.
Laid(d, H, L, F) ==
    /\ Len(d) = (Len(H) + Len(L)) + Len(F)
    /\ \A p \in 1..Len(H) : d[p] = H[p]
    /\ \A p \in 1..Len(L) : d[Len(H) + p] = L[p]
    /\ \A p \in 1..Len(F) : d[(Len(H) + Len(L)) + p] = F[p]

LEMMA LaidOut ==
    ASSUME NEW T, NEW H \in Seq(T), NEW L \in Seq(T), NEW F \in Seq(T), NEW d, d = (H \o L) \o F
    PROVE  d \in Seq(T) /\ Laid(d, H, L, F)
<1> DEFINE e == H \o L
           a == Len(H)
           b == Len(L)
           c == Len(F)
<1>1. a \in Nat /\ b \in Nat /\ c \in Nat
  OBVIOUS
<1>2. /\ e \in Seq(T) /\ Len(e) = a + b
      /\ \A p \in 1..a : e[p] = H[p]
      /\ \A p \in 1..b : e[a + p] = L[p]
  BY ConcatParts
<1> HIDE DEF e
<1>3. d = e \o F
  BY DEF e
<1>4. /\ d \in Seq(T) /\ Len(d) = (a + b) + c
      /\ \A p \in 1..(a + b) : d[p] = e[p]
      /\ \A p \in 1..c : d[(a + b) + p] = F[p]
  <2> DEFINE l == a + b
  <2>1. e \in Seq(T) /\ l = Len(e) /\ c = Len(F)
    BY <1>2
  <2> HIDE DEF l, a, b, c
  <2>2. /\ d \in Seq(T) /\ Len(d) = l + c
        /\ \A p \in 1..l : d[p] = e[p]
        /\ \A p \in 1..c : d[l + p] = F[p]
    BY <1>3, <2>1, ConcatParts
  <2> QED BY <2>2, ZenonT(30) DEF l
<1> HIDE DEF a, b, c
<1>5. \A p \in 1..a : d[p] = H[p]
  BY <1>1, <1>2, <1>4
<1>6. \A p \in 1..b : d[a + p] = L[p]
  BY <1>1, <1>2, <1>4
<1> QED BY <1>4, <1>5, <1>6 DEF Laid, a, b, c

\* The octets of an encoding.
LEMMA Encoded ==
    ASSUME NEW t \in BodyType, NEW m, IsMessage(t, m), Valid(t, m)
    PROVE  /\ ArgLengths(t, m) \in Seq(Octet)
           /\ Len(ArgLengths(t, m)) = Len(ArgsOf(t, m))
           /\ PartsOf(t, m) \in Seq(Seq(Octet))
           /\ Flat(PartsOf(t, m)) \in Seq(Octet)
           /\ MarshalBinary(t, m) \in Seq(Octet)
           /\ Laid(MarshalBinary(t, m), Join(EncodedItems(t, m)), ArgLengths(t, m),
                   Flat(PartsOf(t, m)))
<1> DEFINE A == ArgsOf(t, m)
           X == TextsOf(t, m)
           L == ArgLengths(t, m)
           H == Join(EncodedItems(t, m))
           P == X \o A
<1>1. A \in Seq(Seq(Octet)) /\ X \in Seq(Seq(Octet))
  BY MessageValues
<1>2. H \in Seq(Octet)
  BY EncodedHead
<1>3. \A k \in 1..Len(A) : ValidArg(A[k])
  BY ValidArgs
<1>4. L = [k \in 1..Len(A) |-> Len(A[k])]
  BY DEF ArgLengths
<1>5. MarshalBinary(t, m) = H \o L \o Join(X) \o Join(A)
  BY Zenon DEF MarshalBinary, EncodedItems, ArgLengths, TextsOf
<1>6. PartsOf(t, m) = P
  BY DEF PartsOf
<1> HIDE DEF A, X, L, H
<1>7. L \in Seq(Octet) /\ Len(L) = Len(A)
  <2>1. ASSUME NEW k \in 1..Len(A) PROVE Len(A[k]) \in Octet
    <3> DEFINE z == Len(A[k])
    <3>1. z \in 2..255
      BY <1>3 DEF ValidArg
    <3> HIDE DEF z
    <3>2. z \in Octet
      BY <3>1, OctetRange, SMT
    <3> QED BY <3>2 DEF z
  <2>2. Len(A) \in Nat
    BY <1>1
  <2> QED BY <1>4, <2>1, <2>2
<1>8. P \in Seq(Seq(Octet)) /\ Flat(P) \in Seq(Octet)
  <2>1. P \in Seq(Seq(Octet))
    BY <1>1
  <2> HIDE DEF P
  <2> QED BY <2>1, FlatIsSeq
<1>9. Join(X) = Flat(X) /\ Join(A) = Flat(A)
  BY <1>1, JoinIsFlat
<1>10. Flat(P) = Flat(X) \o Flat(A)
  BY <1>1, FlatConcat
<1>11. Flat(X) \in Seq(Octet) /\ Flat(A) \in Seq(Octet)
  BY <1>1, FlatIsSeq
<1> DEFINE x == Flat(X)
           a == Flat(A)
           d == MarshalBinary(t, m)
           F == Flat(P)
<1> HIDE DEF x, a, d, F, P
<1>12. d = ((H \o L) \o x) \o a /\ F = x \o a /\ x \in Seq(Octet) /\ a \in Seq(Octet)
  BY <1>5, <1>9, <1>10, <1>11, Zenon DEF d, F, x, a
<1>13. H \o L \in Seq(Octet)
  BY <1>2, <1>7
<1>14. d = (H \o L) \o F
  <2> DEFINE y == H \o L
  <2>1. d = (y \o x) \o a /\ y \in Seq(Octet)
    BY <1>12, <1>13
  <2> HIDE DEF y
  <2>2. d = y \o (x \o a)
    BY <1>12, <2>1, ConcatAssociative
  <2> QED BY <1>12, <2>2, Zenon DEF y
<1>15. F \in Seq(Octet)
  BY <1>8 DEF F
<1>16. d \in Seq(Octet) /\ Laid(d, H, L, F)
  BY <1>2, <1>7, <1>14, <1>15, LaidOut, Zenon
<1> QED BY <1>6, <1>7, <1>8, <1>15, <1>16, Zenon DEF d, H, L, F, A

(***************************************************************************)
(* Decoding                                                                *)
(***************************************************************************)
\* What is read of an item of the head.
ItemRead(x, v) ==
    IF x.kind = "octet" THEN v
    ELSE IF x.kind = "len16" THEN 256 * ((Len(v) \div 256) % 256) + (Len(v) % 256)
    ELSE Len(v) % 256

\* The lengths of the texts and of the arguments.
PartLengths(t, m) == [i \in 1..Len(PartsOf(t, m)) |-> Len(PartsOf(t, m)[i])]

\* The texts and the arguments of a message, in the order of its body.
PartsAre(t, m) ==
    LET P == PartsOf(t, m)
        k == Len(Texts[t])
    IN  /\ P \in Seq(Seq(Octet)) /\ Measures(PartLengths(t, m), P)
        /\ k \in Nat /\ Len(ArgsOf(t, m)) \in Nat /\ Len(P) = k + Len(ArgsOf(t, m))
        /\ \A i \in 1..k : P[i] = m[Texts[t][i]]
        /\ \A i \in 1..Len(ArgsOf(t, m)) : P[k + i] = ArgsOf(t, m)[i]

LEMMA PartsMeasured ==
    ASSUME NEW t \in BodyType, NEW m, IsMessage(t, m)
    PROVE  PartsAre(t, m)
<1> DEFINE X == TextsOf(t, m)
           A == ArgsOf(t, m)
           P == PartsOf(t, m)
           k == Len(Texts[t])
           l == Len(A)
<1>1. /\ X \in Seq(Seq(Octet)) /\ Len(X) = k /\ A \in Seq(Seq(Octet))
      /\ \A i \in 1..k : X[i] = m[Texts[t][i]]
  BY MessageValues
<1>2. P = X \o A
  BY DEF PartsOf
<1>3. PartLengths(t, m) = [i \in 1..Len(P) |-> Len(P[i])]
  BY DEF PartLengths
<1> HIDE DEF X, A, P, k, l
<1>4. l = Len(A) /\ k = Len(X) /\ X \in Seq(Seq(Octet)) /\ A \in Seq(Seq(Octet))
  BY <1>1 DEF l
<1>5. /\ P \in Seq(Seq(Octet)) /\ Len(P) = k + l
      /\ \A i \in 1..k : P[i] = X[i]
      /\ \A i \in 1..l : P[k + i] = A[i]
  <2> DEFINE T == Seq(Octet)
  <2>1. X \in Seq(T) /\ A \in Seq(T)
    BY <1>4
  <2> HIDE DEF T
  <2>2. /\ P \in Seq(T) /\ Len(P) = k + l
        /\ \A i \in 1..k : P[i] = X[i]
        /\ \A i \in 1..l : P[k + i] = A[i]
    BY <1>2, <1>4, <2>1, ConcatParts
  <2> QED BY <2>2 DEF T
<1>6. k \in Nat /\ l \in Nat
  BY <1>1, <1>4
<1>7. \A i \in 1..Len(P) : Len(P[i]) \in Nat
  BY <1>5
<1>8. Measures([i \in 1..Len(P) |-> Len(P[i])], P)
  <2> DEFINE lens == [i \in 1..Len(P) |-> Len(P[i])]
  <2>1. Len(P) \in Nat
    BY <1>5
  <2>2. lens \in Seq(Nat) /\ Len(lens) = Len(P)
    BY <1>7, <2>1
  <2>3. \A i \in 1..Len(P) : Len(P[i]) = lens[i]
    OBVIOUS
  <2> HIDE DEF lens
  <2>4. Measures(lens, P)
    BY <2>2, <2>3 DEF Measures
  <2> QED BY <2>4 DEF lens
<1> QED BY <1>1, <1>3, <1>5, <1>6, <1>8 DEF PartsAre, X, A, P, k, l

\* A message that its encoding keeps whole.
Fits(t, m) ==
    IsMessage(t, m) /\ Valid(t, m) /\ Narrow(t, m) /\ Len(MarshalBinary(t, m)) <= MaxBodyLength

\* What is read of a text that is there.
LEMMA StringRead ==
    ASSUME NEW T, NEW d \in Seq(T), NEW p \in Nat, NEW n \in Nat, p + n <= Len(d)
    PROVE  /\ ReadString(d, p, n) \in Seq(T) /\ Len(ReadString(d, p, n)) = n
           /\ \A j \in 1..n : ReadString(d, p, n)[j] = d[p + j]
<1> DEFINE b == IF p + n < Len(d) THEN p + n ELSE Len(d)
           u == SubSeq(d, p + 1, p + n)
<1>1. Len(d) \in Nat
  OBVIOUS
<1>2. b = p + n
  BY <1>1
<1>3. ReadString(d, p, n) = SubSeq(d, p + 1, b)
  BY DEF ReadString
<1> HIDE DEF b
<1>4. ReadString(d, p, n) = u
  BY <1>2, <1>3
<1>5. p \in 0..Len(d) /\ p + n \in 0..Len(d) /\ p <= p + n /\ (p + n) - p = n
  BY <1>1
<1>6. u \in Seq(T) /\ Len(u) = (p + n) - p /\ \A j \in 1..((p + n) - p) : u[j] = d[p + j]
  BY <1>5, SubSeqParts, Zenon
<1> HIDE DEF u
<1> QED BY <1>4, <1>5, <1>6, Zenon

\* A message whose texts and arguments fit their lengths, and which Validate accepts,
\* is decoded to itself: what UnmarshalBinary makes of the octets of MarshalBinary is
\* that message, for each of the seven bodies.
THEOREM DecodesToItself ==
    \A t \in BodyType : \A m :
        Fits(t, m) =>
            /\ UnmarshalBinary(t, MarshalBinary(t, m)) = {m}
            /\ ~ShortBody(t, MarshalBinary(t, m))
<1>HeadRead. ASSUME NEW t \in BodyType, NEW m, IsMessage(t, m),
                    NEW d \in Seq(Octet), Begins(Join(EncodedItems(t, m)), d),
                    NEW i \in 1..Len(HeadOf[t])
             PROVE  ReadItem(t, HeadOf[t][i].field, d) = ItemRead(HeadOf[t][i], m[HeadOf[t][i].field])
  <2> USE <1>HeadRead
  <2> DEFINE head == HeadOf[t]
             n == Len(head)
             E == EncodedItems(t, m)
             W == Widths[t]
             S == Sums(W)
             x == head[i]
             v == m[x.field]
             o == S[i - 1]
             H == Flat(E)
  <2>1. Regular(head)
    BY HeadLengths
  <2>2. n \in Nat /\ Items(t, n)
    BY <2>1, HeadItems
  <2>3. /\ W \in Seq(Nat) /\ Len(W) = n /\ W[i] = IF x.kind = "len16" THEN 2 ELSE 1
        /\ Kind[t][x.field] = x.kind /\ Offset[t][x.field] = o
    BY <2>2 DEF Items
  <2>4. /\ E \in Seq(Seq(Octet)) /\ Len(E) = n /\ Measures(W, E)
    BY EncodedHead
  <2>5. Join(E) = H
    BY <2>4, JoinIsFlat
  <2>6. E[i] = EncodeItem(x, v)
    BY DEF EncodedItems
  <2>7. x.kind \in {"octet", "len8", "len16", "count"}
    BY <2>1 DEF Regular
  <2> HIDE DEF head, n, E, W, v, x
  <2>8. Begins(H, d)
    BY <2>5 DEF E
  <2>9. /\ S \in [0..n -> Nat] /\ \A j \in 1..n : S[j] = S[j - 1] + W[j]
    BY <2>3, SumsSteps, Zenon
  <2>10. /\ Len(H) = S[n] /\ S[i] <= S[n]
         /\ \A j \in 1..W[i] : H[S[i - 1] + j] = E[i][j]
    <3>1. i \in 1..Len(E)
      BY <2>4 DEF n, head
    <3>2. /\ Len(H) = S[Len(E)] /\ S[i] <= S[Len(E)]
          /\ \A j \in 1..W[i] : H[S[i - 1] + j] = E[i][j]
      BY <2>4, <3>1, FlatPlaces
    <3> QED BY <2>4, <3>2, Zenon
  <2> HIDE DEF S
  <2>11. o \in Nat /\ i \in 1..n /\ S[n] \in Nat
    <3>1. i \in 1..n
      BY DEF n, head
    <3>2. i - 1 \in 0..n /\ n \in 0..n
      BY <2>2, <3>1
    <3> QED BY <2>9, <3>1, <3>2, Zenon
  <2>12. /\ o + W[i] <= Len(H) /\ Len(H) \in Nat /\ \A j \in 1..W[i] : H[o + j] = E[i][j]
    BY <2>9, <2>10, <2>11
  <2> HIDE DEF H, o
  <2>13. /\ o + W[i] <= Len(d) /\ \A j \in 1..W[i] : d[o + j] = E[i][j]
    <3>1. W[i] \in Nat
      BY <2>3
    <3>2. Len(H) <= Len(d) /\ \A p \in 1..Len(H) : d[p] = H[p]
      BY <2>8 DEF Begins
    <3>3. Len(d) \in Nat
      OBVIOUS
    <3>4. o + W[i] <= Len(d)
      BY <2>11, <2>12, <3>1, <3>2, <3>3
    <3>5. ASSUME NEW j \in 1..W[i] PROVE d[o + j] = E[i][j]
      <4>1. o + j \in 1..Len(H)
        BY <2>11, <2>12, <3>1
      <4> QED BY <2>12, <3>2, <4>1
    <3> QED BY <3>4, <3>5
  <2>14. Len(d) \in Nat
    OBVIOUS
  <2>15. ReadItem(t, x.field, d) = IF x.kind = "len16" THEN ReadUint16(d, o) ELSE ReadInt(d, o)
    BY <2>3 DEF ReadItem
  <2>16. CASE x.kind = "len16"
    <3>1. EncodeItem(x, v) = <<(Len(v) \div 256) % 256, Len(v) % 256>>
      BY <2>16 DEF EncodeItem
    <3>2. W[i] = 2 /\ d[o + 1] = (Len(v) \div 256) % 256 /\ d[o + 2] = Len(v) % 256
      BY <2>3, <2>6, <2>13, <2>16, <3>1
    <3>3. o + 1 < Len(d)
      BY <2>11, <2>13, <2>14, <3>2
    <3>4. ReadUint16(d, o) = 256 * d[o + 1] + d[o + 2]
      BY <3>3 DEF ReadUint16
    <3> QED BY <2>15, <2>16, <3>2, <3>4 DEF ItemRead, x, v, head
  <2>17. CASE x.kind = "octet"
    <3>1. EncodeItem(x, v) = <<v>>
      BY <2>17 DEF EncodeItem
    <3>2. W[i] = 1 /\ d[o + 1] = v
      BY <2>3, <2>6, <2>13, <2>17, <3>1
    <3>3. o < Len(d)
      BY <2>11, <2>13, <2>14, <3>2
    <3>4. ReadInt(d, o) = v
      BY <3>2, <3>3 DEF ReadInt
    <3> QED BY <2>15, <2>17, <3>4 DEF ItemRead, x, v, head
  <2>18. CASE x.kind \in {"len8", "count"}
    <3>1. EncodeItem(x, v) = <<Len(v) % 256>>
      BY <2>18 DEF EncodeItem
    <3>2. W[i] = 1 /\ d[o + 1] = Len(v) % 256
      BY <2>3, <2>6, <2>13, <2>18, <3>1
    <3>3. o < Len(d)
      BY <2>11, <2>13, <2>14, <3>2
    <3>4. ReadInt(d, o) = Len(v) % 256
      BY <3>2, <3>3 DEF ReadInt
    <3> QED BY <2>15, <2>18, <3>4, Zenon DEF ItemRead, x, v, head
  <2> QED BY <2>7, <2>16, <2>17, <2>18
\* A text is no longer than the texts and arguments together.
<1>TextFits. ASSUME NEW t \in BodyType, NEW m, IsMessage(t, m), NEW f \in Fields[t],
                    Kind[t][f] \in {"len8", "len16"}
             PROVE  Len(m[f]) \in Nat /\ Len(m[f]) <= Len(Flat(PartsOf(t, m)))
  <2> USE <1>TextFits
  <2> DEFINE P == PartsOf(t, m)
             k == Len(Texts[t])
             lens == PartLengths(t, m)
             S == Sums(lens)
  <2>1. PICK i \in 1..k : Texts[t][i] = f
    BY TextFields DEF TextsAre
  <2>2. /\ P \in Seq(Seq(Octet)) /\ Measures(lens, P)
        /\ k \in Nat /\ Len(ArgsOf(t, m)) \in Nat /\ Len(P) = k + Len(ArgsOf(t, m))
        /\ P[i] = m[f]
    BY <2>1, PartsMeasured DEF PartsAre
  <2> HIDE DEF P, k, lens
  <2>3. i \in 1..Len(P)
    BY <2>2
  <2>4. lens \in Seq(Nat) /\ Len(lens) = Len(P) /\ Len(P[i]) = lens[i]
    BY <2>2, <2>3 DEF Measures
  <2>5. Len(Flat(P)) = S[Len(P)] /\ S[i] <= S[Len(P)]
    BY <2>2, <2>3, FlatPlaces, Zenon
  <2>6. S \in [0..Len(P) -> Nat] /\ S[i] = S[i - 1] + lens[i]
    BY <2>3, <2>4, SumsSteps
  <2> HIDE DEF S
  <2>7. S[i - 1] \in Nat /\ S[Len(P)] \in Nat /\ lens[i] \in Nat
    <3>1. Len(P) \in Nat
      BY <2>2
    <3>2. i - 1 \in 0..Len(P) /\ Len(P) \in 0..Len(P)
      BY <2>3, <3>1
    <3>3. lens[i] \in Nat
      BY <2>3, <2>4
    <3> QED BY <2>6, <3>2, <3>3
  <2>8. lens[i] <= Len(Flat(P))
    BY <2>5, <2>6, <2>7
  <2> QED BY <2>2, <2>4, <2>7, <2>8 DEF P
<1>ReadBack. ASSUME NEW t \in BodyType, NEW m, Fits(t, m), NEW f \in Fields[t]
             PROVE  /\ Kind[t][f] \in {"octet", "len8", "len16", "count"}
                    /\ ReadItem(t, f, MarshalBinary(t, m)) = IF Kind[t][f] = "octet" THEN m[f] ELSE Len(m[f])
  <2> USE <1>ReadBack
  <2> DEFINE head == HeadOf[t]
             n == Len(head)
             d == MarshalBinary(t, m)
             H == Join(EncodedItems(t, m))
             L == ArgLengths(t, m)
             F == Flat(PartsOf(t, m))
  <2>1. IsMessage(t, m) /\ Valid(t, m) /\ Narrow(t, m) /\ Len(d) <= MaxBodyLength
    BY Zenon DEF Fits
  <2>2. Regular(head)
    BY HeadLengths
  <2>3. n \in Nat /\ Items(t, n)
    BY <2>2, HeadItems
  <2>4. PICK i \in 1..n : f = head[i].field /\ Kind[t][f] = head[i].kind
    BY <2>3, Zenon DEF Items
  <2> DEFINE x == head[i]
             v == m[f]
  <2>5. x.kind \in {"octet", "len8", "len16", "count"} /\ head \in Seq(Range(head))
    BY <2>2 DEF Regular
  <2>6. H \in Seq(Octet) /\ Len(H) = HeadLen[t]
    BY <2>1, EncodedHead
  <2>7. /\ L \in Seq(Octet) /\ F \in Seq(Octet) /\ d \in Seq(Octet) /\ Laid(d, H, L, F)
    BY <2>1, Encoded
  <2>8. HeadLen[t] \in Nat /\ 5 <= HeadLen[t]
    BY HeadLengths
  <2> HIDE DEF d, H, L, F
  <2>9. Len(H) \in Nat /\ Len(L) \in Nat /\ Len(F) \in Nat /\ Len(d) \in Nat
    BY <2>6, <2>7
  <2>10. Len(d) = (Len(H) + Len(L)) + Len(F) /\ \A p \in 1..Len(H) : d[p] = H[p]
    BY <2>7 DEF Laid
  <2>11. Begins(H, d)
    BY <2>9, <2>10 DEF Begins
  <2>12. ReadItem(t, f, d) = ItemRead(x, v)
    <3>1. IsMessage(t, m) /\ d \in Seq(Octet) /\ Begins(Join(EncodedItems(t, m)), d)
      BY <2>1, <2>7, <2>11 DEF H
    <3>2. ReadItem(t, x.field, d) = ItemRead(x, m[x.field])
      BY <3>1, <1>HeadRead
    <3> QED BY <2>4, <3>2
  <2>13. x \in Range(head)
    BY <2>5, RangeElements
  <2>14. x.kind \in {"len8", "count"} => Len(v) < 256
    BY <2>1, <2>4, <2>13 DEF Narrow
  <2>15. /\ x.kind = "count" => v \in Seq(Seq(Octet))
         /\ x.kind \in {"len8", "len16"} => v \in Seq(Octet)
    BY <2>1, <2>4, MessageValues
  <2>16. x.kind # "octet" => Len(v) \in Nat
    BY <2>5, <2>15
  <2>17. ASSUME x.kind = "len16" PROVE Len(v) <= Len(F)
    <3>1. Kind[t][f] \in {"len8", "len16"}
      BY <2>4, <2>17
    <3> QED BY <2>1, <3>1, <1>TextFits DEF F
  <2> HIDE DEF v, x
  <2>18. CASE x.kind = "octet"
    BY <2>4, <2>5, <2>12, <2>18 DEF ItemRead, d, v, x
  <2>19. CASE x.kind = "len16"
    <3>1. Len(v) \in Nat /\ Len(v) < 65536
      BY <2>1, <2>6, <2>8, <2>9, <2>10, <2>16, <2>17, <2>19, SMT DEF MaxBodyLength
    <3>2. 256 * ((Len(v) \div 256) % 256) + (Len(v) % 256) = Len(v)
      BY <3>1, TwoOctets, SMT
    <3> QED BY <2>4, <2>5, <2>12, <2>19, <3>2, ZenonT(30) DEF ItemRead, d, v, x
  <2>20. CASE x.kind \in {"len8", "count"}
    <3>1. Len(v) \in Nat /\ Len(v) < 256
      BY <2>14, <2>16, <2>20
    <3>2. Len(v) % 256 = Len(v)
      BY <3>1
    <3> QED BY <2>4, <2>5, <2>12, <2>20, <3>2, Zenon DEF ItemRead, d, v, x
  <2> QED BY <2>5, <2>18, <2>19, <2>20
<1>LengthsBack. ASSUME NEW t \in BodyType, NEW m, Fits(t, m)
                PROVE  /\ ArgCount(t, MarshalBinary(t, m)) = Len(ArgsOf(t, m))
                       /\ Lengths(t, MarshalBinary(t, m)) = PartLengths(t, m)
  <2> USE <1>LengthsBack
  <2> DEFINE d == MarshalBinary(t, m)
             X == Texts[t]
             A == ArgsOf(t, m)
             P == PartsOf(t, m)
             k == Len(X)
             l == Len(A)
             h == HeadLen[t]
             lens == PartLengths(t, m)
             H == Join(EncodedItems(t, m))
             L == ArgLengths(t, m)
             F == Flat(P)
  <2>1. IsMessage(t, m) /\ Valid(t, m)
    BY Zenon DEF Fits
  <2>2. ArgCount(t, d) = l
    <3>1. CASE "args" \in Fields[t]
      <4>1. Kind[t]["args"] # "octet"
        <5>1. Regular(HeadOf[t])
          BY HeadLengths
        <5>2. Items(t, Len(HeadOf[t]))
          BY <5>1, HeadItems
        <5>3. PICK i \in 1..Len(HeadOf[t]) : HeadOf[t][i].field = "args" /\ Kind[t]["args"] = HeadOf[t][i].kind
          BY <3>1, <5>2, Zenon DEF Items
        <5> QED BY <5>1, <5>3 DEF Regular
      <4>2. ReadItem(t, "args", d) = Len(m["args"])
        BY <3>1, <4>1, <1>ReadBack
      <4> QED BY <3>1, <4>2 DEF ArgCount, ArgsOf
    <3>2. CASE "args" \notin Fields[t]
      BY <3>2 DEF ArgCount, ArgsOf
    <3> QED BY <3>1, <3>2
  <2>3. /\ P \in Seq(Seq(Octet)) /\ Measures(lens, P)
        /\ k \in Nat /\ l \in Nat /\ Len(P) = k + l
        /\ \A i \in 1..k : P[i] = m[X[i]]
        /\ \A i \in 1..l : P[k + i] = A[i]
    <3>1. PartsAre(t, m)
      BY <2>1, PartsMeasured, Zenon
    <3> QED BY <3>1, Zenon DEF PartsAre
  <2>4. Lengths(t, d) = [i \in 1..k |-> ReadItem(t, X[i], d)] \o [i \in 1..l |-> ReadInt(d, h + i - 1)]
    BY <2>2 DEF Lengths
  <2>5. X \in Seq(Fields[t]) /\ \A i \in 1..k : Kind[t][X[i]] \in {"len8", "len16"}
    BY TextFields DEF TextsAre
  <2>6. \A i \in 1..k : ReadItem(t, X[i], d) = Len(m[X[i]])
    BY <2>5, <1>ReadBack
  <2>7. H \in Seq(Octet) /\ Len(H) = h
    BY <2>1, EncodedHead
  <2>8. /\ L \in Seq(Octet) /\ Len(L) = l /\ F \in Seq(Octet) /\ d \in Seq(Octet) /\ Laid(d, H, L, F)
    BY <2>1, Encoded
  <2>9. L = [i \in 1..l |-> Len(A[i])]
    BY DEF ArgLengths
  <2> HIDE DEF d, X, A, P, k, l, h, lens, H, L, F
  <2>10. lens \in Seq(Nat) /\ Len(lens) = k + l /\ \A i \in 1..(k + l) : lens[i] = Len(P[i])
    BY <2>3 DEF Measures
  <2>11. h \in Nat /\ Len(d) = (h + l) + Len(F) /\ Len(F) \in Nat /\ \A p \in 1..l : d[h + p] = L[p]
    BY <2>7, <2>8 DEF Laid
  <2>12. ASSUME NEW i \in 1..l PROVE ReadInt(d, h + i - 1) = Len(A[i])
    <3>1. h + i - 1 < Len(d) /\ h + i - 1 + 1 = h + i
      BY <2>3, <2>11
    <3>2. d[h + i] = L[i] /\ L[i] = Len(A[i])
      BY <2>9, <2>11
    <3> QED BY <3>1, <3>2 DEF ReadInt
  <2> DEFINE u == [i \in 1..k |-> ReadItem(t, X[i], d)]
             v == [i \in 1..l |-> ReadInt(d, h + i - 1)]
             w == Lengths(t, d)
  <2>13. k \in Nat /\ l \in Nat
    BY <2>3
  <2>14. ASSUME NEW i \in 1..(k + l) PROVE lens[i] \in Nat /\ lens[i] = Len(P[i])
    BY <2>10
  <2>15. u \in Seq(Nat) /\ Len(u) = k /\ \A i \in 1..k : u[i] = lens[i]
    <3>1. ASSUME NEW i \in 1..k PROVE ReadItem(t, X[i], d) = lens[i] /\ lens[i] \in Nat
      <4>1. i \in 1..(k + l)
        BY <2>13
      <4> QED BY <2>3, <2>6, <2>14, <4>1, Zenon
    <3> QED BY <2>13, <3>1
  <2>16. v \in Seq(Nat) /\ Len(v) = l /\ \A i \in 1..l : v[i] = lens[k + i]
    <3>1. ASSUME NEW i \in 1..l PROVE ReadInt(d, h + i - 1) = lens[k + i] /\ lens[k + i] \in Nat
      <4>1. k + i \in 1..(k + l)
        BY <2>13
      <4>2. lens[k + i] \in Nat /\ lens[k + i] = Len(P[k + i])
        BY <2>14, <4>1
      <4>3. P[k + i] = A[i] /\ ReadInt(d, h + i - 1) = Len(A[i])
        BY <2>3, <2>12
      <4> QED BY <4>2, <4>3
    <3> QED BY <2>13, <3>1
  <2> HIDE DEF u, v, w
  <2>17. w = u \o v /\ k = Len(u) /\ l = Len(v)
    BY <2>4, <2>15, <2>16, Zenon DEF u, v, w
  <2>18. /\ w \in Seq(Nat) /\ Len(w) = k + l
         /\ \A i \in 1..k : w[i] = u[i]
         /\ \A i \in 1..l : w[k + i] = v[i]
    <3>1. u \in Seq(Nat) /\ v \in Seq(Nat)
      BY <2>15, <2>16
    <3> QED BY <2>17, <3>1, ConcatParts
  <2>19. ASSUME NEW i \in 1..(k + l) PROVE w[i] = lens[i]
    <3>1. CASE i \in 1..k
      BY <2>15, <2>18, <3>1
    <3>2. CASE i \notin 1..k
      <4>1. i - k \in 1..l /\ k + (i - k) = i
        BY <2>3, <3>2
      <4> QED BY <2>16, <2>18, <4>1
    <3> QED BY <3>1, <3>2
  <2>20. w = lens
    <3>1. Len(w) = Len(lens) /\ Len(w) = k + l /\ w \in Seq(Nat) /\ lens \in Seq(Nat)
      BY <2>10, <2>18
    <3> QED BY <2>19, <3>1, SeqEqual, Zenon
  <2> QED BY <2>2, <2>20 DEF w, lens, d, l, A
<1>PiecesBack. ASSUME NEW t \in BodyType, NEW m, Fits(t, m)
               PROVE  /\ Len(MarshalBinary(t, m)) >= Layout[t].min
                      /\ ~ShortBody(t, MarshalBinary(t, m))
                      /\ Pieces(t, MarshalBinary(t, m)) = PartsOf(t, m)
  <2> USE <1>PiecesBack
  <2> DEFINE d == MarshalBinary(t, m)
             P == PartsOf(t, m)
             l == Len(ArgsOf(t, m))
             h == HeadLen[t]
             q == h + l
             lens == PartLengths(t, m)
             S == Sums(lens)
             n == Len(P)
             H == Join(EncodedItems(t, m))
             L == ArgLengths(t, m)
             F == Flat(P)
  <2>1. IsMessage(t, m) /\ Valid(t, m)
    BY Zenon DEF Fits
  <2>2. ArgCount(t, d) = l /\ Lengths(t, d) = lens
    BY <1>LengthsBack
  <2>3. P \in Seq(Seq(Octet)) /\ Measures(lens, P) /\ l \in Nat
    BY <2>1, PartsMeasured DEF PartsAre
  <2>4. H \in Seq(Octet) /\ Len(H) = h
    BY <2>1, EncodedHead
  <2>5. /\ L \in Seq(Octet) /\ Len(L) = l /\ F \in Seq(Octet) /\ d \in Seq(Octet) /\ Laid(d, H, L, F)
    BY <2>1, Encoded
  <2>6. h \in Nat /\ Layout[t].min \in Nat /\ Layout[t].min <= h
    BY HeadLengths
  <2>7. TextStart(t, d) = q
    BY <2>2 DEF TextStart
  <2>8. Pieces(t, d) = [i \in 1..Len(lens) |-> ReadString(d, q + S[i - 1], lens[i])]
    BY <2>2, <2>7 DEF Pieces
  <2> HIDE DEF d, P, l, h, lens, H, L, F
  <2>9. lens \in Seq(Nat) /\ Len(lens) = n /\ \A i \in 1..n : Len(P[i]) = lens[i]
    BY <2>3 DEF Measures
  <2>10. /\ S \in [0..n -> Nat] /\ \A i \in 1..n : S[i] = S[i - 1] + lens[i]
    BY <2>9, SumsSteps
  <2>11. /\ Len(F) = S[n]
         /\ \A i \in 1..n : S[i] <= S[n] /\ \A j \in 1..lens[i] : F[S[i - 1] + j] = P[i][j]
    BY <2>3, FlatPlaces DEF F
  <2>12. Len(d) = q + Len(F) /\ \A p \in 1..Len(F) : d[q + p] = F[p]
    BY <2>4, <2>5 DEF Laid
  <2>13. q \in Nat /\ Len(d) \in Nat /\ Len(F) \in Nat /\ n \in Nat
    BY <2>3, <2>5, <2>6
  <2>14. Len(d) >= Layout[t].min
    BY <2>3, <2>6, <2>12, <2>13
  <2> HIDE DEF q, S, n
  <2>15. TextLen(t, d) = Len(F)
    BY <2>7, <2>12, <2>13 DEF TextLen
  <2>16. Sum(Lengths(t, d)) = Len(F)
    BY <2>2, <2>9, <2>11 DEF Sum, S
  <2>17. ~ShortBody(t, d)
    BY <2>13, <2>15, <2>16 DEF ShortBody
  <2>18. ASSUME NEW i \in 1..n
         PROVE  ReadString(d, q + S[i - 1], lens[i]) = P[i]
    <3> DEFINE p == q + S[i - 1]
               r == ReadString(d, p, lens[i])
    <3>1. S[i - 1] \in Nat /\ S[n] \in Nat /\ lens[i] \in Nat
      <4>1. i - 1 \in 0..n /\ n \in 0..n
        BY <2>13
      <4>2. S[i - 1] \in Nat /\ S[n] \in Nat
        BY <2>10, <4>1
      <4>3. lens[i] \in Nat
        BY <2>9
      <4> QED BY <4>2, <4>3
    <3>2. S[i - 1] + lens[i] <= Len(F)
      BY <2>10, <2>11, <3>1
    <3>3. p \in Nat /\ p + lens[i] <= Len(d)
      BY <2>12, <2>13, <3>1, <3>2
    <3> HIDE DEF p
    <3>4. r \in Seq(Octet) /\ Len(r) = lens[i] /\ \A j \in 1..lens[i] : r[j] = d[p + j]
      BY <2>5, <3>1, <3>3, StringRead, ZenonT(30)
    <3> HIDE DEF r
    <3>5. ASSUME NEW j \in 1..lens[i] PROVE r[j] = P[i][j]
      <4>1. S[i - 1] + j \in 1..Len(F) /\ q + (S[i - 1] + j) = p + j
        BY <2>13, <3>1, <3>2 DEF p
      <4>2. d[q + (S[i - 1] + j)] = F[S[i - 1] + j] /\ F[S[i - 1] + j] = P[i][j]
        BY <2>11, <2>12, <4>1
      <4> QED BY <3>4, <4>1, <4>2
    <3>6. P[i] \in Seq(Octet) /\ Len(P[i]) = lens[i]
      BY <2>3, <2>9 DEF n
    <3>7. r = P[i]
      BY <3>4, <3>5, <3>6, SeqEqual
    <3> QED BY <3>7 DEF r, p
  <2>19. Pieces(t, d) = P
    <3>1. Pieces(t, d) = [i \in 1..n |-> P[i]]
      BY <2>8, <2>9, <2>18
    <3>2. P = [i \in 1..n |-> P[i]]
      BY <2>3 DEF n
    <3> QED BY <3>1, <3>2
  <2> QED BY <2>14, <2>17, <2>19 DEF d, P
<1> SUFFICES ASSUME NEW t \in BodyType, NEW m, Fits(t, m)
             PROVE /\ UnmarshalBinary(t, MarshalBinary(t, m)) = {m}
                   /\ ~ShortBody(t, MarshalBinary(t, m))
  OBVIOUS
<1> DEFINE d == MarshalBinary(t, m)
           P == PartsOf(t, m)
           X == Texts[t]
           k == Len(X)
           A == ArgsOf(t, m)
           l == Len(A)
           a == Assembled(t, d, P)
           value(f) == CASE Kind[t][f] = "octet" -> ReadItem(t, f, d)
                         [] Kind[t][f] = "count" -> SubSeq(P, k + 1, Len(P))
                         [] OTHER -> P[CHOOSE i \in 1..k : X[i] = f]
<1>1. IsMessage(t, m) /\ Valid(t, m)
  BY Zenon DEF Fits
<1>2. Len(d) >= Layout[t].min /\ ~ShortBody(t, d) /\ Pieces(t, d) = P
  BY <1>PiecesBack
<1>3. a = [f \in Fields[t] |-> value(f)]
  BY Zenon DEF Assembled
<1>4. m = [f \in Fields[t] |-> m[f]]
  BY <1>1, Zenon DEF IsMessage
<1>5. /\ P \in Seq(Seq(Octet)) /\ k \in Nat /\ l \in Nat /\ Len(P) = k + l
      /\ \A i \in 1..k : P[i] = m[X[i]]
      /\ \A i \in 1..l : P[k + i] = A[i]
  BY <1>1, PartsMeasured DEF PartsAre
<1>6. A \in Seq(Seq(Octet))
  BY <1>1, MessageValues
<1>7. ASSUME NEW f \in Fields[t] PROVE value(f) = m[f]
  <2> DEFINE c == Kind[t][f]
  <2>1. /\ c \in {"octet", "len8", "len16", "count"}
        /\ c = "octet" => ReadItem(t, f, d) = m[f]
    BY <1>ReadBack
  <2>2. CASE c = "octet"
    BY <2>1, <2>2
  <2>3. CASE c = "count"
    <3>1. A = m[f]
      <4>1. Regular(HeadOf[t])
        BY HeadLengths
      <4>2. Items(t, Len(HeadOf[t]))
        BY <4>1, HeadItems
      <4>3. PICK i \in 1..Len(HeadOf[t]) : HeadOf[t][i].field = f /\ Kind[t][f] = HeadOf[t][i].kind
        BY <4>2, Zenon DEF Items
      <4>4. f = "args"
        BY <2>3, <4>1, <4>3 DEF Regular
      <4> QED BY <4>4 DEF ArgsOf
    <3> HIDE DEF P, A, k, l
    <3> DEFINE u == SubSeq(P, k + 1, k + l)
    <3>2. k \in 0..Len(P) /\ k + l \in 0..Len(P) /\ k <= k + l /\ (k + l) - k = l
      BY <1>5
    <3>3. /\ u \in Seq(Seq(Octet)) /\ Len(u) = (k + l) - k
          /\ \A i \in 1..((k + l) - k) : u[i] = P[k + i]
      <4>1. P \in Seq(Seq(Octet))
        BY <1>5
      <4> QED BY <3>2, <4>1, SubSeqParts, Zenon
    <3> HIDE DEF u
    <3>4. Len(u) = l /\ \A i \in 1..l : u[i] = A[i]
      BY <1>5, <3>2, <3>3, Zenon
    <3>5. Len(A) = l
      BY DEF l
    <3>6. u = A
      BY <1>6, <3>3, <3>4, <3>5, SeqEqual, Zenon
    <3>7. value(f) = SubSeq(P, k + 1, Len(P))
      BY <2>3, Zenon
    <3>8. SubSeq(P, k + 1, Len(P)) = u
      BY <1>5 DEF u
    <3> QED BY <3>1, <3>6, <3>7, <3>8, Zenon
  <2>4. CASE c \in {"len8", "len16"}
    <3>1. \E i \in 1..k : X[i] = f
      BY <2>4, TextFields DEF TextsAre
    <3> DEFINE j == CHOOSE i \in 1..k : X[i] = f
    <3>2. j \in 1..k /\ X[j] = f
      BY <3>1
    <3>3. value(f) = P[j]
      BY <2>4
    <3> HIDE DEF j
    <3> QED BY <1>5, <3>2, <3>3, Zenon
  <2> QED BY <2>1, <2>2, <2>3, <2>4
<1> HIDE DEF value
<1>8. a = m
  <2>1. a = [f \in Fields[t] |-> m[f]]
    BY <1>3, <1>7
  <2> QED BY <1>4, <2>1, Zenon
<1> HIDE DEF a, d, P
<1>9. {Assembled(t, d, pieces) : pieces \in {Pieces(t, d)}} = {m}
  BY <1>2, <1>8 DEF a
<1>10. ~(Len(d) < Layout[t].min)
  <2>1. Layout[t].min \in Nat
    BY HeadLengths
  <2>2. Len(d) \in Nat
    <3>1. d \in Seq(Octet)
      BY <1>1, Encoded DEF d
    <3> QED BY <3>1
  <2> QED BY <1>2, <2>1, <2>2
<1>11. UnmarshalBinary(t, d) = {x \in {m} : Valid(t, x)}
  BY <1>2, <1>9, <1>10, Zenon DEF UnmarshalBinary
<1>12. UnmarshalBinary(t, d) = {m}
  BY <1>1, <1>11
<1> QED BY <1>2, <1>12 DEF d

\* What the head of any body says.
ItemAt(t, f, d) ==
    LET o == Offset[t][f] IN
    /\ o \in Nat
    /\ Kind[t][f] = "len16" => /\ o + 2 <= Len(d)
                               /\ d[o + 1] \in Octet /\ d[o + 2] \in Octet
                               /\ ReadItem(t, f, d) = 256 * d[o + 1] + d[o + 2]
    /\ Kind[t][f] # "len16" => /\ o + 1 <= Len(d)
                               /\ d[o + 1] \in Octet
                               /\ ReadItem(t, f, d) = d[o + 1]

LEMMA ItemsRead ==
    ASSUME NEW t \in BodyType, NEW d \in Seq(Octet), HeadLen[t] <= Len(d), NEW f \in Fields[t]
    PROVE  ItemAt(t, f, d) /\ ReadItem(t, f, d) \in Nat
<1> DEFINE n == Len(HeadOf[t])
           W == Widths[t]
           S == Sums(W)
           o == Offset[t][f]
           c == Kind[t][f]
<1>1. Regular(HeadOf[t]) /\ HeadLen[t] \in Nat
  BY HeadLengths
<1>2. n \in Nat /\ Items(t, n)
  BY <1>1, HeadItems
<1>3. PICK i \in 1..n : HeadOf[t][i].field = f
  BY <1>2 DEF Items
<1>4. /\ W \in Seq(Nat) /\ Len(W) = n /\ W[i] = (IF c = "len16" THEN 2 ELSE 1)
      /\ HeadLen[t] = S[n] /\ o = S[i - 1]
  BY <1>2, <1>3, Zenon DEF Items
<1> HIDE DEF n, W, o, c
<1>5. S \in [0..n -> Nat] /\ S[i] = S[i - 1] + W[i] /\ S[i] <= S[n]
  <2>1. S \in [0..n -> Nat] /\ S[i] = S[i - 1] + W[i]
    BY <1>4, SumsSteps, Zenon
  <2>2. i \in 0..Len(W) /\ n \in i..Len(W) /\ W \in Seq(Nat)
    BY <1>2, <1>4
  <2>3. S[i] <= S[n]
    BY <2>2, SumsGrow
  <2> QED BY <2>1, <2>3
<1> HIDE DEF S
<1>6. o \in Nat /\ W[i] \in Nat /\ o + W[i] <= Len(d) /\ Len(d) \in Nat
  <2>1. i - 1 \in 0..n
    BY <1>2
  <2>2. S[i - 1] \in Nat /\ Len(d) \in Nat
    BY <1>5, <2>1
  <2> QED BY <1>1, <1>4, <1>5, <2>2
<1>7. \A p \in 1..Len(d) : d[p] \in Octet
  OBVIOUS
<1>8. ReadItem(t, f, d) = IF c = "len16" THEN ReadUint16(d, o) ELSE ReadInt(d, o)
  BY DEF ReadItem, c, o
<1>9. CASE c = "len16"
  <2>1. o + 2 <= Len(d) /\ o + 1 < Len(d) /\ o + 1 \in 1..Len(d) /\ o + 2 \in 1..Len(d)
    BY <1>4, <1>6, <1>9, SMTT(20)
  <2>2. d[o + 1] \in Octet /\ d[o + 2] \in Octet
    BY <1>7, <2>1
  <2>3. ReadItem(t, f, d) = 256 * d[o + 1] + d[o + 2]
    BY <1>8, <1>9, <2>1 DEF ReadUint16
  <2>4. 256 * d[o + 1] + d[o + 2] \in Nat
    <3>1. d[o + 1] \in Nat /\ d[o + 2] \in Nat
      BY <2>2, OctetRange
    <3> QED BY <3>1, SMT
  <2> QED BY <1>6, <1>9, <2>1, <2>2, <2>3, <2>4 DEF ItemAt, o, c
<1>10. CASE c # "len16"
  <2>1. o + 1 <= Len(d) /\ o < Len(d) /\ o + 1 \in 1..Len(d)
    BY <1>4, <1>6, <1>10
  <2>2. d[o + 1] \in Octet
    BY <1>7, <2>1
  <2>3. ReadItem(t, f, d) = d[o + 1]
    BY <1>8, <1>10, <2>1 DEF ReadInt
  <2>4. d[o + 1] \in Nat
    BY <2>2, OctetRange
  <2> QED BY <1>6, <1>10, <2>1, <2>2, <2>3, <2>4 DEF ItemAt, o, c
<1> QED BY <1>9, <1>10

LEMMA LengthsRead ==
    ASSUME NEW t \in BodyType, NEW d \in Seq(Octet), HeadLen[t] <= Len(d)
    PROVE  LET X == Texts[t]
               k == Len(X)
               c == ArgCount(t, d)
               lens == Lengths(t, d)
           IN  /\ k \in Nat /\ c \in Nat
               /\ lens \in Seq(Nat) /\ Len(lens) = k + c
               /\ \A i \in 1..k : lens[i] = ReadItem(t, X[i], d)
               /\ \A i \in 1..c : lens[k + i] = ReadInt(d, HeadLen[t] + i - 1)
<1> DEFINE X == Texts[t]
           k == Len(X)
           c == ArgCount(t, d)
           lens == Lengths(t, d)
           h == HeadLen[t]
           u == [i \in 1..k |-> ReadItem(t, X[i], d)]
           v == [i \in 1..c |-> ReadInt(d, h + i - 1)]
<1>1. X \in Seq(Fields[t])
  BY TextFields DEF TextsAre
<1>2. c \in Nat
  BY ItemsRead DEF ArgCount
<1>3. lens = u \o v
  BY DEF Lengths
<1>4. h \in Nat
  BY HeadLengths
<1> HIDE DEF X, c, h, lens
<1>5. k \in Nat /\ \A i \in 1..k : X[i] \in Fields[t]
  BY <1>1
<1>6. \A i \in 1..k : ReadItem(t, X[i], d) \in Nat
  BY <1>5, ItemsRead DEF h
<1> HIDE DEF k
<1>7. u \in Seq(Nat) /\ Len(u) = k /\ \A i \in 1..k : u[i] = ReadItem(t, X[i], d)
  BY <1>5, <1>6
<1>8. ASSUME NEW p \in Nat PROVE ReadInt(d, p) \in Nat
  <2>1. CASE p < Len(d)
    <3>1. p + 1 \in 1..Len(d)
      BY <2>1
    <3>2. d[p + 1] \in Octet
      BY <3>1
    <3>3. d[p + 1] \in Nat
      BY <3>2, OctetRange
    <3> QED BY <2>1, <3>3 DEF ReadInt
  <2>2. CASE ~(p < Len(d))
    BY <2>2 DEF ReadInt
  <2> QED BY <2>1, <2>2
<1>9. \A i \in 1..c : ReadInt(d, h + i - 1) \in Nat
  <2>1. \A i \in 1..c : h + i - 1 \in Nat
    BY <1>2, <1>4
  <2> QED BY <1>8, <2>1
<1>10. v \in Seq(Nat) /\ Len(v) = c /\ \A i \in 1..c : v[i] = ReadInt(d, h + i - 1)
  BY <1>2, <1>9
<1> HIDE DEF u, v
<1>11. u \in Seq(Nat) /\ v \in Seq(Nat) /\ k = Len(u) /\ c = Len(v)
  BY <1>7, <1>10
<1>12. /\ lens \in Seq(Nat) /\ Len(lens) = k + c
       /\ \A i \in 1..k : lens[i] = u[i]
       /\ \A i \in 1..c : lens[k + i] = v[i]
  BY <1>3, <1>11, ConcatParts
<1> QED BY <1>2, <1>5, <1>7, <1>10, <1>12, Zenon DEF X, k, c, lens, h

\* The field of a kind.
LEMMA FieldKinds ==
    ASSUME NEW t \in BodyType
    PROVE  /\ \A f \in Fields[t] : /\ Kind[t][f] \in {"octet", "len8", "len16", "count"}
                                   /\ Kind[t][f] = "count" <=> f = "args"
           /\ \A x \in Range(HeadOf[t]) : x.field \in Fields[t] /\ x.kind = Kind[t][x.field]
<1> DEFINE head == HeadOf[t]
           n == Len(head)
<1>1. Regular(head)
  BY HeadLengths
<1>2. n \in Nat /\ Items(t, n)
  BY <1>1, HeadItems
<1>3. /\ Fields[t] = {head[i].field : i \in 1..n}
      /\ \A i \in 1..n : Kind[t][head[i].field] = head[i].kind
  BY <1>2 DEF Items
<1>4. /\ head \in Seq(Range(head))
      /\ \A i \in 1..n : /\ head[i].kind \in {"octet", "len8", "len16", "count"}
                         /\ head[i].kind = "count" <=> head[i].field = "args"
  BY <1>1 DEF Regular
<1>5. \A x : x \in Range(head) <=> \E i \in 1..n : x = head[i]
  BY <1>4, RangeElements
<1> HIDE DEF head, n
<1>6. ASSUME NEW f \in Fields[t]
      PROVE  /\ Kind[t][f] \in {"octet", "len8", "len16", "count"}
             /\ Kind[t][f] = "count" <=> f = "args"
  <2>1. PICK i \in 1..n : f = head[i].field
    BY <1>3
  <2> QED BY <1>3, <1>4, <2>1, Zenon
<1>7. ASSUME NEW x \in Range(head) PROVE x.field \in Fields[t] /\ x.kind = Kind[t][x.field]
  <2>1. PICK i \in 1..n : x = head[i]
    BY <1>5
  <2> QED BY <1>3, <2>1, Zenon
<1> QED BY <1>6, <1>7 DEF head

\* A message has one encoding: what UnmarshalBinary returns, of a body that has its
\* fixed part, is marshalled to the octets it was read from, except for octets that
\* follow the message, which it ignores.
THEOREM EncodesToItself ==
    \A t \in BodyType, d \in Seq(Octet) : \A m \in UnmarshalBinary(t, d) :
        HeadLen[t] <= Len(d) =>
            SubSeq(d, 1, Len(MarshalBinary(t, m))) = MarshalBinary(t, m)
<1>OctetRemainder. ASSUME NEW x \in Octet
                   PROVE  x % 256 = x
  BY <1>OctetRemainder, OctetRange, SMT
<1>TwoOctetsBack. ASSUME NEW a \in Octet, NEW b \in Octet
                  PROVE  LET n == 256 * a + b
                         IN  n \in Nat /\ n < 65536 /\ (n \div 256) % 256 = a /\ n % 256 = b
  <2> USE <1>TwoOctetsBack
  <2>1. a \in Int /\ 0 <= a /\ a < 256 /\ b \in Int /\ 0 <= b /\ b < 256
    BY OctetRange
  <2> QED BY <2>1, SMT
\* A message put together from texts and arguments has these texts and arguments.
<1>AssembledParts. ASSUME NEW t \in BodyType, NEW d \in Seq(Octet), HeadLen[t] <= Len(d),
                          NEW P \in Seq(Seq(Octet)), Len(P) = Len(Texts[t]) + ArgCount(t, d)
                   PROVE  LET m == Assembled(t, d, P) IN
                          /\ IsMessage(t, m)
                          /\ PartsOf(t, m) = P
                          /\ Len(ArgsOf(t, m)) = ArgCount(t, d)
                          /\ \A f \in Fields[t] : Kind[t][f] = "octet" => m[f] = ReadItem(t, f, d)
                          /\ \A i \in 1..Len(Texts[t]) : m[Texts[t][i]] = P[i]
  <2> USE <1>AssembledParts
  <2> DEFINE X == Texts[t]
             k == Len(X)
             c == ArgCount(t, d)
             m == Assembled(t, d, P)
             A == SubSeq(P, k + 1, k + c)
             value(f) == CASE Kind[t][f] = "octet" -> ReadItem(t, f, d)
                           [] Kind[t][f] = "count" -> SubSeq(P, k + 1, Len(P))
                           [] OTHER -> P[CHOOSE i \in 1..k : X[i] = f]
  <2>1. k \in Nat /\ c \in Nat
    BY LengthsRead
  <2>2. m = [f \in Fields[t] |-> value(f)]
    BY Zenon DEF Assembled
  <2>3. /\ X \in Seq(Fields[t])
        /\ \A i \in 1..k : Kind[t][X[i]] \in {"len8", "len16"}
        /\ \A i, j \in 1..k : X[i] = X[j] => i = j
        /\ \A f \in Fields[t] : Kind[t][f] \in {"len8", "len16"} => \E i \in 1..k : X[i] = f
    BY TextFields DEF TextsAre
  <2>4. \A f \in Fields[t] : /\ Kind[t][f] \in {"octet", "len8", "len16", "count"}
                             /\ Kind[t][f] = "count" <=> f = "args"
    BY FieldKinds
  <2>5. A \in Seq(Seq(Octet)) /\ Len(A) = c /\ \A i \in 1..c : A[i] = P[k + i]
    <3> HIDE DEF k, c
    <3>1. k \in 0..Len(P) /\ k + c \in 0..Len(P) /\ k <= k + c /\ (k + c) - k = c
      BY <2>1 DEF k, c
    <3>2. /\ A \in Seq(Seq(Octet)) /\ Len(A) = (k + c) - k
          /\ \A i \in 1..((k + c) - k) : A[i] = P[k + i]
      BY <3>1, SubSeqParts
    <3> HIDE DEF A
    <3> QED BY <3>1, <3>2, Zenon
  <2>6. ASSUME NEW f \in Fields[t]
        PROVE  /\ Kind[t][f] = "octet" => value(f) = ReadItem(t, f, d)
               /\ Kind[t][f] = "count" => value(f) = A
               /\ Kind[t][f] \in {"len8", "len16"} => \E i \in 1..k : X[i] = f /\ value(f) = P[i]
    <3>1. CASE Kind[t][f] = "octet"
      BY <3>1
    <3>2. CASE Kind[t][f] = "count"
      BY <3>2, Zenon
    <3>3. CASE Kind[t][f] \in {"len8", "len16"}
      <4> DEFINE j == CHOOSE i \in 1..k : X[i] = f
      <4>1. j \in 1..k /\ X[j] = f
        BY <2>3, <3>3, SMTT(20)
      <4>2. value(f) = P[j]
        BY <3>3
      <4> HIDE DEF j, value
      <4> QED BY <3>3, <4>1, <4>2, Zenon
    <3> QED BY <2>4, <3>1, <3>2, <3>3, Zenon
  <2> HIDE DEF value
  <2>7. \A f \in Fields[t] : m[f] = value(f)
    BY <2>2
  <2> HIDE DEF m, A
  <2>8. ASSUME NEW i \in 1..k PROVE m[X[i]] = P[i]
    <3>1. X[i] \in Fields[t] /\ Kind[t][X[i]] \in {"len8", "len16"}
      BY <2>3
    <3>2. PICK j \in 1..k : X[j] = X[i] /\ value(X[i]) = P[j]
      BY <2>6, <3>1, Zenon
    <3> QED BY <2>3, <2>7, <3>1, <3>2, Zenon
  <2>9. \A f \in Fields[t] : Kind[t][f] = "octet" => m[f] = ReadItem(t, f, d)
    BY <2>6, <2>7
  <2>10. ArgsOf(t, m) = A
    <3>1. CASE "args" \in Fields[t]
      <4>1. m["args"] = A
        BY <2>4, <2>6, <2>7, <3>1
      <4> QED BY <3>1, <4>1 DEF ArgsOf
    <3>2. CASE "args" \notin Fields[t]
      <4>1. c = 0
        BY <3>2 DEF ArgCount
      <4>2. A = <<>>
        BY <2>5, <4>1
      <4> QED BY <3>2, <4>2 DEF ArgsOf
    <3> QED BY <3>1, <3>2
  <2>11. IsMessage(t, m)
    <3>1. ASSUME NEW f \in Fields[t]
          PROVE  m[f] \in ValueOf(Kind[t][f])
      <4>1. CASE Kind[t][f] = "octet"
        <5>1. ItemAt(t, f, d)
          BY ItemsRead
        <5>2. ReadItem(t, f, d) \in Octet
          BY <4>1, <5>1 DEF ItemAt
        <5> QED BY <2>9, <4>1, <5>2 DEF ValueOf
      <4>2. CASE Kind[t][f] = "count"
        BY <2>5, <2>6, <2>7, <4>2 DEF ValueOf
      <4>3. CASE Kind[t][f] \in {"len8", "len16"}
        <5>1. PICK i \in 1..k : m[f] = P[i]
          BY <2>6, <2>7, <4>3
        <5>2. i \in 1..Len(P)
          BY <2>1
        <5>3. P[i] \in Seq(Octet)
          BY <5>2
        <5> QED BY <4>3, <5>1, <5>3 DEF ValueOf
      <4> QED BY <2>4, <4>1, <4>2, <4>3
    <3>2. m = [f \in Fields[t] |-> m[f]]
      BY <2>2, <2>7
    <3>3. \A x \in Range(HeadOf[t]) : m[x.field] \in ValueOf(x.kind)
      BY <3>1, FieldKinds
    <3> QED BY <3>2, <3>3, Zenon DEF IsMessage
  <2>12. PartsOf(t, m) = P
    <3> DEFINE Q == PartsOf(t, m)
    <3>1. /\ Q \in Seq(Seq(Octet)) /\ Len(Q) = k + Len(ArgsOf(t, m))
          /\ \A i \in 1..k : Q[i] = m[X[i]]
          /\ \A i \in 1..Len(ArgsOf(t, m)) : Q[k + i] = ArgsOf(t, m)[i]
      BY <2>11, PartsMeasured DEF PartsAre
    <3> HIDE DEF Q, k, c
    <3>2. Len(Q) = k + c /\ \A i \in 1..c : Q[k + i] = P[k + i]
      BY <2>5, <2>10, <3>1
    <3>3. ASSUME NEW i \in 1..(k + c) PROVE Q[i] = P[i]
      <4>1. CASE i \in 1..k
        BY <2>8, <3>1, <4>1
      <4>2. CASE i \notin 1..k
        <5>1. i - k \in 1..c /\ k + (i - k) = i
          BY <2>1, <4>2
        <5> QED BY <3>2, <5>1
      <4> QED BY <4>1, <4>2
    <3>4. Len(P) = k + c
      BY DEF k, c
    <3>5. Q = P
      BY <3>1, <3>2, <3>3, <3>4, SeqEqual, Zenon
    <3> QED BY <3>5 DEF Q
  <2> QED BY <2>5, <2>8, <2>9, <2>10, <2>11, <2>12 DEF m
\* The pieces of a body that has all of its texts.
<1>PiecesFound. ASSUME NEW t \in BodyType, NEW d \in Seq(Octet), HeadLen[t] <= Len(d),
                       TextStart(t, d) <= Len(d), Sum(Lengths(t, d)) <= TextLen(t, d)
                PROVE  LET P == Pieces(t, d)
                           lens == Lengths(t, d)
                           q == TextStart(t, d)
                       IN  /\ P \in Seq(Seq(Octet)) /\ Measures(lens, P) /\ Holds(d, q, P, lens)
                           /\ q \in Nat /\ q + Len(Flat(P)) <= Len(d)
  <2> USE <1>PiecesFound
  <2> DEFINE P == Pieces(t, d)
             lens == Lengths(t, d)
             q == TextStart(t, d)
             S == Sums(lens)
             n == Len(lens)
             piece(i) == ReadString(d, q + S[i - 1], lens[i])
  <2>1. lens \in Seq(Nat) /\ ArgCount(t, d) \in Nat
    BY LengthsRead
  <2>2. q \in Nat /\ Len(d) \in Nat
    BY <2>1, HeadLengths DEF TextStart
  <2>3. P = [i \in 1..n |-> piece(i)]
    BY DEF Pieces
  <2>4. S[n] <= Len(d) - q
    BY <2>2 DEF Sum, TextLen
  <2> HIDE DEF P, lens, q
  <2>5. n \in Nat /\ \A i \in 1..n : lens[i] \in Nat
    BY <2>1
  <2>6. S \in [0..n -> Nat] /\ \A i \in 1..n : S[i] = S[i - 1] + lens[i]
    BY <2>1, SumsSteps
  <2>7. \A i \in 1..n : S[i] <= S[n]
    <3>1. ASSUME NEW i \in 1..n PROVE S[i] <= S[n]
      <4>1. i \in 0..n /\ n \in i..n
        BY <2>5
      <4> QED BY <2>1, <4>1, SumsGrow
    <3> QED BY <3>1
  <2> HIDE DEF n, S
  <2>8. ASSUME NEW i \in 1..n
        PROVE  /\ piece(i) \in Seq(Octet) /\ Len(piece(i)) = lens[i]
               /\ \A j \in 1..lens[i] : piece(i)[j] = d[q + (S[i - 1] + j)]
    <3> DEFINE p == q + S[i - 1]
    <3>1. S[i - 1] \in Nat /\ S[n] \in Nat
      <4>1. i - 1 \in 0..n /\ n \in 0..n
        BY <2>5
      <4> QED BY <2>6, <4>1, SMTT(20)
    <3>2. S[i - 1] + lens[i] <= S[n] /\ lens[i] \in Nat
      BY <2>5, <2>6, <2>7
    <3>3. p \in Nat /\ p + lens[i] <= Len(d)
      BY <2>2, <2>4, <3>1, <3>2, SMTT(20)
    <3>4. \A j \in 1..lens[i] : p + j = q + (S[i - 1] + j)
      BY <2>2, <3>1, <3>2
    <3> HIDE DEF p
    <3>5. /\ ReadString(d, p, lens[i]) \in Seq(Octet) /\ Len(ReadString(d, p, lens[i])) = lens[i]
          /\ \A j \in 1..lens[i] : ReadString(d, p, lens[i])[j] = d[p + j]
      BY <3>2, <3>3, StringRead, Zenon
    <3> QED BY <3>4, <3>5, Zenon DEF p
  <2> HIDE DEF piece
  <2>9. P \in Seq(Seq(Octet)) /\ Len(P) = n /\ \A i \in 1..n : P[i] = piece(i)
    <3>1. \A i \in 1..n : piece(i) \in Seq(Octet)
      BY <2>8
    <3>2. n \in Nat
      BY <2>5
    <3> QED BY <2>3, <3>1, <3>2
  <2>10. Measures(lens, P)
    BY <2>1, <2>8, <2>9 DEF Measures, n
  <2>11. Holds(d, q, P, lens)
    <3>1. ASSUME NEW i \in 1..n, NEW j \in 1..lens[i]
          PROVE  d[q + (S[i - 1] + j)] = P[i][j]
      <4>1. P[i] = piece(i) /\ piece(i)[j] = d[q + (S[i - 1] + j)]
        BY <2>8, <2>9
      <4> QED BY <4>1
    <3> QED BY <2>9, <3>1, Zenon DEF Holds, S
  <2>12. Len(Flat(P)) = S[n]
    BY <2>9, <2>10, FlatPlaces DEF S
  <2>13. S[n] \in Nat
    BY <2>5, <2>6
  <2>14. q + Len(Flat(P)) <= Len(d)
    BY <2>2, <2>4, <2>12, <2>13
  <2> QED BY <2>2, <2>9, <2>10, <2>11, <2>14 DEF P, lens, q
\* A text of length 0, wherever it is.
<1>EmptyRead. ASSUME NEW T, NEW d \in Seq(T), NEW p \in Nat
              PROVE  ReadString(d, p, 0) = <<>>
  <2> USE <1>EmptyRead
  <2> DEFINE b == IF p + 0 < Len(d) THEN p + 0 ELSE Len(d)
  <2>1. b \in Nat /\ b <= p
    OBVIOUS
  <2>2. ReadString(d, p, 0) = SubSeq(d, p + 1, b)
    BY DEF ReadString
  <2> HIDE DEF b
  <2>3. SubSeq(d, p + 1, b) = <<>>
    BY <2>1
  <2> QED BY <2>2, <2>3, Zenon
\* A body that decodes has room for its texts behind the lengths of its arguments:
\* an argument that is not there has length 0 and is not valid.
<1>RoomForTexts. ASSUME NEW t \in BodyType, NEW d \in Seq(Octet), HeadLen[t] <= Len(d),
                        NEW m \in UnmarshalBinary(t, d)
                 PROVE  /\ m = Assembled(t, d, Pieces(t, d)) /\ Valid(t, m)
                        /\ TextStart(t, d) <= Len(d)
                        /\ Sum(Lengths(t, d)) <= TextLen(t, d)
  <2> USE <1>RoomForTexts
  <2> DEFINE P == Pieces(t, d)
             lens == Lengths(t, d)
             q == TextStart(t, d)
             c == ArgCount(t, d)
             X == Texts[t]
             k == Len(X)
             S == Sums(lens)
             n == Len(lens)
             h == HeadLen[t]
  <2>1. m = Assembled(t, d, P) /\ Valid(t, m) /\ ~ShortBody(t, d)
    BY DEF UnmarshalBinary
  <2>2. /\ k \in Nat /\ c \in Nat /\ lens \in Seq(Nat) /\ n = k + c
    BY LengthsRead
  <2>3. /\ h \in Nat /\ Layout[t].min \in Nat /\ Layout[t].min <= h
    BY HeadLengths
  <2>4. q = h + c /\ Len(d) \in Nat
    BY DEF TextStart
  <2>5. S \in [0..n -> Nat] /\ \A i \in 1..n : S[i] = S[i - 1] + lens[i]
    BY <2>2, SumsSteps
  <2>6. \A i \in 1..n : S[i] <= S[n]
    <3>1. ASSUME NEW i \in 1..n PROVE S[i] <= S[n]
      <4>1. i \in 0..n /\ n \in i..n
        BY <2>2
      <4> QED BY <2>2, <4>1, SumsGrow
    <3> QED BY <3>1
  <2>7. TextLen(t, d) = (IF Len(d) > q THEN Len(d) - q ELSE 0) /\ Sum(lens) = S[n]
    BY DEF TextLen, Sum
  <2>8. P = [i \in 1..n |-> ReadString(d, q + S[i - 1], lens[i])]
    BY DEF Pieces
  <2> HIDE DEF P, lens, q, c, S, n, h
  <2>9. n \in Nat /\ S[n] \in Nat /\ q \in Nat
    <3>1. n \in Nat /\ n \in 0..n
      BY <2>2
    <3> QED BY <2>2, <2>3, <2>4, <2>5, <3>1
  <2>10. Sum(lens) <= TextLen(t, d)
    <3>1. Len(d) >= Layout[t].min
      BY <2>3, <2>4 DEF h
    <3>2. ~(Sum(lens) > TextLen(t, d))
      BY <2>1, <3>1 DEF ShortBody, lens
    <3>3. Sum(lens) \in Int /\ TextLen(t, d) \in Int
      BY <2>4, <2>7, <2>9
    <3> QED BY <3>2, <3>3
  <2>11. SUFFICES ASSUME ~(q <= Len(d)) PROVE FALSE
    BY <2>1, <2>10 DEF P, lens, q
  <2>12. c > 0
    BY <2>2, <2>3, <2>4, <2>11 DEF h
  <2>13. S[n] <= 0
    BY <2>4, <2>7, <2>9, <2>10, <2>11
  <2>14. \A i \in 1..n : /\ S[i - 1] \in Nat /\ lens[i] = 0
    <3>1. ASSUME NEW i \in 1..n PROVE S[i - 1] \in Nat /\ lens[i] = 0
      <4>1. i - 1 \in 0..n
        BY <2>9
      <4>2. S[i - 1] \in Nat /\ S[i] <= S[n] /\ S[i] = S[i - 1] + lens[i]
        BY <2>5, <2>6, <4>1
      <4>3. lens[i] \in Nat
        BY <2>2 DEF n
      <4> QED BY <2>9, <2>13, <4>2, <4>3
    <3> QED BY <3>1
  <2>15. P = [i \in 1..n |-> <<>>]
    <3>1. ASSUME NEW i \in 1..n PROVE ReadString(d, q + S[i - 1], lens[i]) = <<>>
      <4>1. lens[i] = 0 /\ S[i - 1] \in Nat /\ q \in Nat
        BY <2>9, <2>14
      <4> DEFINE p == q + S[i - 1]
      <4>2. p \in Nat
        BY <4>1
      <4> HIDE DEF p
      <4>3. ReadString(d, p, 0) = <<>>
        BY <4>2, <1>EmptyRead
      <4> QED BY <4>1, <4>3 DEF p
    <3> QED BY <2>8, <3>1
  <2>16. P \in Seq(Seq(Octet)) /\ Len(P) = n /\ \A i \in 1..n : P[i] = <<>>
    BY <2>9, <2>15
  <2>17. /\ IsMessage(t, m) /\ PartsOf(t, m) = P /\ Len(ArgsOf(t, m)) = c
    <3>1. Len(P) = Len(Texts[t]) + ArgCount(t, d)
      BY <2>2, <2>16 DEF c
    <3> QED BY <2>1, <2>16, <3>1, <1>AssembledParts DEF c
  <2>18. P[k + 1] = ArgsOf(t, m)[1]
    <3>1. 1 \in 1..Len(ArgsOf(t, m))
      BY <2>2, <2>12, <2>17
    <3> QED BY <2>17, <3>1, PartsMeasured, SMTT(20) DEF PartsAre
  <2>19. ValidArg(ArgsOf(t, m)[1])
    <3>1. 1 \in 1..Len(ArgsOf(t, m))
      BY <2>2, <2>12, <2>17
    <3> QED BY <2>1, <3>1, ValidArgs
  <2>20. P[k + 1] = <<>>
    <3>1. k + 1 \in 1..n
      BY <2>2, <2>12
    <3> QED BY <2>16, <3>1
  <2> QED BY <2>18, <2>19, <2>20 DEF ValidArg
\* The head of what a body decodes to is the head of the body.
<1>HeadFound. ASSUME NEW t \in BodyType, NEW d \in Seq(Octet), HeadLen[t] <= Len(d),
                     NEW P \in Seq(Seq(Octet)), Measures(Lengths(t, d), P),
                     NEW m, m = Assembled(t, d, P)
              PROVE  Holds(d, 0, EncodedItems(t, m), Widths[t])
  <2> USE <1>HeadFound
  <2> DEFINE head == HeadOf[t]
             n == Len(head)
             X == Texts[t]
             k == Len(X)
             c == ArgCount(t, d)
             lens == Lengths(t, d)
             W == Widths[t]
             S == Sums(W)
             E == EncodedItems(t, m)
  <2>1. /\ k \in Nat /\ c \in Nat
        /\ Len(lens) = k + c
        /\ \A i \in 1..k : lens[i] = ReadItem(t, X[i], d)
    BY LengthsRead
  <2>2. Len(P) = k + c /\ \A i \in 1..(k + c) : Len(P[i]) = lens[i]
    BY <2>1, Zenon DEF Measures
  <2>3. /\ IsMessage(t, m) /\ Len(ArgsOf(t, m)) = c
        /\ \A f \in Fields[t] : Kind[t][f] = "octet" => m[f] = ReadItem(t, f, d)
        /\ \A i \in 1..k : m[X[i]] = P[i]
    BY <2>2, <1>AssembledParts
  <2>4. Regular(head)
    BY HeadLengths
  <2>5. n \in Nat /\ Items(t, n)
    BY <2>4, HeadItems
  <2>6. /\ Fields[t] = {head[i].field : i \in 1..n}
        /\ \A i \in 1..n : /\ W[i] = IF head[i].kind = "len16" THEN 2 ELSE 1
                           /\ Kind[t][head[i].field] = head[i].kind
                           /\ Offset[t][head[i].field] = S[i - 1]
    BY <2>5 DEF Items
  <2>7. \A f \in Fields[t] : Kind[t][f] \in {"len8", "len16"} => \E i \in 1..k : X[i] = f
    BY TextFields DEF TextsAre
  <2>8. Len(E) = n /\ \A i \in 1..n : E[i] = EncodeItem(head[i], m[head[i].field])
    BY <2>5 DEF EncodedItems
  <2>9. \A f \in Fields[t] : /\ Kind[t][f] \in {"octet", "len8", "len16", "count"}
                             /\ Kind[t][f] = "count" <=> f = "args"
    BY FieldKinds
  <2> HIDE DEF head, n, X, k, c, lens, W, S, E
  <2>10. ASSUME NEW f \in Fields[t], Kind[t][f] # "octet"
         PROVE  Len(m[f]) = ReadItem(t, f, d)
    <3>1. CASE Kind[t][f] = "count"
      <4>1. f = "args"
        BY <2>9, <3>1
      <4>2. ArgsOf(t, m) = m[f] /\ c = ReadItem(t, f, d)
        BY <4>1 DEF ArgsOf, ArgCount, c
      <4> QED BY <2>3, <4>2
    <3>2. CASE Kind[t][f] \in {"len8", "len16"}
      <4>1. PICK i \in 1..k : X[i] = f
        BY <2>7, <3>2
      <4>2. i \in 1..(k + c)
        BY <2>1
      <4> QED BY <2>1, <2>2, <2>3, <4>1, <4>2, Zenon
    <3> QED BY <2>9, <2>10, <3>1, <3>2
  <2>11. ASSUME NEW i \in 1..n, NEW j \in 1..W[i]
         PROVE  d[0 + (S[i - 1] + j)] = E[i][j]
    <3> DEFINE x == head[i]
               f == x.field
               v == m[f]
               o == S[i - 1]
               a == d[o + 1]
               b == d[o + 2]
    <3>1. f \in Fields[t] /\ Kind[t][f] = x.kind /\ Offset[t][f] = o
      BY <2>6
    <3>2. ItemAt(t, f, d)
      BY <3>1, ItemsRead
    <3>3. E[i] = EncodeItem(x, v) /\ W[i] = IF x.kind = "len16" THEN 2 ELSE 1
      BY <2>6, <2>8
    <3>4. x.kind \in {"octet", "len8", "len16", "count"}
      BY <2>9, <3>1
    <3>5. x.kind # "octet" => Len(v) = ReadItem(t, f, d)
      BY <2>10, <3>1
    <3>6. x.kind = "octet" => v = ReadItem(t, f, d)
      BY <2>3, <3>1
    <3>7. /\ o \in Nat
          /\ x.kind = "len16" => a \in Octet /\ b \in Octet /\ ReadItem(t, f, d) = 256 * a + b
          /\ x.kind # "len16" => a \in Octet /\ ReadItem(t, f, d) = a
      BY <3>1, <3>2 DEF ItemAt
    <3> HIDE DEF x, f, v, a, b, o
    <3>8. CASE x.kind = "octet"
      <4>1. E[i] = <<a>> /\ j = 1
        BY <3>3, <3>6, <3>7, <3>8 DEF EncodeItem
      <4> QED BY <3>7, <4>1 DEF a, o
    <3>9. CASE x.kind \in {"len8", "count"}
      <4>1. E[i] = <<Len(v) % 256>> /\ j = 1 /\ Len(v) = a
        BY <3>3, <3>5, <3>7, <3>9 DEF EncodeItem
      <4>2. a % 256 = a
        BY <3>7, <3>9, <1>OctetRemainder
      <4> QED BY <3>7, <4>1, <4>2 DEF a, o
    <3>10. CASE x.kind = "len16"
      <4>1. E[i] = <<(Len(v) \div 256) % 256, Len(v) % 256>> /\ W[i] = 2
        BY <3>3, <3>10 DEF EncodeItem
      <4>2. Len(v) = 256 * a + b
        BY <3>5, <3>7, <3>10
      <4>3. (Len(v) \div 256) % 256 = a /\ Len(v) % 256 = b
        BY <3>7, <3>10, <4>2, <1>TwoOctetsBack, SMT
      <4>4. E[i] = <<a, b>>
        BY <4>1, <4>3
      <4>5. j = 1 \/ j = 2
        BY <4>1
      <4> QED BY <3>7, <4>4, <4>5 DEF a, b, o
    <3> QED BY <3>4, <3>8, <3>9, <3>10
  <2>12. \A i \in 1..Len(E) : \A j \in 1..W[i] : d[0 + (S[i - 1] + j)] = E[i][j]
    BY <2>8, <2>11, Zenon
  <2> QED BY <2>12, Zenon DEF Holds, E, W, S
<1> SUFFICES ASSUME NEW t \in BodyType, NEW d \in Seq(Octet), HeadLen[t] <= Len(d),
           NEW m \in UnmarshalBinary(t, d)
             PROVE SubSeq(d, 1, Len(MarshalBinary(t, m))) = MarshalBinary(t, m)
  OBVIOUS
<1> DEFINE P == Pieces(t, d)
           lens == Lengths(t, d)
           h == HeadLen[t]
           c == ArgCount(t, d)
           k == Len(Texts[t])
           q == TextStart(t, d)
           e == MarshalBinary(t, m)
           E == EncodedItems(t, m)
           H == Join(E)
           L == ArgLengths(t, m)
           F == Flat(P)
<1>1. /\ m = Assembled(t, d, P) /\ Valid(t, m)
      /\ q <= Len(d) /\ Sum(lens) <= TextLen(t, d)
  BY <1>RoomForTexts
<1>2. /\ P \in Seq(Seq(Octet)) /\ Measures(lens, P) /\ Holds(d, q, P, lens)
      /\ q \in Nat /\ q + Len(F) <= Len(d)
  BY <1>1, <1>PiecesFound
<1>3. /\ k \in Nat /\ c \in Nat /\ Len(lens) = k + c
      /\ \A i \in 1..c : lens[k + i] = ReadInt(d, h + i - 1)
  BY LengthsRead
<1>4. Len(P) = k + c /\ \A i \in 1..(k + c) : Len(P[i]) = lens[i]
  BY <1>2, <1>3 DEF Measures
<1>5. IsMessage(t, m) /\ PartsOf(t, m) = P /\ Len(ArgsOf(t, m)) = c
  BY <1>1, <1>2, <1>4, <1>AssembledParts
<1>6. Holds(d, 0, E, Widths[t])
  BY <1>1, <1>2, <1>HeadFound
<1>7. E \in Seq(Seq(Octet)) /\ Measures(Widths[t], E) /\ H \in Seq(Octet) /\ Len(H) = h
  BY <1>5, EncodedHead
<1>8. H = Flat(E)
  BY <1>7, JoinIsFlat
<1>9. \A p \in 1..Len(H) : H[p] = d[0 + p]
  BY <1>6, <1>7, <1>8, FlatFound
<1>10. \A p \in 1..Len(F) : F[p] = d[q + p]
  BY <1>2, FlatFound
<1>11. /\ L \in Seq(Octet) /\ Len(L) = c /\ F \in Seq(Octet)
       /\ e \in Seq(Octet) /\ Laid(e, H, L, F)
  BY <1>1, <1>5, Encoded
<1>12. h \in Nat /\ q = h + c /\ Len(d) \in Nat
  BY HeadLengths DEF TextStart
<1>13. ASSUME NEW i \in 1..c PROVE L[i] = d[h + i]
  <2>1. L[i] = Len(ArgsOf(t, m)[i])
    BY <1>5 DEF ArgLengths
  <2>2. PartsOf(t, m)[k + i] = ArgsOf(t, m)[i]
    <3>1. i \in 1..Len(ArgsOf(t, m))
      BY <1>5
    <3>2. IsMessage(t, m)
      BY <1>5
    <3> QED BY <3>1, <3>2, PartsMeasured DEF PartsAre
  <2>3. k + i \in 1..(k + c)
    BY <1>3
  <2>4. L[i] = lens[k + i] /\ lens[k + i] = ReadInt(d, h + i - 1)
    BY <1>3, <1>4, <1>5, <2>1, <2>2, <2>3
  <2> HIDE DEF h, c, q, L, lens
  <2>5. h + i - 1 < Len(d) /\ h + i - 1 + 1 = h + i
    BY <1>1, <1>3, <1>12
  <2> QED BY <2>4, <2>5 DEF ReadInt
<1> HIDE DEF P, lens, h, c, k, q, e, E, H, L, F
<1>14. Len(F) \in Nat
  BY <1>11
<1>15. /\ Len(e) = (h + c) + Len(F)
       /\ \A p \in 1..h : e[p] = H[p]
       /\ \A p \in 1..c : e[h + p] = L[p]
       /\ \A p \in 1..Len(F) : e[(h + c) + p] = F[p]
  BY <1>7, <1>11, SMTT(20) DEF Laid
<1>16. ASSUME NEW p \in 1..Len(e) PROVE d[p] = e[p]
  <2>1. CASE p <= h
    <3>1. p \in 1..h /\ 0 + p = p
      BY <1>12, <2>1
    <3> QED BY <1>7, <1>9, <1>15, <3>1
  <2>2. CASE h < p /\ p <= h + c
    <3>1. p - h \in 1..c /\ h + (p - h) = p
      BY <1>3, <1>12, <2>2
    <3> QED BY <1>13, <1>15, <3>1
  <2>3. CASE h + c < p
    <3>1. p - (h + c) \in 1..Len(F) /\ (h + c) + (p - (h + c)) = p
      BY <1>3, <1>12, <1>14, <1>15, <2>3
    <3> QED BY <1>10, <1>12, <1>15, <3>1
  <2> QED BY <1>3, <1>12, <2>1, <2>2, <2>3
<1>17. Begins(e, d)
  <2>1. Len(e) <= Len(d)
    BY <1>2, <1>12, <1>15
  <2> QED BY <1>16, <2>1 DEF Begins
<1>18. SubSeq(d, 1, Len(e)) = e
  BY <1>11, <1>17, BeginsIsCut
<1> QED BY <1>18 DEF e

(***************************************************************************)
(* A Start is no Continue                                                  *)
(***************************************************************************)
\* UnmarshalBinary of AuthenStart and of AuthenContinue never both accept a body of
\* less than AmbiguousFrom octets, so that GetPassword (authenticators/shared.go),
\* which tries a Start first, does not take a Continue for one.
THEOREM StartIsNoContinue ==
    \A d \in Seq(Octet) :
        Len(d) < AmbiguousFrom =>
            {} \in {UnmarshalBinary(t, d) : t \in {"AuthenStart", "AuthenContinue"}}
<1>StartPlaces. /\ {"action", "type"} \subseteq Fields["AuthenStart"]
                /\ Kind["AuthenStart"]["action"] = "octet" /\ Kind["AuthenStart"]["type"] = "octet"
                /\ Offset["AuthenStart"]["action"] = 0 /\ Offset["AuthenStart"]["type"] = 2
                /\ \E x \in Range(HeadOf["AuthenStart"]) :
                      x.field = "action" /\ x.kind = "octet" /\ x.allowed = AuthenAction
                /\ HeadLen["AuthenStart"] = 8
  <2> DEFINE t == "AuthenStart"
             head == HeadOf[t]
             S == Sums(Widths[t])
  <2>1. t \in BodyType
    BY Layouts
  <2>2. /\ Regular(head) /\ Len(head) = 8
        /\ head[1].field = "action" /\ head[3].field = "type"
        /\ head[1].kind = "octet" /\ head[2].kind = "octet" /\ head[3].kind = "octet"
    BY StartHead
  <2>3. Items(t, 8) /\ Summed(t, 8)
    BY <2>1, <2>2, HeadItems, HeadSums, Zenon
  <2>4. S[0] = 0 /\ Widths[t][1] = 1 /\ Widths[t][2] = 1
        /\ S[1] = S[0] + Widths[t][1] /\ S[2] = S[1] + Widths[t][2]
    BY <2>2, <2>3 DEF Summed
  <2>5. S[0] = 0 /\ S[2] = 2
    BY <2>4
  <2>6. /\ Kind[t][head[1].field] = head[1].kind /\ Kind[t][head[3].field] = head[3].kind
        /\ Offset[t][head[1].field] = S[0] /\ Offset[t][head[3].field] = S[2]
        /\ head[1].field \in Fields[t] /\ head[3].field \in Fields[t]
    <3>1. /\ Fields[t] = {head[i].field : i \in 1..8}
          /\ \A i \in 1..8 : /\ Kind[t][head[i].field] = head[i].kind
                            /\ Offset[t][head[i].field] = S[i - 1]
      BY <2>3, Zenon DEF Items
    <3> HIDE DEF head, S
    <3>2. 1 \in 1..8 /\ 3 \in 1..8 /\ 1 - 1 = 0 /\ 3 - 1 = 2
      OBVIOUS
    <3> QED BY <3>1, <3>2
  <2>7. head[1] \in Range(head)
    <3>1. head \in Seq(Range(head))
      BY <2>2 DEF Regular
    <3> QED BY <2>2, <3>1
  <2>8. head[1].allowed = AuthenAction
    <3>1. head = AuthenStart.head
      BY Layouts DEF HeadOf
    <3> QED BY <3>1 DEF AuthenStart, Item
  <2>9. HeadLen[t] = 8
    <3>1. /\ HeadLen[t] = S[8] /\ S[0] = 0
          /\ \A i \in 1..8 : S[i] = S[i - 1] + Widths[t][i] /\ Widths[t][i] = 1
      <4>1. \A i \in 1..8 : head[i].kind # "len16"
        BY StartHead
      <4> QED BY <2>3, <4>1 DEF Summed
    <3> HIDE DEF S
    <3> QED BY <3>1
  <2> QED BY <2>2, <2>5, <2>6, <2>7, <2>8, <2>9
<1>ContinuePlaces. /\ {"usermessage", "data"} \subseteq Fields["AuthenContinue"]
                   /\ "args" \notin Fields["AuthenContinue"]
                   /\ Kind["AuthenContinue"]["usermessage"] = "len16" /\ Kind["AuthenContinue"]["data"] = "len16"
                   /\ Offset["AuthenContinue"]["usermessage"] = 0 /\ Offset["AuthenContinue"]["data"] = 2
                   /\ HeadLen["AuthenContinue"] = 5
  <2> DEFINE t == "AuthenContinue"
             head == HeadOf[t]
             S == Sums(Widths[t])
  <2>1. t \in BodyType
    BY Layouts
  <2>2. /\ Regular(head) /\ Len(head) = 3
        /\ head[1].field = "usermessage" /\ head[2].field = "data" /\ head[3].field = "flags"
        /\ head[1].kind = "len16" /\ head[2].kind = "len16" /\ head[3].kind = "octet"
    BY ContinueHead
  <2>3. Items(t, 3) /\ Summed(t, 3)
    BY <2>1, <2>2, HeadItems, HeadSums, Zenon
  <2>4. /\ S[0] = 0 /\ Widths[t][1] = 2 /\ Widths[t][2] = 2 /\ Widths[t][3] = 1
        /\ S[1] = S[0] + Widths[t][1] /\ S[2] = S[1] + Widths[t][2] /\ S[3] = S[2] + Widths[t][3]
        /\ HeadLen[t] = S[3]
    BY <2>2, <2>3 DEF Summed
  <2>5. S[0] = 0 /\ S[1] = 2 /\ HeadLen[t] = 5
    BY <2>4
  <2>6. /\ Kind[t][head[1].field] = head[1].kind /\ Kind[t][head[2].field] = head[2].kind
        /\ Offset[t][head[1].field] = S[0] /\ Offset[t][head[2].field] = S[1]
        /\ Fields[t] = {head[1].field, head[2].field, head[3].field}
    <3>1. /\ Fields[t] = {head[i].field : i \in 1..3}
          /\ \A i \in 1..3 : /\ Kind[t][head[i].field] = head[i].kind
                            /\ Offset[t][head[i].field] = S[i - 1]
      BY <2>3 DEF Items
    <3> HIDE DEF head, S
    <3>2. 1..3 = {1, 2, 3} /\ 1 - 1 = 0 /\ 2 - 1 = 1
      OBVIOUS
    <3> QED BY <3>1, <3>2
  <2> QED BY <2>2, <2>5, <2>6
<1> SUFFICES ASSUME NEW d \in Seq(Octet), Len(d) < AmbiguousFrom
             PROVE {} \in {UnmarshalBinary(t, d) : t \in {"AuthenStart", "AuthenContinue"}}
  OBVIOUS
<1> DEFINE s == "AuthenStart"
           c == "AuthenContinue"
           X == Texts[c]
           k == Len(X)
           lens == Lengths(c, d)
<1>1. SUFFICES ASSUME NEW m \in UnmarshalBinary(s, d), NEW o \in UnmarshalBinary(c, d)
               PROVE  FALSE
  <2>1. UnmarshalBinary(s, d) = {} \/ UnmarshalBinary(c, d) = {}
    BY <1>1
  <2> QED BY <2>1
<1>2. s \in BodyType /\ c \in BodyType /\ Layout[s].min = 8
  BY Layouts DEF AuthenStart
<1>3. Len(d) \in Nat /\ Len(d) >= 8
  BY <1>2 DEF UnmarshalBinary
<1>4. HeadLen[s] <= Len(d) /\ HeadLen[c] <= Len(d) /\ HeadLen[c] = 5
  <2>1. HeadLen[c] = 5 /\ HeadLen[s] = 8
    BY <1>ContinuePlaces, <1>StartPlaces
  <2> QED BY <1>3, <2>1
<1>5. m = Assembled(s, d, Pieces(s, d)) /\ Valid(s, m)
  BY DEF UnmarshalBinary
<1>6. /\ m["action"] = ReadItem(s, "action", d) /\ m["type"] = ReadItem(s, "type", d)
  BY <1>5, <1>StartPlaces, Zenon DEF Assembled
<1>7. m["action"] \in AuthenAction
  <2>1. PICK x \in Range(HeadOf[s]) : x.field = "action" /\ x.kind = "octet" /\ x.allowed = AuthenAction
    BY <1>StartPlaces
  <2>2. ValidField(x, m[x.field])
    BY <1>5 DEF Valid
  <2> QED BY <2>1, <2>2, Zenon DEF ValidField
<1>8. m["type"] # 0
  BY <1>5 DEF Valid
<1>9. ItemAt(s, "action", d) /\ ItemAt(s, "type", d)
  BY <1>2, <1>4, <1>StartPlaces, ItemsRead
<1>10. /\ d[1] \in Octet /\ m["action"] = d[1] /\ d[3] \in Octet /\ m["type"] = d[3]
  <2>1. /\ d[0 + 1] \in Octet /\ ReadItem(s, "action", d) = d[0 + 1]
        /\ d[2 + 1] \in Octet /\ ReadItem(s, "type", d) = d[2 + 1]
    BY <1>9, <1>StartPlaces, Zenon DEF ItemAt
  <2>2. 0 + 1 = 1 /\ 2 + 1 = 3
    OBVIOUS
  <2> QED BY <1>6, <2>1, <2>2
<1>11. d[1] \in Nat /\ d[1] >= 1 /\ d[3] \in Nat /\ d[3] >= 1
  <2>1. d[1] \in {1, 2, 4}
    BY <1>7, <1>10 DEF AuthenAction
  <2> QED BY <1>8, <1>10, <2>1, OctetRange
<1>12. ItemAt(c, "usermessage", d) /\ ItemAt(c, "data", d)
  BY <1>2, <1>4, <1>ContinuePlaces, ItemsRead
<1>13. /\ d[2] \in Octet /\ ReadItem(c, "usermessage", d) = 256 * d[1] + d[2]
       /\ d[4] \in Octet /\ ReadItem(c, "data", d) = 256 * d[3] + d[4]
  <2>1. /\ d[0 + 2] \in Octet /\ ReadItem(c, "usermessage", d) = 256 * d[0 + 1] + d[0 + 2]
        /\ d[2 + 2] \in Octet /\ ReadItem(c, "data", d) = 256 * d[2 + 1] + d[2 + 2]
    BY <1>12, <1>ContinuePlaces, ZenonT(30) DEF ItemAt
  <2>2. 0 + 1 = 1 /\ 2 + 1 = 3 /\ 0 + 2 = 2 /\ 2 + 2 = 4
    OBVIOUS
  <2> QED BY <2>1, <2>2
<1>14. /\ ReadItem(c, "usermessage", d) \in Nat /\ ReadItem(c, "usermessage", d) >= 256
       /\ ReadItem(c, "data", d) \in Nat /\ ReadItem(c, "data", d) >= 256
  <2> DEFINE p == d[1]
             q == d[2]
             v == d[3]
             w == d[4]
  <2>1. p \in Nat /\ p >= 1 /\ q \in Nat /\ v \in Nat /\ v >= 1 /\ w \in Nat
    BY <1>11, <1>13, OctetRange
  <2>2. ReadItem(c, "usermessage", d) = 256 * p + q /\ ReadItem(c, "data", d) = 256 * v + w
    BY <1>13
  <2> HIDE DEF p, q, v, w
  <2>3. 256 * p + q \in Nat /\ 256 * p + q >= 256 /\ 256 * v + w \in Nat /\ 256 * v + w >= 256
    BY <2>1, SMT
  <2> QED BY <2>2, <2>3
<1>15. /\ k \in Nat /\ ArgCount(c, d) \in Nat
       /\ lens \in Seq(Nat) /\ Len(lens) = k + ArgCount(c, d)
       /\ \A i \in 1..k : lens[i] = ReadItem(c, X[i], d)
  BY <1>2, <1>4, LengthsRead
<1>16. /\ \E i \in 1..k : X[i] = "usermessage"
       /\ \E i \in 1..k : X[i] = "data"
  BY <1>2, TextFields, <1>ContinuePlaces DEF TextsAre
<1>17. PICK i \in 1..k, j \in 1..k : X[i] = "usermessage" /\ X[j] = "data"
  BY <1>16
<1> HIDE DEF k, X, lens
<1>18. lens[i] >= 256 /\ lens[j] >= 256 /\ i # j
  BY <1>14, <1>15, <1>17, SMTT(20)
<1>19. i \in 1..Len(lens) /\ j \in 1..Len(lens) /\ lens[i] \in Nat /\ lens[j] \in Nat
  <2>1. i \in 1..Len(lens) /\ j \in 1..Len(lens)
    BY <1>15
  <2> QED BY <1>15, <2>1
<1>20. Sums(lens)[Len(lens)] >= 512 /\ Sums(lens)[Len(lens)] \in Nat
  <2>1. Sums(lens) \in [0..Len(lens) -> Nat] /\ Len(lens) \in 0..Len(lens)
    BY <1>15, SumsSteps
  <2>2. Sums(lens)[Len(lens)] \in Nat
    BY <2>1
  <2>3. CASE i < j
    <3>1. lens[i] + lens[j] <= Sums(lens)[Len(lens)]
      BY <1>15, <1>19, <2>3, TwoOfSum, Zenon
    <3> QED BY <1>18, <1>19, <2>2, <3>1
  <2>4. CASE j < i
    <3>1. lens[j] + lens[i] <= Sums(lens)[Len(lens)]
      BY <1>15, <1>19, <2>4, TwoOfSum, Zenon
    <3> QED BY <1>18, <1>19, <2>2, <3>1
  <2> QED BY <1>18, <2>3, <2>4
<1>21. ~(Sum(lens) > TextLen(c, d))
  <2>1. Len(d) >= Layout[c].min
    <3>1. Layout[c].min = 5
      BY Layouts DEF AuthenContinue
    <3> QED BY <1>3, <3>1
  <2>2. ~ShortBody(c, d)
    BY <1>1 DEF UnmarshalBinary
  <2> QED BY <2>1, <2>2 DEF ShortBody, lens
<1>22. TextLen(c, d) < 512 /\ TextLen(c, d) \in Nat
  <2>1. TextStart(c, d) = 5
    BY <1>4, <1>ContinuePlaces DEF TextStart, ArgCount
  <2>2. Len(d) < 517
    BY DEF AmbiguousFrom
  <2> QED BY <1>3, <2>1, <2>2 DEF TextLen
<1> QED BY <1>20, <1>21, <1>22 DEF Sum

(***************************************************************************)
(* The answer to a bad secret                                              *)
(***************************************************************************)
\* A message without arguments and with two short texts.
Brief(t, m) ==
    /\ IsMessage(t, m) /\ Valid(t, m) /\ ArgsOf(t, m) = <<>>
    /\ \A f \in Fields[t] : Kind[t][f] \in {"len8", "len16"} =>
          f \in {"servermsg", "data"} /\ Len(m[f]) <= 3

LEMMA BriefFits ==
    \A t \in BodyType : \A m :
        Brief(t, m) /\ (\A f \in Fields[t] : Kind[t][f] \in {"len8", "count"} => m[f] = <<>>) =>
            Fits(t, m)
<1>BriefIsShort. ASSUME NEW t \in BodyType, NEW m, Brief(t, m)
                 PROVE  MarshalBinary(t, m) \in Seq(Octet) /\ Len(MarshalBinary(t, m)) <= 15
  <2> USE <1>BriefIsShort
  <2> DEFINE P == PartsOf(t, m)
             X == Texts[t]
             k == Len(X)
             lens == PartLengths(t, m)
             S == Sums(lens)
  <2>1. IsMessage(t, m) /\ Valid(t, m) /\ ArgsOf(t, m) = <<>> /\ Len(ArgsOf(t, m)) = 0
    BY DEF Brief
  <2>2. /\ P \in Seq(Seq(Octet)) /\ Measures(lens, P)
        /\ k \in Nat /\ Len(P) = k + 0
        /\ \A i \in 1..k : P[i] = m[X[i]]
    BY <2>1, PartsMeasured DEF PartsAre
  <2>3. /\ X \in Seq(Fields[t])
        /\ \A i \in 1..k : Kind[t][X[i]] \in {"len8", "len16"}
        /\ \A i, j \in 1..k : X[i] = X[j] => i = j
    BY TextFields DEF TextsAre
  <2> HIDE DEF P, X, k, lens
  <2>4. \A i \in 1..k : X[i] \in Fields[t]
    BY <2>3 DEF k
  <2>5. \A i \in 1..k : X[i] \in {"servermsg", "data"} /\ Len(m[X[i]]) <= 3
    BY <2>3, <2>4 DEF Brief
  <2>6. k <= 2
    <3>1. SUFFICES ASSUME k >= 3 PROVE FALSE
      BY <2>2
    <3>2. 1 \in 1..k /\ 2 \in 1..k /\ 3 \in 1..k
      BY <2>2, <3>1
    <3>3. X[1] # X[2] /\ X[1] # X[3] /\ X[2] # X[3]
      BY <2>3, <3>2
    <3> QED BY <2>5, <3>2, <3>3
  <2>7. Len(P) = k
    BY <2>2
  <2>8. lens \in Seq(Nat) /\ Len(lens) = k /\ \A i \in 1..k : lens[i] \in Nat /\ lens[i] <= 3
    <3>1. lens \in Seq(Nat) /\ Len(lens) = k /\ \A i \in 1..k : Len(P[i]) = lens[i]
      BY <2>2, <2>7 DEF Measures
    <3>2. \A i \in 1..k : lens[i] \in Nat
      BY <3>1
    <3>3. ASSUME NEW i \in 1..k PROVE lens[i] <= 3
      <4>1. lens[i] = Len(P[i])
        BY <3>1
      <4>2. P[i] = m[X[i]]
        BY <2>2
      <4>3. Len(m[X[i]]) <= 3
        BY <2>5
      <4> QED BY <4>1, <4>2, <4>3
    <3> QED BY <3>1, <3>2, <3>3
  <2>9. S \in [0..k -> Nat] /\ S[0] = 0 /\ \A i \in 1..k : S[i] = S[i - 1] + lens[i]
    BY <2>8, SumsSteps, Zenon
  <2> HIDE DEF S
  <2>10. S[k] \in Nat /\ S[k] <= 6
    <3>1. CASE k = 0
      BY <2>9, <3>1
    <3>2. CASE k = 1
      <4>1. S[1] = S[0] + lens[1]
        BY <2>9, <3>2
      <4> QED BY <2>8, <2>9, <3>2, <4>1
    <3>3. CASE k = 2
      <4>1. S[1] = S[0] + lens[1] /\ S[2] = S[1] + lens[2]
        BY <2>9, <3>3
      <4> QED BY <2>8, <2>9, <3>3, <4>1
    <3> QED BY <2>2, <2>6, <3>1, <3>2, <3>3
  <2>11. Len(Flat(P)) = S[k]
    <3>1. Len(Flat(P)) = Sums(lens)[Len(P)]
      BY <2>2, FlatPlaces
    <3> QED BY <2>7, <3>1 DEF S
  <2>12. /\ MarshalBinary(t, m) \in Seq(Octet) /\ Len(ArgLengths(t, m)) = 0
         /\ Laid(MarshalBinary(t, m), Join(EncodedItems(t, m)), ArgLengths(t, m), Flat(P))
    BY <2>1, Encoded DEF P
  <2>13. Len(Join(EncodedItems(t, m))) = HeadLen[t] /\ HeadLen[t] \in Nat /\ HeadLen[t] <= 9
    BY <2>1, EncodedHead, HeadLengths
  <2>14. Len(MarshalBinary(t, m)) = (HeadLen[t] + 0) + S[k]
    BY <2>11, <2>12, <2>13 DEF Laid
  <2> QED BY <2>10, <2>12, <2>13, <2>14
<1> SUFFICES ASSUME NEW t \in BodyType, NEW m, Brief(t, m),
           \A f \in Fields[t] : Kind[t][f] \in {"len8", "count"} => m[f] = <<>>
             PROVE Fits(t, m)
  OBVIOUS
<1>1. IsMessage(t, m) /\ Valid(t, m)
  BY DEF Brief
<1>2. Narrow(t, m)
  <2>1. \A x \in Range(HeadOf[t]) : x.field \in Fields[t] /\ x.kind = Kind[t][x.field]
    BY FieldKinds
  <2>2. \A x \in Range(HeadOf[t]) : x.kind \in {"len8", "count"} => m[x.field] = <<>>
    BY <2>1
  <2> QED BY <2>2 DEF Narrow
<1>3. Len(MarshalBinary(t, m)) <= MaxBodyLength
  <2>1. MarshalBinary(t, m) \in Seq(Octet) /\ Len(MarshalBinary(t, m)) <= 15
    BY <1>BriefIsShort
  <2>2. MaxBodyLength \in Nat /\ 15 <= MaxBodyLength
    BY SMT DEF MaxBodyLength
  <2> QED BY <2>1, <2>2
<1> QED BY <1>1, <1>2, <1>3, Zenon DEF Fits

=============================================================================
