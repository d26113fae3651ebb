------------------------------- MODULE Lists -------------------------------
(***************************************************************************)
(* Loops over a list that more than one module needs, as functions of how  *)
(* far the loop has come.  They take sequences and sets only, no operators,*)
(* so that facts about them can be stated once (module ListProofs).        *)
(***************************************************************************)
EXTENDS Integers, Sequences, FiniteSetsExt

\* Of the first i elements of s, those at the positions in I, in order.
KeptUpTo(s, I) ==
    LET kept[i \in 0..Len(s)] ==
            IF i = 0 THEN <<>>
            ELSE IF i \in I THEN Append(kept[i - 1], s[i]) ELSE kept[i - 1]
    IN  kept

Keep(s, I) == KeptUpTo(s, I)[Len(s)]

(***************************************************************************)
(* Sums and concatenations, of the elements of s from a + 1 to b.  A list  *)
(* may have hundreds of elements, so that they are taken by halves.        *)
(***************************************************************************)
SumOf(s) ==
    LET sum[a \in 0..Len(s)] ==
            [b \in 0..Len(s) |->
                IF b <= a THEN 0
                ELSE IF b = a + 1 THEN s[b]
                ELSE sum[a][(a + b) \div 2] + sum[(a + b) \div 2][b]]
    IN  sum

\* The sums of the first i elements of s.
Sums(s) == [i \in 0..Len(s) |-> SumOf(s)[0][i]]

JoinOf(ss) ==
    LET join[a \in 0..Len(ss)] ==
            [b \in 0..Len(ss) |->
                IF b <= a THEN <<>>
                ELSE IF b = a + 1 THEN ss[b]
                ELSE join[a][(a + b) \div 2] \o join[(a + b) \div 2][b]]
    IN  join

\* The lists of ss, one after the other.
Join(ss) == JoinOf(ss)[0][Len(ss)]

=============================================================================
