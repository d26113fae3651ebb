---------------------------- MODULE SharedRules ----------------------------
(***************************************************************************)
(* One pattern of a command rule while several requests of its user are    *)
(* evaluated at once.  CommandBasedAuthorizer.evaluate (command.go) trims  *)
(* the rules of the user in place (Command.TrimSpace, types.go) and then   *)
(* matches with them.  The loop variable is a copy of the rule, but the    *)
(* slice of its patterns is shared by all requests, on all connections.    *)
(*                                                                         *)
(* A Go string is two words, where its octets start and how many they are, *)
(* and no lock is taken: each word is loaded and stored by a step of its   *)
(* own, in either order.  The octets themselves never change.              *)
(***************************************************************************)
EXTENDS Naturals, Sequences

CONSTANTS
    Request,    \* requests in hand, each in a goroutine of its own
    Texts,      \* patterns as configured, sequences of characters
    Space       \* the characters TrimSpace removes

Word == {"off", "len"}

VARIABLES
    text,       \* the octets in memory
    cell,       \* Match[i]: the words of the shared string
    pc,         \* what each request does next
    todo,       \* the words it still has to load or store
    reg,        \* the words it holds
    used        \* the pattern it gave to regexp.MatchString, as a set

vars == <<text, cell, pc, todo, reg, used>>

\* Octets past the end belong to something else.
CharAt(k) == IF k < Len(text) THEN text[k + 1] ELSE "beyond"

Chars(s) == [i \in 1..s.len |-> CharAt(s.off + i - 1)]

Blank(s, k) == CharAt(s.off + k) \in Space

\* strings.TrimSpace: a part of the same octets.  What remains of blanks alone is
\* the empty string at the place of its argument.
TrimSpace(s) ==
    LET kept == {k \in 0..(s.len - 1) : ~Blank(s, k)}
        first == CHOOSE k \in kept : \A j \in kept : k <= j
        last == CHOOSE k \in kept : \A j \in kept : j <= k
    IN  IF kept = {} THEN [s EXCEPT !.len = 0]
        ELSE [off |-> s.off + first, len |-> last - first + 1]

Configured == [off |-> 0, len |-> Len(text)]

Init ==
    /\ text \in Texts
    /\ cell = Configured
    /\ pc = [r \in Request |-> "idle"]
    /\ todo = [r \in Request |-> Word]
    /\ reg = [r \in Request |-> Configured]
    /\ used = [r \in Request |-> {}]

\* A request reaches the rule, which is trimmed before its name is looked at.
Evaluate(r) ==
    /\ pc[r] = "idle"
    /\ pc' = [pc EXCEPT ![r] = "trim"]
    /\ used' = [used EXCEPT ![r] = {}]
    /\ UNCHANGED <<text, cell, todo, reg>>

Done(r) == todo[r] = {}

Load(r, w) ==
    /\ pc[r] \in {"trim", "match"}
    /\ w \in todo[r]
    /\ reg' = [reg EXCEPT ![r][w] = cell[w]]
    /\ todo' = [todo EXCEPT ![r] = @ \ {w}]
    /\ UNCHANGED <<text, cell, pc, used>>

Trim(r) ==
    /\ pc[r] = "trim" /\ Done(r)
    /\ reg' = [reg EXCEPT ![r] = TrimSpace(@)]
    /\ pc' = [pc EXCEPT ![r] = "store"]
    /\ todo' = [todo EXCEPT ![r] = Word]
    /\ UNCHANGED <<text, cell, used>>

Store(r, w) ==
    /\ pc[r] = "store"
    /\ w \in todo[r]
    /\ cell' = [cell EXCEPT ![w] = reg[r][w]]
    /\ todo' = [todo EXCEPT ![r] = @ \ {w}]
    /\ UNCHANGED <<text, pc, reg, used>>

Trimmed(r) ==
    /\ pc[r] = "store" /\ Done(r)
    /\ pc' = [pc EXCEPT ![r] = "match"]
    /\ todo' = [todo EXCEPT ![r] = Word]
    /\ UNCHANGED <<text, cell, reg, used>>

\* The rule is for another command.
Skip(r) ==
    /\ pc[r] = "store" /\ Done(r)
    /\ pc' = [pc EXCEPT ![r] = "idle"]
    /\ todo' = [todo EXCEPT ![r] = Word]
    /\ UNCHANGED <<text, cell, reg, used>>

Match(r) ==
    /\ pc[r] = "match" /\ Done(r)
    /\ used' = [used EXCEPT ![r] = {Chars(reg[r])}]
    /\ pc' = [pc EXCEPT ![r] = "idle"]
    /\ todo' = [todo EXCEPT ![r] = Word]
    /\ UNCHANGED <<text, cell, reg>>

Next ==
    \E r \in Request :
        \/ Evaluate(r) \/ Trim(r) \/ Trimmed(r) \/ Skip(r) \/ Match(r)
        \/ \E w \in Word : Load(r, w) \/ Store(r, w)

Spec == Init /\ [][Next]_vars

-----------------------------------------------------------------------------
\* types.go, TrimSpace: "removes all leading and trailing white space".  Nothing
\* else is ever removed: when no request is being evaluated, the stored pattern is
\* the configured one up to the white space around it.
PatternKept ==
    (\A r \in Request : pc[r] = "idle") =>
        Chars(TrimSpace(cell)) = Chars(TrimSpace(Configured))

=============================================================================
