---------------------------- MODULE LoginSession ----------------------------
(***************************************************************************)
(* What a client may rely on when it logs in over a connection that it     *)
(* shares with other sessions, stated without packets, sequence numbers or *)
(* handlers.  Every session is its own small dialogue: the server may ask  *)
(* for a name once, then for the password of one name once, and then       *)
(* answers.  It grants a login to the name it asked the password of, or    *)
(* to the name of a dialogue of a single message.  Sessions move one at a  *)
(* time and never affect each other, except that all of them end when the  *)
(* connection does.                                                        *)
(***************************************************************************)
CONSTANTS SessionID, Text, Empty, Credentials

VARIABLES
    phase,      \* what each session waits for
    subject,    \* whose password a session waits for
    granted     \* the logins <<session, user>> the last step granted

vars == <<phase, subject, granted>>

Phase == {"idle", "username", "password"}

Init ==
    /\ phase = [s \in SessionID |-> "idle"]
    /\ subject = [s \in SessionID |-> Empty]
    /\ granted = {}

Move(s, p, u) ==
    /\ phase' = [phase EXCEPT ![s] = p]
    /\ subject' = [subject EXCEPT ![s] = u]

AskUsername(s) ==
    /\ phase[s] = "idle"
    /\ Move(s, "username", Empty)
    /\ granted' = {}

AskPassword(s, u) ==
    /\ phase[s] \in {"idle", "username"}
    /\ u # Empty
    /\ Move(s, "password", u)
    /\ granted' = {}

Grant(s, u) ==
    /\ \/ phase[s] = "idle"
       \/ phase[s] = "password" /\ subject[s] = u
    /\ \E p \in Text : <<u, p>> \in Credentials
    /\ Move(s, "idle", Empty)
    /\ granted' = {<<s, u>>}

\* Every other answer, to a login or to any other request.
Refuse(s) ==
    /\ Move(s, "idle", Empty)
    /\ granted' = {}

Hangup ==
    /\ phase' = [s \in SessionID |-> "idle"]
    /\ subject' = [s \in SessionID |-> Empty]
    /\ granted' = {}

Next ==
    \/ \E s \in SessionID : AskUsername(s) \/ Refuse(s)
    \/ \E s \in SessionID, u \in Text : AskPassword(s, u) \/ Grant(s, u)
    \/ Hangup

Spec == Init /\ [][Next]_vars

=============================================================================
