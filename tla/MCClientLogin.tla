--------------------------- MODULE MCClientLogin ---------------------------
(***************************************************************************)
(* ClientLogin with one user whose password differs from the name.         *)
(***************************************************************************)
EXTENDS ClientLogin

MCUsers == {"alice"}
MCText == {"", "alice", "secret"}
MCAuthenticator == [u \in MCUsers |-> "hash"]
MCAuthorizer == [u \in MCUsers |-> "stringy"]
MCAccounter == [u \in MCUsers |-> "local"]
MCCredentials == {<<"alice", "secret">>}
MCGiven == {<<"alice", "secret">>, <<"alice", "alice">>}

=============================================================================
