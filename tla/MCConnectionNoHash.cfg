SPECIFICATION Spec
CONSTANTS
    SessionID = {s1}
    MaxSeq = 7
    MaxConns = 3
    Messages <- AllMessages
    Text <- MCText
    Empty = ""
    Users <- MCUsers
    Authenticator <- MCAuthenticator
    Authorizer <- MCAuthorizer
    Accounter <- MCAccounter
    Credentials <- MCCredentials
INVARIANT
    HashIsOptional
CHECK_DEADLOCK FALSE
