SPECIFICATION Spec
CONSTANTS
    SessionID = {s1, s2}
    MaxSeq = 5
    MaxConns = 2
    Messages <- LoginMessages
    Text <- MCText
    Empty = ""
    Users <- MCUsers
    Authenticator <- MCAuthenticator
    Authorizer <- MCAuthorizer
    Accounter <- MCAccounter
    Credentials <- MCCredentials
INVARIANTS
    PassIsProved
    TableHoldsClaim
PROPERTIES
    GaugeFollowsTable
    ImplementsLogin
CHECK_DEADLOCK FALSE
