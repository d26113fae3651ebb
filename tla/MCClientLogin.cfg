SPECIFICATION ClientSpec
CONSTANTS
    SessionID = {s1}
    Sid = s1
    MaxSeq = 255
    MaxConns = 1
    Messages = {}
    Text <- MCText
    Empty = ""
    Users <- MCUsers
    Authenticator <- MCAuthenticator
    Authorizer <- MCAuthorizer
    Accounter <- MCAccounter
    Credentials <- MCCredentials
    Given <- MCGiven
INVARIANT GivenPasswordIsUsed
CHECK_DEADLOCK FALSE
