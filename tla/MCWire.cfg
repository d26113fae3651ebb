CONSTANTS
    Pad <- MCPadOctet
    Setups <- MCSetups
    Breaks <- MCBreaks
SPECIFICATION Spec
INVARIANTS
    TypeOK
    ReadsWhatWasWritten
    RoundTrip
    RightSecretAccepted
    AnswerIsReadable
    Canonical
    StartOrContinue
CHECK_DEADLOCK FALSE
