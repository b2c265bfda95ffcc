CONSTANTS
    Requests <- MCRequests
    MaxReqs  <- MCMaxReqs
    Builds   <- MCBuildsBoth

SPECIFICATION Spec

INVARIANT TypeOK
PROPERTY ImplementsExchange

PROPERTY CppReadsEnd
INVARIANT CxxParsedRequestsAnswered
