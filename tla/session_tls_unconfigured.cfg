CONSTANTS
    Requests <- MCRequests
    MaxReqs  <- MCMaxReqs
    Builds   <- MCBuildsCpp

SPECIFICATION Spec

INVARIANT NoUndefinedBehaviour
