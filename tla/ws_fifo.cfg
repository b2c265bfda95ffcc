CONSTANTS
    MaxSends  <- MCMaxSends
    MaxRecv   <- MCMaxRecv
    MaxCloses <- MCMaxCloses

SPECIFICATION Spec

INVARIANT TypeOK
INVARIANT WritesStartInSendOrder

