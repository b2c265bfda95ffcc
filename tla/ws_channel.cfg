CONSTANTS
    MaxSends  <- MCMaxSends
    MaxRecv   <- MCMaxRecv
    MaxCloses <- MCMaxCloses

SPECIFICATION Spec

PROPERTY ImplementsWsChannel
