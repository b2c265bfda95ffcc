CONSTANTS
    MaxPos   <- MCMaxPos
    MaxSize  <- MCMaxSize
    MaxItems <- MCMaxItems
    MaxParts <- MCMaxParts

SPECIFICATION Spec

INVARIANT AcceptedRangesAreRfcRanges
