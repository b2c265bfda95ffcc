CONSTANTS
    MaxData  <- MCMaxData
    MaxEarly <- MCMaxEarly

SPECIFICATION Spec

INVARIANT TypeOK

 
