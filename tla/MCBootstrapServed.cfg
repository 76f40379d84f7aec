SPECIFICATION Spec
CONSTANTS
    Extensions <- MCExtensions
    MaxBoots = 4
INVARIANT
    ServedIsComplete
