SPECIFICATION Spec
CONSTANTS
    Writers = {w1, w2, w3}
    Timed = {w1, w2}
    Sizes = {1, 2}
    Limit = 2
    MaxMsg = 3
    None = None
INVARIANTS MessageIntact IInv
PROPERTIES NobodyWaitsForever ImplementsStream
