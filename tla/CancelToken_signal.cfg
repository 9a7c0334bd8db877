SPECIFICATION FairSpec
CONSTANTS
    Waiters = {w1, w2}
    Cancellers = {k1, k2}
INVARIANTS NoLostWakeup
PROPERTIES ImplementsSignal
