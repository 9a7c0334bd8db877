SPECIFICATION Spec
CONSTANTS
    Procs = {p1, p2}
    OutLimit = 1
    MaxSends = 2
INVARIANTS
    EndGuaranteed
