CONSTANTS
    Procs = {p, q, r}
    NoProc = none
    MaxKeys = 3
SYMMETRY Symmetric
SPECIFICATION Spec
INVARIANT ProvisionInv
INVARIANT NoRotation
INVARIANT MarkerLasts
