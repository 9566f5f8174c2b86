CONSTANTS
    r1 = r1
    r2 = r2
    rx = rx
    s1 = s1
    Reqs <- MC_Reqs
    Foreign <- MC_Foreign
    MaxLog = 3
    MaxFaults = 1
    RespClients = {}
    RespQCap = 1
    MaxPub = 6

SPECIFICATION Spec
SYMMETRY MC_Symmetry

INVARIANT TypeOK
INVARIANT NoLeakedWaiter
INVARIANT RegisteredSlotEmpty
PROPERTY ConsumerNeverSkips
INVARIANT WaiterReachable
