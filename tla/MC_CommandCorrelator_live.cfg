CONSTANTS
    r1 = r1
    r2 = r2
    rx = rx
    s1 = s1
    Reqs <- MC_OneReq
    Foreign <- MC_Foreign
    MaxLog = 2
    MaxFaults = 1
    RespClients <- MC_RespClients
    RespQCap = 1
    MaxPub = 4

SPECIFICATION Spec

PROPERTY RequestCompletes
PROPERTY ConsumerCatchesUp
