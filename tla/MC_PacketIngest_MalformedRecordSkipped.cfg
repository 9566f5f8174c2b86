\* One channel, no connection faults, a topic of 2 records of which one
\* may be undecodable.
CONSTANTS
    Clients = {}
    QCap = 1
    Cap = 2
    SnapMax = 1
    MaxLog = 2
    MaxFaults = 0
    MaxPub = 2
    PacketTs <- MC_PacketTs
    Garbled = garbled
    Threshold = 10
    Now = 7777
    Raises = raises
SPECIFICATION FairSpec
PROPERTY MalformedRecordSkipped
