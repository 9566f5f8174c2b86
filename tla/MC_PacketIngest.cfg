\* One channel under fair scheduling of the consumer thread: 1 stream
\* request with a queue of 1, a ring buffer of 3 and snapshots of 2, a
\* topic of 3 records (valid, infinite or undecodable) and one fault.
CONSTANTS
    Clients = {c1}
    QCap = 1
    Cap = 3
    SnapMax = 2
    MaxLog = 3
    MaxFaults = 1
    MaxPub = 6
    PacketTs <- MC_PacketTs
    Garbled = garbled
    Threshold = 10
    Now = 7777
    Raises = raises
SPECIFICATION FairSpec
INVARIANTS TypeOK RingHoldsLatest
PROPERTIES SnapshotIsLatest PacketConsumerCatchesUp
