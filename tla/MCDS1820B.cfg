SPECIFICATION FairSpec
CONSTANTS
    s1 = s1
    s2 = s2
    s3 = s3
    bus1 = bus1
    Sensor <- SensorMC
    Bus <- BusMC
    BusOf <- BusOfMC
    None = None
    N = 3
    If <- IfMC
    CONV = 2
    LOG = 2
    MaxUnplugs = 1
    MaxCmds = 1
INVARIANT TypeOK
PROPERTIES
    ReadingIsOwn
    DueIsServed
