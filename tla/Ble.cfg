SPECIFICATION Spec
CONSTANTS
    Advertisers = {a1, a2, a3}
    CacheMax = 2
    MaxGatt = 3
    Workloads <- MCWorkloads
 
PROPERTIES ReadReturnsOwn ScanHonest BodyEnds
