SPECIFICATION FairSpec
CONSTANTS
    Ids = {a, b}
    NoLedger = NoLedger
    MaxLen = 2
    MaxStarts = 2
    MaxConnects = 2
    MaxRollbacks = 1
    MaxLosses = 1
    MaxLoads = 1
    MaxFaults = 1
INVARIANTS NeverOverpaid OwnedBeforeGranted AcknowledgedIsOwned
PROPERTIES OnlyForOwnHistory AllPaid
CHECK_DEADLOCK FALSE
