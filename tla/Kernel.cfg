SPECIFICATION KernelSpec
CONSTANTS
    o1 = o1
    o2 = o2
    o3 = o3
    Commands <- Varied
    Objects = {o1, o2, o3}
    Environment = "live"
    KnownTypes = {"known"}
    EmitRejections = {TRUE, FALSE}
    Seed <- MCSeed
    WithSuffix <- MCWithSuffix
    NoObject = NoObject
    NoEvent = NoEvent
    NoSnapshot = NoSnapshot
INVARIANTS SnapshotRefusedOnClash JournalExplainsStore OneEventPerCommand
