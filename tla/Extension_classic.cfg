SPECIFICATION ExtensionSpec
CONSTANTS
    t1 = t1
    l1 = l1
    r1 = r1
    r2 = r2
    Tick = Tick
    None = None
    Item = {t1, l1}
    KindOf <- MCKindOf
    Size <- MCSize
    Request = {r1, r2}
    MaxBuffered = 3
    Managed = FALSE
    MaxExports = 0
    IdOf <- MCIdOf
    Undecodable = {}
INVARIANTS
    ExtensionTypeOK
    ExtensionInv
    FlushSettles
    SettleInv
    OneFlushAtATime
    GracefulExit
PROPERTIES
    ImplementsExporter
    InvokeReturns
