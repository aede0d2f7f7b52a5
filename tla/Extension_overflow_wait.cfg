SPECIFICATION ExtensionSpec
CONSTANTS
    t1 = t1
    l1 = l1
    r1 = r1
    r2 = r2
    Tick = Tick
    None = None
    Item = {t1, l1}
    KindOf <- MCKindOf
    Size <- MCSize
    Request = {r1}
    MaxBuffered = 1
    Managed = FALSE
    MaxExports = 0
    IdOf <- MCIdOf
    Undecodable = {}
PROPERTIES
    InvokeReturns
