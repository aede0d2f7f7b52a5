SPECIFICATION Spec
CONSTANTS
    t1 = t1
    l1 = l1
    p1 = p1
    r1 = r1
    r2 = r2
    Tick = Tick
    None = None
    Item = {t1, l1, p1}
    KindOf <- MCKindOf
    Size <- MCSize
    Request = {r1, r2}
    MaxBuffered = 3
    Managed = TRUE
    MaxExports = 1
INVARIANTS
    ExporterTypeOK
    ExporterInv
    ExactlyOnce
    FlushCovers
    NotifySound
    BufferedIsSize
PROPERTY
    ImplementsLedger
CHECK_DEADLOCK FALSE
