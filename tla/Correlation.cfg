SPECIFICATION Spec
CONSTANTS
    t1 = t1
    t2 = t2
    word = word
    r1 = r1
    r2 = r2
    r3 = r3
    odd = odd
    s1 = s1
    s2 = s2
    Trace = {t1, t2}
    Word = {word}
    RequestId = {r1, r2, r3}
    Odd = {odd}
    SpanId = {s1, s2}
    Empty = Empty
    Absent = Absent
    Undecodable = Undecodable
    Plain = Plain
    Record <- MCRecord
    Span <- MCSpan
    Capacity = 2
    MaxHeld = 4
INVARIANTS
    CorrelationTypeOK
    CorrelationInv
    Remembers
    TracesAreOwn
PROPERTY
    SameExportCorrelates
