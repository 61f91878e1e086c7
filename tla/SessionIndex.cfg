SPECIFICATION Spec
CONSTANTS
    Sessions = {s1, s2, s3}
    Host = host
    Tools = {t1}
    Targets = {0, 2}
    MaxOrdinal = 4
    Nobody = nobody
SYMMETRY Symmetry
INVARIANT OrdinalsDistinct
INVARIANT AckedIndexed
PROPERTY ImplementsOrder
