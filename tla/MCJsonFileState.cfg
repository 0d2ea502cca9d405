SPECIFICATION Spec
CONSTANTS
    r1 = r1  m1 = m1  m2 = m2
    Readers = {r1}
    Mutations = {m1, m2}
    Null = Null
    MaxCrashes = 1
CHECK_DEADLOCK FALSE
PROPERTY RecordsAreAppendOnly
