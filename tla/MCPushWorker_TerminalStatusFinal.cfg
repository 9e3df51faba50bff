\* Expected violation of TerminalStatusFinal (see PROJECT.json findings).
CONSTANTS
    i1 = i1  i2 = i2  t1 = t1  k1 = k1
    Instances = {i1, i2}
    Tasks = {t1}
    Keys = {k1}
    TaskKey <- MCTaskKey
    VarKeys = {"CL", "PATCHSET"}
    MaxLines = 2
    MaxDeliveries = 2
    JobTimeout = 1
SPECIFICATION Spec
\* Every task answered and every server idle is where the queue really stops.
CHECK_DEADLOCK FALSE
PROPERTY TerminalStatusFinal
