CONSTANTS
    w1 = w1
    w2 = w2
    j1 = j1
    j2 = j2
    j3 = j3
    k1 = k1
    k2 = k2
    Workers = {w1, w2}
    Jobs = {j1, j2, j3}
    StatusKeys = {k1, k2}
    JobKey <- MCJobKey
    None = None
    Absent = Absent
    MaxFaults = 0
SPECIFICATION FairSpec
INVARIANTS
    
    OwnedRecordIsBeingClaimed
PROPERTIES
    AllJobsRun
