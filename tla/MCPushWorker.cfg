\* Two servers, one task delivered at most twice; job_runner.sh
\* writes up to two lines and times out after one second.  The form is
\* given CL and PATCHSET so that deliveries get past update_job_status: with
\* the form enqueue_cl really sends (CFG, REV and the configuration's
\* variables) every delivery answers 500, which MCPushWorker_AllTasksDone.cfg
\* shows.
CONSTANTS
    i1 = i1  i2 = i2  t1 = t1  k1 = k1
    Instances = {i1, i2}
    Tasks = {t1}
    Keys = {k1}
    TaskKey <- MCTaskKey
    VarKeys = {"CL", "PATCHSET"}
    MaxLines = 2
    MaxDeliveries = 2
    JobTimeout = 1
SPECIFICATION Spec
\* Every task answered and every server idle is where the queue really stops.
CHECK_DEADLOCK FALSE
INVARIANTS AckAfterReport
