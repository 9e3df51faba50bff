\* run_job with a child of up to three lines, a two-second timeout and
\* half-second ticks; PATCH requests may take up to a second.
CONSTANTS
    Sec = 2
    UploadSec = 1
    TimeoutSec = 2
    PipeCap = 1
    MaxLines = 3
    MaxPatchTicks = 2
    ExitCodes = {0, 1}
SPECIFICATION FairSpec
\* run_job returns: the model covers one call, which really ends.
CHECK_DEADLOCK FALSE
INVARIANTS TypeOK LogIsOrderedSubsequence ReportMatchesChild
PROPERTIES RunnerTerminates
