------------------------------ MODULE JobStatus ------------------------------
(***************************************************************************)
(* What run_job of worker.py promises about the job it runs, with the      *)
(* supervision loop, the pipes, the uploads and the clock abstracted away: *)
(* the child runs until it exits with some code or is killed (a child that *)
(* has just exited may still be killed: proc.kill() on a dead process);    *)
(* /jobs/<cl>/<ps> is written once, only when the child no longer runs,    *)
(* and its status says how the child ended.                                *)
(***************************************************************************)
CONSTANTS
    ExitCodes   \* the exit codes the child may end with

VARIABLES
    child,      \* "running", "exited" or "killed"
    code,       \* the exit code, once the child exited
    status      \* the status written to /jobs/<cl>/<ps>, or "none"

avars == <<child, code, status>>

\* The status that says how the child ended (worker.py:146-151).
Outcome ==
    IF child = "killed" THEN "timedout"
    ELSE IF code = 0 THEN "succeded" ELSE "failed"

Init ==
    /\ child = "running"
    /\ status = "none"

\* The child exits on its own.
Exit ==
    /\ child = "running"
    /\ child' = "exited"
    /\ code' \in ExitCodes
    /\ UNCHANGED status

\* The runner gives up on the child before it reported.
Kill ==
    /\ status = "none"
    /\ child # "killed"
    /\ child' = "killed"
    /\ UNCHANGED <<code, status>>

\* The status is written, once, after the child stopped.
Report ==
    /\ status = "none"
    /\ child # "running"
    /\ status' = Outcome
    /\ UNCHANGED <<child, code>>

Next == Exit \/ Kill \/ Report

(***************************************************************************)
(* The runner does not wait for ever: it reports, killing the child first  *)
(* if that is what it takes.                                               *)
(***************************************************************************)
Spec == Init /\ [][Next]_avars
FairSpec == Spec /\ WF_avars(Kill \/ Report)
=============================================================================
