----------------------------- MODULE PushWorker -----------------------------
(***************************************************************************)
(* worker-container/copy.py: simple_app, the WSGI handler of the App       *)
(* Engine push queue 'jobs', on Instances single-threaded servers          *)
(* (wsgiref's make_server handles one request at a time).  The queue       *)
(* delivers each task at least once: a task whose handler answered non-2xx *)
(* is delivered again, and so may one still in flight.  A delivery:        *)
(*   - answers 500 unless the form has REV; reads CL and PATCHSET;         *)
(*   - PUTs status 'started' to /jobs/<CL>/<PATCHSET>, DELETEs its logs;   *)
(*   - runs job_runner.sh, uploading on every wakeup (last_upload is never *)
(*     updated) under the key get_timestamp(), killing it after the        *)
(*     timeout;                                                            *)
(*   - PUTs the terminal status and answers 200.                           *)
(* Of the two streams only one is kept: what goes wrong on one goes wrong  *)
(* on the other.  The child's lines are read as it writes them (the line   *)
(* losses of the loop are JobRunner's subject).  Time is in seconds.       *)
(***************************************************************************)
EXTENDS Naturals

CONSTANTS
    Instances,      \* worker containers running copy.py
    Tasks,          \* the push tasks of one enqueue
    Keys,           \* the (CL, PATCHSET) paths
    TaskKey,        \* the path each task's CL and PATCHSET name
    VarKeys,        \* the form fields a task carries besides CFG and REV
    MaxLines,       \* bound on the lines one run of job_runner.sh writes
    MaxDeliveries,  \* bound on the deliveries of one task
    JobTimeout      \* JOB_TIMEOUT_SEC

ASSUME PushAssumption ==
    /\ Tasks # {} /\ TaskKey \in [Tasks -> Keys]
    /\ MaxLines \in Nat /\ MaxDeliveries \in Nat /\ JobTimeout \in Nat

\* enqueue_cl's job_params: CFG, REV and the configuration's variables.
Params == {"CFG", "REV"} \cup VarKeys

Terminal == {"succeded", "failed", "timedout"}
Statuses == {"none", "started"} \cup Terminal
HandlerPcs == {"idle", "check", "delete", "loop", "final", "respond"}

\* A log line: the task, which delivery of it, and the line's number.
Lines == Tasks \X (1..MaxDeliveries) \X (1..MaxLines)

VARIABLES
    now,        \* the wall clock, in seconds
    done,       \* tasks the queue has seen answered 200
    sent,       \* sent[t]: deliveries of t so far
    hpc,        \* hpc[i]: where instance i's handler is
    htask,      \* the task, and which delivery of it, instance i handles
    hdel,
    left,       \* lines job_runner.sh has still to write
    hang,       \* job_runner.sh never exits
    tstart,     \* tstart of the delivery
    outcome,    \* the status the delivery computed
    status,     \* /jobs/<CL>/<PATCHSET>
    logs,       \* /logs/<CL>/<PATCHSET>: second -> line
    reported    \* reported[t]: terminal statuses deliveries of t have PUT

vars == <<now, done, sent, hpc, htask, hdel, left, hang, tstart, outcome,
          status, logs, reported>>

TypeOK ==
    /\ now \in Nat
    /\ done \subseteq Tasks
    /\ sent \in [Tasks -> 0..MaxDeliveries]
    /\ hpc \in [Instances -> HandlerPcs]
    /\ htask \in [Instances -> Tasks]
    /\ hdel \in [Instances -> 0..MaxDeliveries]
    /\ left \in [Instances -> 0..MaxLines]
    /\ hang \in [Instances -> BOOLEAN]
    /\ tstart \in [Instances -> Nat]
    /\ outcome \in [Instances -> Terminal \cup {"none"}]
    /\ status \in [Keys -> Statuses]
    /\ \A k \in Keys : \A s \in DOMAIN logs[k] : s \in Nat /\ logs[k][s] \in Lines
    /\ reported \in [Tasks -> SUBSET Terminal]

Init ==
    /\ now = 0
    /\ done = {}
    /\ sent = [t \in Tasks |-> 0]
    /\ hpc = [i \in Instances |-> "idle"]
    /\ htask = [i \in Instances |-> CHOOSE t \in Tasks : TRUE]
    /\ hdel = [i \in Instances |-> 0]
    /\ left = [i \in Instances |-> 0]
    /\ hang = [i \in Instances |-> FALSE]
    /\ tstart = [i \in Instances |-> 0]
    /\ outcome = [i \in Instances |-> "none"]
    /\ status = [k \in Keys |-> "none"]
    /\ logs = [k \in Keys |-> <<>>]
    /\ reported = [t \in Tasks |-> {}]

Key(i) == TaskKey[htask[i]]

\* The push queue hands a task not yet answered 200 to an idle server.
Deliver(t, i) ==
    /\ t \notin done
    /\ sent[t] < MaxDeliveries
    /\ hpc[i] = "idle"
    /\ sent' = [sent EXCEPT ![t] = @ + 1]
    /\ htask' = [htask EXCEPT ![i] = t]
    /\ hdel' = [hdel EXCEPT ![i] = sent[t] + 1]
    /\ hpc' = [hpc EXCEPT ![i] = "check"]
    /\ UNCHANGED <<now, done, left, hang, tstart, outcome, status, logs, reported>>

\* Mutant: the 200 of start_response reaches the queue before the job ran.
UpdateStartedAcksEarly(i) ==
    /\ hpc[i] = "check"
    /\ IF {"REV", "CL", "PATCHSET"} \subseteq Params
         THEN /\ status' = [status EXCEPT ![Key(i)] = "started"]
              /\ hpc' = [hpc EXCEPT ![i] = "delete"]
              /\ done' = done \cup {htask[i]}
         ELSE /\ hpc' = [hpc EXCEPT ![i] = "idle"]
              /\ UNCHANGED <<status, done>>
    /\ UNCHANGED <<now, sent, htask, hdel, left, hang, tstart, outcome, logs,
                   reported>>

(***************************************************************************)
(* A POST without REV answers 500; update_job_status(args, 'started')      *)
(* raises KeyError, and so answers 500, when CL or PATCHSET is missing.    *)
(* Either way the task stays in the queue.                                 *)
(***************************************************************************)
UpdateStarted(i) ==
    /\ hpc[i] = "check"
    /\ IF {"REV", "CL", "PATCHSET"} \subseteq Params
         THEN /\ status' = [status EXCEPT ![Key(i)] = "started"]
              /\ hpc' = [hpc EXCEPT ![i] = "delete"]
         ELSE /\ hpc' = [hpc EXCEPT ![i] = "idle"]
              /\ UNCHANGED status
    /\ UNCHANGED <<now, done, sent, htask, hdel, left, hang, tstart, outcome,
                   logs, reported>>

\* delete_logs(args), then Popen of job_runner.sh; tstart = time.time().
DeleteLogs(i) ==
    /\ hpc[i] = "delete"
    /\ logs' = [logs EXCEPT ![Key(i)] = <<>>]
    /\ left' \in [Instances -> 0..MaxLines] /\ \A j \in Instances \ {i} : left'[j] = left[j]
    /\ hang' \in [Instances -> BOOLEAN] /\ \A j \in Instances \ {i} : hang'[j] = hang[j]
    /\ tstart' = [tstart EXCEPT ![i] = now]
    /\ hpc' = [hpc EXCEPT ![i] = "loop"]
    /\ UNCHANGED <<now, done, sent, htask, hdel, outcome, status, reported>>

\* update_logs: PATCH {get_timestamp(): line} into the stream's node.
PatchLine(i) ==
    [logs EXCEPT ![Key(i)] =
        [s \in DOMAIN logs[Key(i)] \cup {now} |->
            IF s = now THEN <<htask[i], hdel[i], MaxLines - left[i] + 1>>
            ELSE logs[Key(i)][s]]]

(***************************************************************************)
(* One wakeup of the loop that finds a line, or the child's exit, or the  *)
(* timeout: the line is uploaded at once (the upload test always holds),   *)
(* then proc.poll() breaks on an exit (status from the return code), then  *)
(* the timeout kills.                                                      *)
(***************************************************************************)
LoopWakeup(i) ==
    /\ hpc[i] = "loop"
    /\ LET late == now - tstart[i] > JobTimeout
       IN  \/ /\ left[i] > 0
              /\ logs' = PatchLine(i)
              /\ left' = [left EXCEPT ![i] = @ - 1]
              /\ IF late
                   THEN /\ outcome' = [outcome EXCEPT ![i] = "timedout"]
                        /\ hpc' = [hpc EXCEPT ![i] = "final"]
                   ELSE UNCHANGED <<hpc, outcome>>
           \/ /\ left[i] = 0 /\ ~hang[i]
              /\ \E code \in {"succeded", "failed"} :
                    outcome' = [outcome EXCEPT ![i] = code]
              /\ hpc' = [hpc EXCEPT ![i] = "final"]
              /\ UNCHANGED <<logs, left>>
           \/ /\ left[i] = 0 /\ hang[i] /\ late
              /\ outcome' = [outcome EXCEPT ![i] = "timedout"]
              /\ hpc' = [hpc EXCEPT ![i] = "final"]
              /\ UNCHANGED <<logs, left>>
    /\ UNCHANGED <<now, done, sent, htask, hdel, hang, tstart, status, reported>>

\* update_job_status(args, status): an unconditional PUT.
UpdateFinal(i) ==
    /\ hpc[i] = "final"
    /\ status' = [status EXCEPT ![Key(i)] = outcome[i]]
    /\ reported' = [reported EXCEPT ![htask[i]] = @ \cup {outcome[i]}]
    /\ hpc' = [hpc EXCEPT ![i] = "respond"]
    /\ UNCHANGED <<now, done, sent, htask, hdel, left, hang, tstart, outcome, logs>>

\* return status: the 200 response; the queue drops the task.
Respond(i) ==
    /\ hpc[i] = "respond"
    /\ done' = done \cup {htask[i]}
    /\ hpc' = [hpc EXCEPT ![i] = "idle"]
    /\ outcome' = [outcome EXCEPT ![i] = "none"]
    /\ UNCHANGED <<now, sent, htask, hdel, left, hang, tstart, status, logs, reported>>

\* A second passes while a job runs and has not yet timed out.
Tick ==
    /\ \E i \in Instances : hpc[i] = "loop" /\ now - tstart[i] <= JobTimeout
    /\ now' = now + 1
    /\ UNCHANGED <<done, sent, hpc, htask, hdel, left, hang, tstart, outcome,
                   status, logs, reported>>

Handler(i) ==
    UpdateStarted(i) \/ DeleteLogs(i) \/ LoopWakeup(i) \/ UpdateFinal(i) \/ Respond(i)

Next ==
    \/ \E t \in Tasks, i \in Instances : Deliver(t, i)
    \/ \E i \in Instances : Handler(i)
    \/ Tick

(***************************************************************************)
(* Each server runs its handler to the end; the queue keeps delivering a   *)
(* task that is not done while a server is free; time passes.              *)
(***************************************************************************)
Spec == Init /\ [][Next]_vars
FairSpec ==
    /\ Spec
    /\ \A i \in Instances : WF_vars(Handler(i))
    /\ WF_vars(\E t \in Tasks, i \in Instances : Deliver(t, i))
    /\ WF_vars(Tick)

-----------------------------------------------------------------------------
(* Properties *)

(***************************************************************************)
(* The queue drops a task only after some delivery of it PUT a terminal    *)
(* status: simple_app's 200 goes out when it returns, not at               *)
(* start_response.                                                         *)
(***************************************************************************)
AckAfterReport == \A t \in done : reported[t] # {}

(***************************************************************************)
(* Spec 4.3 and 8: every enqueued task is eventually run to its end and    *)
(* answered, so the queue stops delivering it.                             *)
(***************************************************************************)
AllTasksDone == <>(done = Tasks)

(***************************************************************************)
(* Spec 3 (JobStatus): the status is overwritten exactly once with a       *)
(* terminal value; once terminal it does not change.                       *)
(***************************************************************************)
TerminalStatusFinal ==
    [][\A k \in Keys : status[k] \in Terminal => status'[k] = status[k]]_status

(***************************************************************************)
(* Spec 3 and 5: a log upload adds a chunk and never replaces one.         *)
(***************************************************************************)
ChunkNeverOverwritten ==
    [][\A k \in Keys : \A s \in DOMAIN logs[k] :
          s \in DOMAIN logs'[k] => logs'[k][s] = logs[k][s]]_logs
=============================================================================
