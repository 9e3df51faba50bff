------------------------------- MODULE Worker -------------------------------
(***************************************************************************)
(* The CI worker of infra/perfetto-ci.appspot.com/worker-container/       *)
(* worker.py: every worker machine runs main(), which polls the Firebase   *)
(* collection /queued_jobs, tries to take ownership of one queued job with *)
(* try_take_job (GET the record, set its owner, PUT it back, DELETE it)    *)
(* and runs it with run_job, which ends by PATCHing /jobs/<cl>/<ps>.       *)
(*                                                                         *)
(* Each HTTP request to Firebase is one atomic step of the store; the      *)
(* steps of different workers interleave between them.  A job record is    *)
(* reduced to its owner field (the payload only selects the status key,    *)
(* JobKey).  run_job is one step here; its supervision loop is modelled in *)
(* the module JobRunner.  Any request may fail with a non-200 answer,      *)
(* which raises out of main() and ends the worker process.                 *)
(***************************************************************************)
EXTENDS Naturals, FiniteSets

CONSTANTS
    Workers,     \* worker machines, identified by get_vm_id()
    Jobs,        \* names of the records under /queued_jobs
    StatusKeys,  \* the paths /jobs/<cl>/<ps>
    JobKey,      \* JobKey[j]: the status path of job j (job['cl'], job['ps'])
    None,        \* Python None: no owner, no status, no current job
    Absent,      \* a path that holds no record (GET answers null)
    MaxFaults    \* bound on the failed HTTP requests of a behaviour

ASSUME NoneAssumption == None \notin Workers \cup Jobs
ASSUME AbsentAssumption == Absent \notin [owner : Workers \cup {None}]
ASSUME JobKeyAssumption == JobKey \in [Jobs -> StatusKeys]
ASSUME MaxFaultsAssumption == MaxFaults \in Nat

\* The terminal values run_job writes (worker.py:146-151), spelled as there.
Outcomes == {"succeded", "failed", "timedout"}

\* A record of /queued_jobs as try_take_job sees it.
Records == [owner : Workers \cup {None}]

VARIABLES
    queue,     \* /queued_jobs: job name -> record or Absent
    status,    \* /jobs/<cl>/<ps>: status path -> outcome or None
    pc,        \* where each worker's main() is
    snap,      \* names of the queue snapshot main() has not tried yet
    cur,       \* the job try_take_job / run_job is working on
    faults,    \* failed HTTP requests so far
    runs,      \* history: runs[w][j] = times w's try_take_job returned j
    finished   \* history: jobs whose run_job has returned

vars == <<queue, status, pc, snap, cur, faults, runs, finished>>

PcValues == {"poll", "take", "put", "delete", "run", "crashed"}

TypeOK ==
    /\ queue \in [Jobs -> Records \cup {Absent}]
    /\ status \in [StatusKeys -> Outcomes \cup {None}]
    /\ pc \in [Workers -> PcValues]
    /\ snap \in [Workers -> SUBSET Jobs]
    /\ cur \in [Workers -> Jobs \cup {None}]
    /\ faults \in 0..MaxFaults
    /\ runs \in [Workers -> [Jobs -> Nat]]
    /\ finished \in SUBSET Jobs

(***************************************************************************)
(* The queue is filled before the workers start: nothing under src/ writes *)
(* /queued_jobs, so every job starts queued without an owner.              *)
(***************************************************************************)
Init ==
    /\ queue = [j \in Jobs |-> [owner |-> None]]
    /\ status = [k \in StatusKeys |-> None]
    /\ pc = [w \in Workers |-> "poll"]
    /\ snap = [w \in Workers |-> {}]
    /\ cur = [w \in Workers |-> None]
    /\ faults = 0
    /\ runs = [w \in Workers |-> [j \in Jobs |-> 0]]
    /\ finished = {}

\* The jobs whose path holds a record.
Queued == {j \in Jobs : queue[j] # Absent}

(***************************************************************************)
(* fb_put(path, node, etag): with an etag the PUT carries if_match and the *)
(* store answers 412 unless the record is unchanged; without one it always *)
(* writes.  The ETag of a Firebase node is derived from its content.       *)
(***************************************************************************)
NoEtag == None
ETag(rec) == rec
FbPutSucceeds(j, etag) == etag = NoEtag \/ ETag(queue[j]) = etag
FbPut(j, node, etag) ==
    IF FbPutSucceeds(j, etag) THEN [queue EXCEPT ![j] = node] ELSE queue

(***************************************************************************)
(* main(): GET /queued_jobs.json.  An empty queue is a sleep and a new     *)
(* poll; otherwise the loop walks the names of the snapshot.               *)
(***************************************************************************)
MainPoll(w) ==
    /\ pc[w] = "poll"
    /\ IF Queued = {}
         THEN UNCHANGED <<pc, snap>>
         ELSE /\ snap' = [snap EXCEPT ![w] = Queued]
              /\ pc' = [pc EXCEPT ![w] = "take"]
    /\ UNCHANGED <<queue, status, cur, faults, runs, finished>>

\* Mutant: the owner check of try_take_job left out.
TryTakeJobGetNoOwnerCheck(w) ==
    /\ pc[w] = "take"
    /\ \E j \in snap[w] :
         /\ snap' = [snap EXCEPT ![w] = @ \ {j}]
         /\ \/ /\ queue[j] = Absent
               /\ pc' = [pc EXCEPT ![w] = "crashed"]
               /\ cur' = [cur EXCEPT ![w] = j]
            \/ /\ queue[j] # Absent
               /\ pc' = [pc EXCEPT ![w] = "put"]
               /\ cur' = [cur EXCEPT ![w] = j]
    /\ UNCHANGED <<queue, status, faults, runs, finished>>

(***************************************************************************)
(* try_take_job, first request: GET the record of the next name of the     *)
(* snapshot (dict order, any one).  A record owned by another worker is    *)
(* skipped (return None, continue); a path whose record is gone makes      *)
(* job['owner'] = ... raise a TypeError on None and the worker dies.      *)
(* When the snapshot is used up, main() polls again.                       *)
(***************************************************************************)
TryTakeJobGet(w) ==
    /\ pc[w] = "take"
    /\ \E j \in snap[w] :
         /\ snap' = [snap EXCEPT ![w] = @ \ {j}]
         /\ \/ /\ queue[j] = Absent
               /\ pc' = [pc EXCEPT ![w] = "crashed"]
               /\ cur' = [cur EXCEPT ![w] = j]
            \/ /\ queue[j] # Absent
               /\ queue[j].owner \notin {None, w}
               /\ pc' = [pc EXCEPT ![w] = IF snap'[w] = {} THEN "poll" ELSE "take"]
               /\ UNCHANGED cur
            \/ /\ queue[j] # Absent
               /\ queue[j].owner \in {None, w}
               /\ pc' = [pc EXCEPT ![w] = "put"]
               /\ cur' = [cur EXCEPT ![w] = j]
    /\ UNCHANGED <<queue, status, faults, runs, finished>>

\* A PUT answered 412 makes try_take_job return None: main() tries the next name.
AfterPut(w, etag) ==
    IF FbPutSucceeds(cur[w], etag) THEN "delete"
    ELSE IF snap[w] # {} THEN "take" ELSE "poll"

\* Mutant: the conditional PUT sends the ETag of the node it writes, not of the one it read.
TryTakeJobPutEtagOfNewNode(w) ==
    /\ pc[w] = "put"
    /\ queue' = FbPut(cur[w], [owner |-> w], ETag([owner |-> w]))
    /\ pc' = [pc EXCEPT ![w] = AfterPut(w, ETag([owner |-> w]))]
    /\ UNCHANGED <<status, snap, cur, faults, runs, finished>>

\* try_take_job: job['owner'] = get_vm_id(); fb_put(uri, job) -- no etag.
TryTakeJobPut(w) ==
    /\ pc[w] = "put"
    /\ queue' = FbPut(cur[w], [owner |-> w], NoEtag)
    /\ pc' = [pc EXCEPT ![w] = AfterPut(w, NoEtag)]
    /\ UNCHANGED <<status, snap, cur, faults, runs, finished>>

\* Mutant: the fb_delete of the claimed record left out.
TryTakeJobDeleteSkipped(w) ==
    /\ pc[w] = "delete"
    /\ runs' = [runs EXCEPT ![w][cur[w]] = @ + 1]
    /\ pc' = [pc EXCEPT ![w] = "run"]
    /\ UNCHANGED <<queue, status, snap, cur, faults, finished>>

\* try_take_job: fb_delete(uri); return job.
TryTakeJobDelete(w) ==
    /\ pc[w] = "delete"
    /\ queue' = [queue EXCEPT ![cur[w]] = Absent]
    /\ runs' = [runs EXCEPT ![w][cur[w]] = @ + 1]
    /\ pc' = [pc EXCEPT ![w] = "run"]
    /\ UNCHANGED <<status, snap, cur, faults, finished>>

(***************************************************************************)
(* run_job(job_name, job) returns after PATCHing /jobs/<cl>/<ps> with its  *)
(* outcome; main() then breaks out of the snapshot loop and polls again.  *)
(***************************************************************************)
RunJob(w) ==
    /\ pc[w] = "run"
    /\ \E o \in Outcomes : status' = [status EXCEPT ![JobKey[cur[w]]] = o]
    /\ finished' = finished \cup {cur[w]}
    /\ pc' = [pc EXCEPT ![w] = "poll"]
    /\ snap' = [snap EXCEPT ![w] = {}]
    /\ cur' = [cur EXCEPT ![w] = None]
    /\ UNCHANGED <<queue, faults, runs>>

(***************************************************************************)
(* The request the worker is making answers non-200: fb_get, fb_put,       *)
(* fb_delete and fb_patch raise, nothing in main() catches it, and the     *)
(* worker process ends where it was.                                       *)
(***************************************************************************)
HttpFailure(w) ==
    /\ pc[w] # "crashed"
    /\ faults < MaxFaults
    /\ faults' = faults + 1
    /\ pc' = [pc EXCEPT ![w] = "crashed"]
    /\ UNCHANGED <<queue, status, snap, cur, runs, finished>>

WorkerStep(w) ==
    \/ MainPoll(w)
    \/ TryTakeJobGet(w)
    \/ TryTakeJobPut(w)
    \/ TryTakeJobDelete(w)
    \/ RunJob(w)

Next == \E w \in Workers : WorkerStep(w) \/ HttpFailure(w)

(***************************************************************************)
(* Each worker is its own machine running main() in a loop whose only     *)
(* waits are HTTP requests and the bounded run of a job: none stops for    *)
(* ever while it can move, so each worker's steps are weakly fair.  A      *)
(* failed request is not something the system is bound to do.              *)
(***************************************************************************)
Fairness == \A w \in Workers : WF_vars(WorkerStep(w))

Spec == Init /\ [][Next]_vars
FairSpec == Spec /\ Fairness

-----------------------------------------------------------------------------
(* Properties *)

(***************************************************************************)
(* A worker never runs the same job twice.  A record can be written back   *)
(* into /queued_jobs by a late PUT of another worker after its claimer     *)
(* deleted it, and the worker that ran the job polls it again; only the    *)
(* owner check of try_take_job keeps it from taking the job a second time. *)
(***************************************************************************)
AtMostOncePerWorker == \A w \in Workers, j \in Jobs : runs[w][j] <= 1

(***************************************************************************)
(* A queued record that carries an owner has a live claimer: that worker  *)
(* has PUT it and is about to DELETE it.  A stranded owned record would be *)
(* skipped by every other worker for ever (the owner check), so the job    *)
(* would never run.                                                        *)
(***************************************************************************)
OwnedRecordIsBeingClaimed ==
    \A j \in Queued :
        queue[j].owner # None => /\ pc[queue[j].owner] = "delete"
                                 /\ cur[queue[j].owner] = j

(***************************************************************************)
(* With failing requests: a queued record that carries an owner was left   *)
(* there by that owner's PUT, and the owner is either about to DELETE it   *)
(* or died between the PUT and the DELETE.  No worker that polls, claims   *)
(* another record or runs a job owns a record, so a stranded record always *)
(* belongs to a dead worker, which only its own restart could remove.      *)
(***************************************************************************)
OwnedRecordHasClaimer ==
    \A j \in Queued :
        queue[j].owner # None => /\ pc[queue[j].owner] \in {"delete", "crashed"}
                                 /\ cur[queue[j].owner] = j

(***************************************************************************)
(* Every queued job is eventually run to its end by some worker, although  *)
(* workers die on records that vanished under their stale snapshot.        *)
(***************************************************************************)
AllJobsRun == <>(finished = Jobs)

(***************************************************************************)
(* Spec 4.1 and 8: of concurrent claims of one queued job at most one      *)
(* succeeds; no two workers run the same job.                              *)
(***************************************************************************)
ExclusiveClaim ==
    \A j \in Jobs : Cardinality({w \in Workers : pc[w] = "run" /\ cur[w] = j}) <= 1

(***************************************************************************)
(* Spec 4.1 and 7: losing a claim race is routine and never an error, so a *)
(* worker whose requests all succeed never dies.                           *)
(***************************************************************************)
RaceLostIsRoutine == faults = 0 => \A w \in Workers : pc[w] # "crashed"

(***************************************************************************)
(* Spec non-goals and 7: execution is at least once and a transport        *)
(* failure is retried by the polling loop: a job that left the queue is    *)
(* being run or has been run.                                              *)
(***************************************************************************)
JobNotLost ==
    \A j \in Jobs : j \in Queued \/ j \in finished
                    \/ \E w \in Workers : pc[w] \in {"put", "delete", "run"} /\ cur[w] = j
=============================================================================
