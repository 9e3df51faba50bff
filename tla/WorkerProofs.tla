---------------------------- MODULE WorkerProofs ----------------------------
(***************************************************************************)
(* Proofs about the worker of worker.py (module Worker), for every set of  *)
(* workers, jobs and status paths and every fault bound.                   *)
(***************************************************************************)
EXTENDS Worker, TLAPS

\* The job a worker is claiming or running is one of the queued names.
CurTyped == \A w \in Workers : pc[w] \in {"put", "delete", "run"} => cur[w] \in Jobs

TypeInv == TypeOK /\ CurTyped

(***************************************************************************)
(* After w's try_take_job has returned j once, the record of j, if it is   *)
(* back under /queued_jobs, carries another worker as owner (only a PUT of *)
(* that worker can have written it), and w is not in the middle of a claim *)
(* of j.  This is what makes the owner check of the GET skip the record.   *)
(***************************************************************************)
ClaimedOnce ==
    \A w \in Workers, j \in Jobs :
        runs[w][j] = 1 =>
            /\ queue[j] # Absent => queue[j].owner \in Workers \ {w}
            /\ ~(pc[w] \in {"put", "delete"} /\ cur[w] = j)

IInv == TypeInv /\ AtMostOncePerWorker /\ ClaimedOnce

-----------------------------------------------------------------------------
(***************************************************************************)
(* Every reachable state is well typed, and a worker that is claiming or   *)
(* running has a job name in hand.                                         *)
(***************************************************************************)
LEMMA TypeInvInit == Init => TypeInv
  BY MaxFaultsAssumption DEF Init, TypeInv, TypeOK, CurTyped, Records, PcValues

LEMMA TypeInvStep == TypeInv /\ [Next]_vars => TypeInv'
  <1> SUFFICES ASSUME TypeInv, [Next]_vars PROVE TypeInv'
    OBVIOUS
  <1> USE DEF TypeInv, TypeOK, CurTyped, Records, PcValues
  <1>1. ASSUME NEW w \in Workers, MainPoll(w) PROVE TypeInv'
    BY <1>1 DEF MainPoll, Queued
  <1>2. ASSUME NEW w \in Workers, TryTakeJobGet(w) PROVE TypeInv'
    <2>1. PICK j \in snap[w] :
            /\ snap' = [snap EXCEPT ![w] = @ \ {j}]
            /\ \/ /\ pc' = [pc EXCEPT ![w] = "crashed"]
                  /\ cur' = [cur EXCEPT ![w] = j]
               \/ /\ pc' = [pc EXCEPT ![w] = IF snap'[w] = {} THEN "poll" ELSE "take"]
                  /\ UNCHANGED cur
               \/ /\ pc' = [pc EXCEPT ![w] = "put"]
                  /\ cur' = [cur EXCEPT ![w] = j]
      BY <1>2 DEF TryTakeJobGet
    <2>2. j \in Jobs
      BY <2>1
    <2>3. UNCHANGED <<queue, status, faults, runs, finished>>
      BY <1>2 DEF TryTakeJobGet
    <2>4. QED
      BY <2>1, <2>2, <2>3
  <1>3. ASSUME NEW w \in Workers, TryTakeJobPut(w) PROVE TypeInv'
    BY <1>3, NoneAssumption DEF TryTakeJobPut, FbPut, FbPutSucceeds, AfterPut, NoEtag, ETag
  <1>4. ASSUME NEW w \in Workers, TryTakeJobDelete(w) PROVE TypeInv'
    BY <1>4 DEF TryTakeJobDelete
  <1>5. ASSUME NEW w \in Workers, RunJob(w) PROVE TypeInv'
    BY <1>5, JobKeyAssumption DEF RunJob, Outcomes
  <1>6. ASSUME NEW w \in Workers, HttpFailure(w) PROVE TypeInv'
    BY <1>6, MaxFaultsAssumption DEF HttpFailure
  <1>7. CASE UNCHANGED vars
    BY <1>7 DEF vars
  <1>8. QED
    BY <1>1, <1>2, <1>3, <1>4, <1>5, <1>6, <1>7 DEF Next, WorkerStep

(***************************************************************************)
(* Type correctness of the worker model: the store, the workers' locals    *)
(* and the histories keep their types in every behaviour.                  *)
(***************************************************************************)
THEOREM TypeCorrect == Spec => []TypeOK
  <1>1. Spec => []TypeInv
    BY TypeInvInit, TypeInvStep, PTL DEF Spec
  <1>2. QED
    BY <1>1, PTL DEF TypeInv

-----------------------------------------------------------------------------
LEMMA IInvInit == Init => IInv
  BY TypeInvInit DEF Init, IInv, AtMostOncePerWorker, ClaimedOnce

\* The two run-count conjuncts of the invariant, for one worker and one job.
RunInv(v, k) ==
    /\ runs[v][k] <= 1
    /\ runs[v][k] = 1 => /\ queue[k] # Absent => queue[k].owner \in Workers \ {v}
                         /\ ~(pc[v] \in {"put", "delete"} /\ cur[v] = k)

LEMMA RunInvSplit ==
  AtMostOncePerWorker /\ ClaimedOnce <=> \A v \in Workers, k \in Jobs : RunInv(v, k)
  BY DEF AtMostOncePerWorker, ClaimedOnce, RunInv

\* A count that is at most one and is not one is zero.
LEMMA ZeroOrOne == ASSUME NEW n \in Nat, n <= 1, n # 1 PROVE n = 0
  OBVIOUS

LEMMA IInvStep == IInv /\ [Next]_vars => IInv'
  <1> SUFFICES ASSUME IInv, [Next]_vars
               PROVE  TypeInv' /\ \A v \in Workers, k \in Jobs : RunInv(v, k)'
    BY DEF IInv, RunInv, AtMostOncePerWorker, ClaimedOnce
  <1>0. TypeInv'
    BY TypeInvStep DEF IInv
  <1>a. TypeOK /\ CurTyped /\ \A v \in Workers, k \in Jobs : RunInv(v, k)
    BY RunInvSplit DEF IInv, TypeInv
  <1> SUFFICES ASSUME NEW v \in Workers, NEW k \in Jobs PROVE RunInv(v, k)'
    BY <1>0
  <1>b. /\ RunInv(v, k)
        /\ runs[v][k] \in Nat
        /\ pc \in [Workers -> PcValues]
        /\ cur \in [Workers -> Jobs \cup {None}]
        /\ queue \in [Jobs -> Records \cup {Absent}]
        /\ runs \in [Workers -> [Jobs -> Nat]]
    BY <1>a DEF TypeOK
  <1>1. ASSUME NEW w \in Workers, MainPoll(w) PROVE RunInv(v, k)'
    <2>1. UNCHANGED <<queue, cur, runs>>
      BY <1>1 DEF MainPoll
    <2>2. pc'[v] \in {pc[v], "take"}
      <3>1. CASE Queued = {}
        BY <1>1, <3>1 DEF MainPoll
      <3>2. CASE Queued # {}
        BY <1>1, <3>2, <1>b DEF MainPoll
      <3>3. QED
        BY <3>1, <3>2
    <2>3. QED
      BY <2>1, <2>2, <1>b DEF RunInv
  \* The owner check: a claimed job is never taken again by its claimer.
  <1>2. ASSUME NEW w \in Workers, TryTakeJobGet(w) PROVE RunInv(v, k)'
    <2>1. PICK j \in snap[w] :
            \/ /\ queue[j] = Absent
               /\ pc' = [pc EXCEPT ![w] = "crashed"]
               /\ cur' = [cur EXCEPT ![w] = j]
            \/ /\ \E x \in {"poll", "take"} : pc' = [pc EXCEPT ![w] = x]
               /\ UNCHANGED cur
            \/ /\ queue[j] # Absent
               /\ queue[j].owner \in {None, w}
               /\ pc' = [pc EXCEPT ![w] = "put"]
               /\ cur' = [cur EXCEPT ![w] = j]
      BY <1>2 DEF TryTakeJobGet
    <2>2. UNCHANGED <<queue, runs>>
      BY <1>2 DEF TryTakeJobGet
    <2>3. CASE v = w /\ k = j /\ queue[j] # Absent /\ queue[j].owner \in {None, w}
      <3>1. runs[v][k] # 1
        BY <2>3, <1>b, NoneAssumption DEF RunInv
      <3>2. QED
        BY <3>1, <2>2, <1>b DEF RunInv
    <2>4. CASE ~(v = w /\ k = j /\ queue[j] # Absent /\ queue[j].owner \in {None, w})
      BY <2>1, <2>2, <2>4, <1>b DEF RunInv
    <2>5. QED
      BY <2>3, <2>4
  \* A PUT writes the putter as owner, and the putter has not run the job.
  <1>3. ASSUME NEW w \in Workers, TryTakeJobPut(w) PROVE RunInv(v, k)'
    <2>1. pc[w] = "put"
      BY <1>3 DEF TryTakeJobPut
    <2>2. FbPutSucceeds(cur[w], NoEtag)
      BY DEF FbPutSucceeds
    <2>3. AfterPut(w, NoEtag) = "delete"
      BY <2>2 DEF AfterPut
    <2>4. /\ queue' = [queue EXCEPT ![cur[w]] = [owner |-> w]]
          /\ pc' = [pc EXCEPT ![w] = "delete"]
          /\ UNCHANGED <<cur, runs>>
      BY <1>3, <2>2, <2>3 DEF TryTakeJobPut, FbPut
    <2>5. cur[w] \in Jobs
      BY <2>1, <1>a DEF CurTyped
    <2>6. runs[w][cur[w]] = 0
      <3>1. RunInv(w, cur[w]) /\ runs[w][cur[w]] \in Nat
        BY <2>5, <1>a DEF TypeOK
      <3>2. QED
        BY <3>1, <2>1, ZeroOrOne DEF RunInv
    <2>7. QED
      BY <2>4, <2>5, <2>6, <1>b, AbsentAssumption DEF RunInv
  \* The DELETE is the only step that counts a run, and it empties the path.
  <1>4. ASSUME NEW w \in Workers, TryTakeJobDelete(w) PROVE RunInv(v, k)'
    <2>1. /\ pc[w] = "delete"
          /\ queue' = [queue EXCEPT ![cur[w]] = Absent]
          /\ runs' = [runs EXCEPT ![w][cur[w]] = @ + 1]
          /\ pc' = [pc EXCEPT ![w] = "run"]
          /\ UNCHANGED cur
      BY <1>4 DEF TryTakeJobDelete
    <2>2. cur[w] \in Jobs
      BY <2>1, <1>a DEF CurTyped
    <2>3. runs[w][cur[w]] = 0
      <3>1. RunInv(w, cur[w]) /\ runs[w][cur[w]] \in Nat
        BY <2>2, <1>a DEF TypeOK
      <3>2. QED
        BY <3>1, <2>1, ZeroOrOne DEF RunInv
    <2>4. QED
      BY <2>1, <2>2, <2>3, <1>b DEF RunInv
  <1>5. ASSUME NEW w \in Workers, RunJob(w) PROVE RunInv(v, k)'
    <2>1. /\ pc[w] = "run"
          /\ pc' = [pc EXCEPT ![w] = "poll"]
          /\ cur' = [cur EXCEPT ![w] = None]
          /\ UNCHANGED <<queue, runs>>
      BY <1>5 DEF RunJob
    <2>2. queue' = queue /\ runs' = runs
      BY <2>1
    <2>3. (pc'[v] = pc[v] /\ cur'[v] = cur[v]) \/ pc'[v] = "poll"
      BY <2>1, <1>b
    <2>4. QED
      BY <2>2, <2>3, <1>b DEF RunInv
  <1>6. ASSUME NEW w \in Workers, HttpFailure(w) PROVE RunInv(v, k)'
    <2>1. /\ pc' = [pc EXCEPT ![w] = "crashed"]
          /\ UNCHANGED <<queue, cur, runs>>
      BY <1>6 DEF HttpFailure
    <2>2. queue' = queue /\ cur' = cur /\ runs' = runs
      BY <2>1
    <2>3. pc'[v] = pc[v] \/ pc'[v] = "crashed"
      BY <2>1, <1>b
    <2>4. QED
      BY <2>2, <2>3, <1>b DEF RunInv
  <1>7. CASE UNCHANGED vars
    BY <1>7, <1>b DEF vars, RunInv
  <1>8. QED
    BY <1>1, <1>2, <1>3, <1>4, <1>5, <1>6, <1>7 DEF Next, WorkerStep

(***************************************************************************)
(* No worker runs a job twice, whatever the number of workers and jobs and *)
(* of failed requests: after a claimer deleted a record, only another      *)
(* worker's late PUT can bring it back, and it then names that worker as   *)
(* owner, which the claimer's next GET refuses.                            *)
(***************************************************************************)
THEOREM NoRepeatedRun == Spec => []AtMostOncePerWorker
  <1>1. Spec => []IInv
    BY IInvInit, IInvStep, PTL DEF Spec
  <1>2. QED
    BY <1>1, PTL DEF IInv

-----------------------------------------------------------------------------
(* A record with an owner has a live claimer, with reliable requests *)

\* A PUT without an ETag is never refused.
LEMMA PutWithoutEtag == ASSUME NEW j \in Jobs PROVE FbPutSucceeds(j, NoEtag)
  BY DEF FbPutSucceeds

\* A worker that is not claiming owns no queued record.
LEMMA NotClaimingOwnsNothing ==
  ASSUME OwnedRecordIsBeingClaimed, NEW w \in Workers, pc[w] # "delete",
         NEW j \in Queued
  PROVE  queue[j].owner # w
  BY NoneAssumption DEF OwnedRecordIsBeingClaimed

LEMMA OwnedStep ==
  ASSUME MaxFaults = 0
  PROVE  TypeInv /\ OwnedRecordIsBeingClaimed /\ [Next]_vars => OwnedRecordIsBeingClaimed'
  <1> SUFFICES ASSUME TypeInv, OwnedRecordIsBeingClaimed, [Next]_vars
               PROVE  OwnedRecordIsBeingClaimed'
    OBVIOUS
  <1> USE DEF TypeInv, TypeOK, CurTyped, Records
  \* A step of w that leaves the queue alone and w not claiming.
  <1>1. ASSUME NEW w \in Workers, pc[w] # "delete", pc'[w] # "delete", queue' = queue,
               \A v \in Workers \ {w} : pc'[v] = pc[v] /\ cur'[v] = cur[v]
        PROVE  OwnedRecordIsBeingClaimed'
    <2> SUFFICES ASSUME NEW j \in Queued', queue'[j].owner # None
                 PROVE  pc'[queue'[j].owner] = "delete" /\ cur'[queue'[j].owner] = j
      BY DEF OwnedRecordIsBeingClaimed
    <2>1. j \in Queued /\ queue[j].owner # w
      BY <1>1, NotClaimingOwnsNothing DEF Queued
    <2>2. queue[j].owner \in Workers
      BY <1>1, <2>1, NoneAssumption DEF Queued
    <2>3. QED
      BY <1>1, <2>1, <2>2 DEF OwnedRecordIsBeingClaimed
  <1>2. ASSUME NEW w \in Workers, MainPoll(w) PROVE OwnedRecordIsBeingClaimed'
    BY <1>2, <1>1 DEF MainPoll
  <1>3. ASSUME NEW w \in Workers, TryTakeJobGet(w) PROVE OwnedRecordIsBeingClaimed'
    <2>1. pc[w] = "take" /\ queue' = queue /\ cur' = [cur EXCEPT ![w] = cur'[w]]
      BY <1>3 DEF TryTakeJobGet
    <2>2. pc'[w] \in {"crashed", "poll", "take", "put"} /\ pc' = [pc EXCEPT ![w] = pc'[w]]
      BY <1>3 DEF TryTakeJobGet
    <2>3. QED
      BY <2>1, <2>2, <1>1
  <1>4. ASSUME NEW w \in Workers, TryTakeJobPut(w) PROVE OwnedRecordIsBeingClaimed'
    <2>1. /\ pc[w] = "put" /\ cur[w] \in Jobs
          /\ queue' = [queue EXCEPT ![cur[w]] = [owner |-> w]]
          /\ pc' = [pc EXCEPT ![w] = "delete"]
          /\ cur' = cur
      BY <1>4, PutWithoutEtag DEF TryTakeJobPut, FbPut, AfterPut
    <2> SUFFICES ASSUME NEW j \in Queued', queue'[j].owner # None
                 PROVE  pc'[queue'[j].owner] = "delete" /\ cur'[queue'[j].owner] = j
      BY DEF OwnedRecordIsBeingClaimed
    <2>2. CASE j = cur[w]
      BY <2>1, <2>2
    <2>3. CASE j # cur[w]
      <3>1. j \in Queued /\ queue[j].owner # w
        BY <2>1, <2>3, NotClaimingOwnsNothing DEF Queued
      <3>2. queue[j].owner \in Workers
        BY <2>1, <2>3, <3>1, NoneAssumption DEF Queued
      <3>3. QED
        BY <2>1, <2>3, <3>1, <3>2 DEF OwnedRecordIsBeingClaimed
    <2>4. QED
      BY <2>2, <2>3
  <1>5. ASSUME NEW w \in Workers, TryTakeJobDelete(w) PROVE OwnedRecordIsBeingClaimed'
    <2>1. /\ pc[w] = "delete" /\ cur[w] \in Jobs
          /\ queue' = [queue EXCEPT ![cur[w]] = Absent]
          /\ pc' = [pc EXCEPT ![w] = "run"]
          /\ cur' = cur
      BY <1>5 DEF TryTakeJobDelete
    <2> SUFFICES ASSUME NEW j \in Queued', queue'[j].owner # None
                 PROVE  pc'[queue'[j].owner] = "delete" /\ cur'[queue'[j].owner] = j
      BY DEF OwnedRecordIsBeingClaimed
    <2>2. j # cur[w] /\ j \in Queued /\ queue'[j] = queue[j]
      BY <2>1 DEF Queued
    <2>3. pc[queue[j].owner] = "delete" /\ cur[queue[j].owner] = j
      BY <2>2 DEF OwnedRecordIsBeingClaimed
    <2>4. queue[j].owner # w
      BY <2>2, <2>3
    <2>5. QED
      BY <2>1, <2>2, <2>3, <2>4
  <1>6. ASSUME NEW w \in Workers, RunJob(w) PROVE OwnedRecordIsBeingClaimed'
    BY <1>6, <1>1 DEF RunJob
  <1>7. ASSUME NEW w \in Workers, HttpFailure(w) PROVE FALSE
    BY <1>7 DEF HttpFailure
  <1>8. CASE UNCHANGED vars
    BY <1>8 DEF vars, OwnedRecordIsBeingClaimed, Queued
  <1>9. QED
    BY <1>2, <1>3, <1>4, <1>5, <1>6, <1>7, <1>8 DEF Next, WorkerStep

(***************************************************************************)
(* With requests that never fail (MaxFaults = 0), a record of             *)
(* /queued_jobs that carries an owner is being claimed by that owner,     *)
(* which has PUT it and will DELETE it next: the unconditional PUT may    *)
(* overwrite another claimer's record, but then the new owner is the one   *)
(* about to delete it, and no worker ever leaves a record it owns behind.  *)
(***************************************************************************)
THEOREM OwnedRecordsClaimed ==
  ASSUME MaxFaults = 0
  PROVE  Spec => []OwnedRecordIsBeingClaimed
  <1>1. Init => OwnedRecordIsBeingClaimed
    BY NoneAssumption DEF Init, OwnedRecordIsBeingClaimed, Queued
  <1>2. Spec => [](TypeInv /\ OwnedRecordIsBeingClaimed)
    BY <1>1, TypeInvInit, TypeInvStep, OwnedStep, PTL DEF Spec
  <1>3. QED
    BY <1>2, PTL

-----------------------------------------------------------------------------
(* A record with an owner has a claimer, live or dead, with failing requests *)

\* A worker that is neither claiming nor dead owns no queued record.
LEMMA NoClaimNoRecord ==
  ASSUME OwnedRecordHasClaimer, NEW w \in Workers, pc[w] \notin {"delete", "crashed"},
         NEW j \in Queued
  PROVE  queue[j].owner # w
  BY NoneAssumption DEF OwnedRecordHasClaimer

LEMMA ClaimerStep ==
  TypeInv /\ OwnedRecordHasClaimer /\ [Next]_vars => OwnedRecordHasClaimer'
  <1> SUFFICES ASSUME TypeInv, OwnedRecordHasClaimer, [Next]_vars
               PROVE  OwnedRecordHasClaimer'
    OBVIOUS
  <1> USE DEF TypeInv, TypeOK, CurTyped, Records
  \* A step of a worker that owns nothing, leaves the queue alone and no other worker's locals.
  <1>1. ASSUME NEW w \in Workers, pc[w] \notin {"delete", "crashed"}, queue' = queue,
               \A v \in Workers \ {w} : pc'[v] = pc[v] /\ cur'[v] = cur[v]
        PROVE  OwnedRecordHasClaimer'
    <2> SUFFICES ASSUME NEW j \in Queued', queue'[j].owner # None
                 PROVE  /\ pc'[queue'[j].owner] \in {"delete", "crashed"}
                        /\ cur'[queue'[j].owner] = j
      BY DEF OwnedRecordHasClaimer
    <2>1. j \in Queued /\ queue[j].owner # w
      BY <1>1, NoClaimNoRecord DEF Queued
    <2>2. queue[j].owner \in Workers
      BY <1>1, <2>1, NoneAssumption DEF Queued
    <2>3. QED
      BY <1>1, <2>1, <2>2 DEF OwnedRecordHasClaimer
  <1>2. ASSUME NEW w \in Workers, MainPoll(w) PROVE OwnedRecordHasClaimer'
    BY <1>2, <1>1 DEF MainPoll
  <1>3. ASSUME NEW w \in Workers, TryTakeJobGet(w) PROVE OwnedRecordHasClaimer'
    <2>1. pc[w] = "take" /\ queue' = queue /\ cur' = [cur EXCEPT ![w] = cur'[w]]
      BY <1>3 DEF TryTakeJobGet
    <2>2. pc' = [pc EXCEPT ![w] = pc'[w]]
      BY <1>3 DEF TryTakeJobGet
    <2>3. QED
      BY <2>1, <2>2, <1>1
  <1>4. ASSUME NEW w \in Workers, TryTakeJobPut(w) PROVE OwnedRecordHasClaimer'
    <2>1. /\ pc[w] = "put" /\ cur[w] \in Jobs
          /\ queue' = [queue EXCEPT ![cur[w]] = [owner |-> w]]
          /\ pc' = [pc EXCEPT ![w] = "delete"]
          /\ cur' = cur
      BY <1>4, PutWithoutEtag DEF TryTakeJobPut, FbPut, AfterPut
    <2> SUFFICES ASSUME NEW j \in Queued', queue'[j].owner # None
                 PROVE  /\ pc'[queue'[j].owner] \in {"delete", "crashed"}
                        /\ cur'[queue'[j].owner] = j
      BY DEF OwnedRecordHasClaimer
    <2>2. CASE j = cur[w]
      BY <2>1, <2>2
    <2>3. CASE j # cur[w]
      <3>1. j \in Queued /\ queue[j].owner # w
        BY <2>1, <2>3, NoClaimNoRecord DEF Queued
      <3>2. queue[j].owner \in Workers
        BY <2>1, <2>3, <3>1, NoneAssumption DEF Queued
      <3>3. QED
        BY <2>1, <2>3, <3>1, <3>2 DEF OwnedRecordHasClaimer
    <2>4. QED
      BY <2>2, <2>3
  <1>5. ASSUME NEW w \in Workers, TryTakeJobDelete(w) PROVE OwnedRecordHasClaimer'
    <2>1. /\ pc[w] = "delete" /\ cur[w] \in Jobs
          /\ queue' = [queue EXCEPT ![cur[w]] = Absent]
          /\ pc' = [pc EXCEPT ![w] = "run"]
          /\ cur' = cur
      BY <1>5 DEF TryTakeJobDelete
    <2> SUFFICES ASSUME NEW j \in Queued', queue'[j].owner # None
                 PROVE  /\ pc'[queue'[j].owner] \in {"delete", "crashed"}
                        /\ cur'[queue'[j].owner] = j
      BY DEF OwnedRecordHasClaimer
    <2>2. j # cur[w] /\ j \in Queued /\ queue'[j] = queue[j]
      BY <2>1 DEF Queued
    <2>3. pc[queue[j].owner] \in {"delete", "crashed"} /\ cur[queue[j].owner] = j
      BY <2>2 DEF OwnedRecordHasClaimer
    <2>4. queue[j].owner # w
      BY <2>2, <2>3
    <2>5. QED
      BY <2>1, <2>2, <2>3, <2>4
  <1>6. ASSUME NEW w \in Workers, RunJob(w) PROVE OwnedRecordHasClaimer'
    BY <1>6, <1>1 DEF RunJob
  <1>7. ASSUME NEW w \in Workers, HttpFailure(w) PROVE OwnedRecordHasClaimer'
    <2>1. pc' = [pc EXCEPT ![w] = "crashed"] /\ UNCHANGED <<queue, cur>>
      BY <1>7 DEF HttpFailure
    <2>2. \A v \in Workers : pc[v] \in {"delete", "crashed"} => pc'[v] \in {"delete", "crashed"}
      BY <2>1
    <2>3. QED
      BY <2>1, <2>2 DEF OwnedRecordHasClaimer, Queued
  <1>8. CASE UNCHANGED vars
    BY <1>8 DEF vars, OwnedRecordHasClaimer, Queued
  <1>9. QED
    BY <1>2, <1>3, <1>4, <1>5, <1>6, <1>7, <1>8 DEF Next, WorkerStep

(***************************************************************************)
(* For any workers, jobs and number of failed requests, a queued record    *)
(* that carries an owner belongs to a worker that PUT it and is about to   *)
(* DELETE it, or that died between the two: the stranded records the      *)
(* failures leave behind are exactly those of workers that died claiming.  *)
(***************************************************************************)
THEOREM StrandedRecordsHaveDeadOwners == Spec => []OwnedRecordHasClaimer
  <1>1. Init => OwnedRecordHasClaimer
    BY NoneAssumption DEF Init, OwnedRecordHasClaimer, Queued
  <1>2. Spec => [](TypeInv /\ OwnedRecordHasClaimer)
    BY <1>1, TypeInvInit, TypeInvStep, ClaimerStep, PTL DEF Spec
  <1>3. QED
    BY <1>2, PTL
=============================================================================
