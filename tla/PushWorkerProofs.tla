-------------------------- MODULE PushWorkerProofs --------------------------
(***************************************************************************)
(* Proofs about copy.py's simple_app behind the push queue (module         *)
(* PushWorker), for any number of servers, tasks, paths, lines,            *)
(* deliveries and any timeout.                                             *)
(***************************************************************************)
EXTENDS PushWorker, TLAPS

\* A busy server holds a delivery of its task: the queue numbers them from 1.
Delivered == \A i \in Instances : hpc[i] # "idle" => hdel[i] \in 1..MaxDeliveries

\* A server past its loop holds the terminal status it computed.
FinalHasOutcome ==
    \A i \in Instances : hpc[i] \in {"final", "respond"} => outcome[i] \in Terminal

\* A server about to answer 200 has PUT a terminal status of its task.
RespondReported == \A i \in Instances : hpc[i] = "respond" => reported[htask[i]] # {}

IInv == TypeOK /\ DOMAIN logs = Keys /\ Delivered /\ FinalHasOutcome /\ RespondReported /\ AckAfterReport

-----------------------------------------------------------------------------
LEMMA IInvInit == Init => IInv
  BY PushAssumption DEF Init, IInv, TypeOK, Delivered, FinalHasOutcome, RespondReported,
                        AckAfterReport, HandlerPcs, Statuses

\* The line a wakeup uploads is a line of the task's delivery.
LEMMA PatchLineTyped ==
  ASSUME IInv, NEW i \in Instances, hpc[i] = "loop", left[i] > 0
  PROVE  /\ DOMAIN PatchLine(i) = Keys
         /\ \A k \in Keys : \A s \in DOMAIN PatchLine(i)[k] :
               s \in Nat /\ PatchLine(i)[k][s] \in Lines
  <1>1. Key(i) \in Keys
    BY PushAssumption DEF IInv, TypeOK, Key
  <1>2. <<htask[i], hdel[i], MaxLines - left[i] + 1>> \in Lines
    BY PushAssumption DEF IInv, TypeOK, Delivered, Lines
  <1>3. QED
    BY <1>1, <1>2 DEF IInv, TypeOK, PatchLine

LEMMA IInvStep == IInv /\ [Next]_vars => IInv'
  <1> SUFFICES ASSUME IInv, [Next]_vars PROVE IInv'
    OBVIOUS
  <1> USE PushAssumption DEF IInv, TypeOK, Delivered, FinalHasOutcome, RespondReported,
                             AckAfterReport, HandlerPcs, Statuses, Key
  <1>1. ASSUME NEW t \in Tasks, NEW i \in Instances, Deliver(t, i) PROVE IInv'
    BY <1>1 DEF Deliver
  <1>2. ASSUME NEW i \in Instances, UpdateStarted(i) PROVE IInv'
    BY <1>2 DEF UpdateStarted
  <1>3. ASSUME NEW i \in Instances, DeleteLogs(i) PROVE IInv'
    BY <1>3 DEF DeleteLogs
  <1>4. ASSUME NEW i \in Instances, LoopWakeup(i) PROVE IInv'
    <2>1. CASE left[i] > 0 /\ logs' = PatchLine(i)
      <3>1. hpc[i] = "loop"
        BY <1>4 DEF LoopWakeup
      <3>2. /\ DOMAIN logs' = Keys
            /\ \A k \in Keys : \A s \in DOMAIN logs'[k] : s \in Nat /\ logs'[k][s] \in Lines
        BY <2>1, <3>1, PatchLineTyped
      <3>3. /\ left' = [left EXCEPT ![i] = @ - 1]
            /\ \/ hpc' = hpc /\ outcome' = outcome
               \/ /\ hpc' = [hpc EXCEPT ![i] = "final"]
                  /\ outcome' = [outcome EXCEPT ![i] = "timedout"]
            /\ UNCHANGED <<now, done, sent, htask, hdel, hang, tstart, status, reported>>
        BY <1>4, <2>1 DEF LoopWakeup
      <3>4. TypeOK'
        <4>1. left' \in [Instances -> 0..MaxLines]
          BY <2>1, <3>3
        <4>2. hpc' \in [Instances -> HandlerPcs] /\ outcome' \in [Instances -> Terminal \cup {"none"}]
          BY <3>3 DEF Terminal
        <4>3. \A k \in Keys : \A s \in DOMAIN logs'[k] : s \in Nat /\ logs'[k][s] \in Lines
          BY <3>2
        <4>4. QED
          BY <3>3, <4>1, <4>2, <4>3
      <3>5. (Delivered /\ FinalHasOutcome)'
        BY <3>1, <3>3 DEF Terminal
      <3>6. (RespondReported /\ AckAfterReport)'
        BY <3>3
      <3>7. QED
        BY <3>2, <3>4, <3>5, <3>6
    <2>2. CASE UNCHANGED <<logs, left>>
      <3>1. PICK code \in Terminal :
              /\ outcome' = [outcome EXCEPT ![i] = code]
              /\ hpc' = [hpc EXCEPT ![i] = "final"]
              /\ UNCHANGED <<logs, left, now, done, sent, htask, hdel, hang, tstart, status, reported>>
        BY <1>4, <2>2 DEF LoopWakeup, Terminal
      <3>2. hpc[i] = "loop"
        BY <1>4 DEF LoopWakeup
      <3>3. hpc' \in [Instances -> HandlerPcs] /\ outcome' \in [Instances -> Terminal \cup {"none"}]
        BY <3>1
      <3>4. TypeOK'
        BY <3>1, <3>3
      <3>5. (Delivered /\ FinalHasOutcome)'
        BY <3>1, <3>2
      <3>6. (RespondReported /\ AckAfterReport /\ DOMAIN logs = Keys)'
        BY <3>1
      <3>7. QED
        BY <3>4, <3>5, <3>6
    <2>3. QED
      BY <1>4, <2>1, <2>2 DEF LoopWakeup
  <1>5. ASSUME NEW i \in Instances, UpdateFinal(i) PROVE IInv'
    BY <1>5 DEF UpdateFinal
  <1>6. ASSUME NEW i \in Instances, Respond(i) PROVE IInv'
    BY <1>6 DEF Respond
  <1>7. CASE Tick
    BY <1>7 DEF Tick
  <1>8. CASE UNCHANGED vars
    BY <1>8 DEF vars
  <1>9. QED
    BY <1>1, <1>2, <1>3, <1>4, <1>5, <1>6, <1>7, <1>8 DEF Next, Handler

(***************************************************************************)
(* Type correctness of the push-queue model: every variable keeps its      *)
(* type, and every log entry is a line of some delivery of some task.      *)
(***************************************************************************)
THEOREM PushTypeCorrect == Spec => []TypeOK
  <1>1. Spec => []IInv
    BY IInvInit, IInvStep, PTL DEF Spec
  <1>2. QED
    BY <1>1, PTL DEF IInv

(***************************************************************************)
(* For any number of servers and redeliveries, the push queue drops a task *)
(* only after a delivery of it PUT a terminal status: simple_app answers    *)
(* 200 only on returning, after update_job_status with the final status,   *)
(* and a server's task does not change while it handles it.                *)
(***************************************************************************)
THEOREM AcksAfterReport == Spec => []AckAfterReport
  <1>1. Spec => []IInv
    BY IInvInit, IInvStep, PTL DEF Spec
  <1>2. QED
    BY <1>1, PTL DEF IInv
=============================================================================
