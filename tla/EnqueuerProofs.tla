--------------------------- MODULE EnqueuerProofs ---------------------------
(***************************************************************************)
(* Proofs about enqueue_cl and mark_all_done of poller.py (module          *)
(* Enqueuer), for every set of concurrent requests, CLs and configurations *)
(* and every patchset bound.                                               *)
(***************************************************************************)
EXTENDS Enqueuer, TLAPS

(***************************************************************************)
(* What a request in enqueue_cl has done so far: in the loop, every        *)
(* configuration it has taken off todo has a task name under its CL; at    *)
(* the PATCH, every configuration has.  The patchset it holds there is a   *)
(* published one, at least 1.                                              *)
(***************************************************************************)
LoopDone ==
    \A c \in Callers :
        /\ cpc[c] = "add" => \A cfg \in Configs \ todo[c] : <<ccl[c], cfg>> \in names
        /\ cpc[c] = "patch" => \A cfg \in Configs : <<ccl[c], cfg>> \in names

PsHeld == \A c \in Callers : cpc[c] \in {"add", "patch"} => cps[c] \in 1..MaxPs

IInv == TypeOK /\ PsHeld /\ LoopDone /\ MarkedHasTaskNames

-----------------------------------------------------------------------------
LEMMA IInvInit == Init => IInv
  BY EnqueuerAssumption DEF Init, IInv, TypeOK, CallerPcs, PsHeld, LoopDone, MarkedHasTaskNames

LEMMA IInvStep == IInv /\ [Next]_vars => IInv'
  <1> SUFFICES ASSUME IInv, [Next]_vars PROVE IInv'
    OBVIOUS
  <1> USE EnqueuerAssumption DEF IInv, TypeOK, CallerPcs, Names
  <1>1. ASSUME NEW cl \in CLs, Publish(cl) PROVE IInv'
    BY <1>1 DEF Publish, PsHeld, LoopDone, MarkedHasTaskNames
  <1>2. ASSUME NEW c \in Callers, NEW cl \in CLs, NEW ps \in 1..MaxPs,
               EnqueueCl(c, cl, ps)
        PROVE IInv'
    BY <1>2 DEF EnqueueCl, PsHeld, LoopDone, MarkedHasTaskNames
  <1>3. ASSUME NEW c \in Callers, AddTask(c) PROVE IInv'
    <2>1. PICK cfg \in todo[c] :
            /\ <<ccl[c], cfg>> \notin tombs
            /\ todo' = [todo EXCEPT ![c] = @ \ {cfg}]
            /\ names' = names \cup {<<ccl[c], cfg>>}
            /\ added' = IF <<ccl[c], cfg>> \in names THEN added
                        ELSE added \cup {<<ccl[c], cfg, cps[c]>>}
            /\ cpc' = [cpc EXCEPT ![c] = IF todo[c] = {cfg} THEN "patch" ELSE "add"]
      BY <1>3 DEF AddTask
    <2>2. UNCHANGED <<published, tombs, lastPs, marked, ccl, cps, snapshot>>
      BY <1>3 DEF AddTask
    <2>3. cpc[c] = "add" /\ cps[c] \in 1..MaxPs
      BY <1>3 DEF AddTask, PsHeld
    <2>4. TypeOK'
      BY <2>1, <2>2, <2>3
    <2>5. PsHeld'
      BY <2>1, <2>2, <2>3 DEF PsHeld
    <2>6. LoopDone'
      BY <2>1, <2>2, <2>3 DEF LoopDone
    <2>7. MarkedHasTaskNames'
      BY <2>1, <2>2 DEF MarkedHasTaskNames
    <2>8. QED
      BY <2>4, <2>5, <2>6, <2>7
  <1>11. ASSUME NEW c \in Callers, AddTombstoned(c) PROVE IInv'
    BY <1>11 DEF AddTombstoned, PsHeld, LoopDone, MarkedHasTaskNames
  <1>12. ASSUME NEW n \in Names, TaskRuns(n) PROVE IInv'
    BY <1>12 DEF TaskRuns, PsHeld, LoopDone, MarkedHasTaskNames
  <1>4. ASSUME NEW c \in Callers, AddFails(c) PROVE IInv'
    BY <1>4 DEF AddFails, PsHeld, LoopDone, MarkedHasTaskNames
  <1>5. ASSUME NEW c \in Callers, PatchLast(c) PROVE IInv'
    BY <1>5 DEF PatchLast, PsHeld, LoopDone, MarkedHasTaskNames
  <1>6. ASSUME NEW c \in Callers, PatchFails(c) PROVE IInv'
    BY <1>6 DEF PatchFails, PsHeld, LoopDone, MarkedHasTaskNames
  <1>7. ASSUME NEW c \in Callers, MarkAllDoneRead(c) PROVE IInv'
    BY <1>7 DEF MarkAllDoneRead, PsHeld, LoopDone, MarkedHasTaskNames
  <1>8. ASSUME NEW c \in Callers, MarkAllDonePut(c) PROVE IInv'
    BY <1>8 DEF MarkAllDonePut, PsHeld, LoopDone, MarkedHasTaskNames
  <1>9. CASE UNCHANGED vars
    BY <1>9 DEF vars, PsHeld, LoopDone, MarkedHasTaskNames
  <1>10. QED
    BY <1>1, <1>2, <1>3, <1>4, <1>5, <1>6, <1>7, <1>8, <1>9, <1>11, <1>12 DEF Next

(***************************************************************************)
(* enqueue_cl PATCHes a patchset into /last_patchset only after its loop   *)
(* has given every configuration a task name under the CL (a failed add   *)
(* raises before the PATCH), whatever the concurrent requests do.          *)
(***************************************************************************)
THEOREM MarkedNamed == Spec => []MarkedHasTaskNames
  <1>1. Spec => []IInv
    BY IInvInit, IInvStep, PTL DEF Spec
  <1>2. QED
    BY <1>1, PTL DEF IInv

(***************************************************************************)
(* The enqueuer model is well typed in every behaviour.                    *)
(***************************************************************************)
THEOREM EnqueuerTypeCorrect == Spec => []TypeOK
  BY IInvInit, IInvStep, PTL DEF Spec, IInv
=============================================================================
