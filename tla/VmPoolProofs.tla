---------------------------- MODULE VmPoolProofs ----------------------------
(***************************************************************************)
(* Proofs about destroy_vms and recreate_vms of poller.py (module VmPool), *)
(* for any number of overlapping requests, any MAX_VMS, any clock bound    *)
(* and a compute API that may fail.                                        *)
(***************************************************************************)
EXTENDS VmPool, TLAPS

(***************************************************************************)
(* An instance a request created carries the now of that request and an   *)
(* index its creation loop has passed; the request is creating or done.    *)
(***************************************************************************)
CreatedBy(v) ==
    v[2] \in Requests =>
        /\ rpc[v[2]] \in {"create", "done"}
        /\ v[1][1] = rnow[v[2]]
        /\ v[1][2] < ri[v[2]]

\* So is every instance in the zone, and every instance a listing returned.
Created == \A v \in vms : CreatedBy(v)
ListedCreated == \A r \in Requests : \A v \in listed[r] : CreatedBy(v)

(***************************************************************************)
(* What a request has deleted is gone: the listed instances it is no      *)
(* longer to delete while it deletes, and all of them once it creates.     *)
(***************************************************************************)
DeletedGone ==
    \A r \in Requests :
        /\ todel[r] \subseteq listed[r]
        /\ rpc[r] = "delete" => (listed[r] \ todel[r]) \cap vms = {}
        /\ rpc[r] \in {"create", "done"} => listed[r] \cap vms = {}

IInv == TypeOK /\ Created /\ ListedCreated /\ DeletedGone

-----------------------------------------------------------------------------
LEMMA IInvInit == Init => IInv
  BY VmPoolAssumption DEF Init, IInv, TypeOK, Instances, Names, Routes, Created, CreatedBy,
                          ListedCreated, DeletedGone

\* The POST of request r adds at most the instance named by its now and its loop index.
LEMMA PostShape ==
  ASSUME NEW r \in Requests
  PROVE  Post(r) \subseteq vms \cup {<<<<rnow[r], ri[r]>>, r>>}
  BY DEF Post

LEMMA IInvStep == IInv /\ [Next]_vars => IInv'
  <1> SUFFICES ASSUME IInv, [Next]_vars PROVE IInv'
    OBVIOUS
  <1> USE VmPoolAssumption DEF IInv, TypeOK, Instances, Names, Routes
  <1>1. ASSUME NEW r \in Requests, GetAllVms(r) PROVE IInv'
    BY <1>1 DEF GetAllVms, Created, CreatedBy, ListedCreated, DeletedGone
  <1>2. ASSUME NEW r \in Requests, DestroyVm(r) PROVE IInv'
    <2>1. PICK vm \in todel[r] :
            \/ /\ vm \in vms
               /\ vms' = vms \ {vm}
               /\ todel' = [todel EXCEPT ![r] = @ \ {vm}]
               /\ UNCHANGED rpc
            \/ /\ vm \notin vms \/ MayFail
               /\ rpc' = [rpc EXCEPT ![r] = "failed"]
               /\ UNCHANGED <<vms, todel>>
      BY <1>2 DEF DestroyVm
    <2>2. rpc[r] = "delete" /\ UNCHANGED <<now, others, route, listed, rnow, ri>>
      BY <1>2 DEF DestroyVm
    <2>3. QED
      BY <2>1, <2>2 DEF Created, CreatedBy, ListedCreated, DeletedGone
  <1>3. ASSUME NEW r \in Requests, StartCreate(r) PROVE IInv'
    <2>1. rpc[r] = "delete" /\ todel[r] = {}
      BY <1>3 DEF StartCreate
    \* No instance in the zone or in a listing is r's yet.
    <2>2. /\ \A v \in vms : v[2] # r
          /\ \A q \in Requests : \A v \in listed[q] : v[2] # r
      BY <2>1 DEF Created, CreatedBy, ListedCreated
    <2>3. QED
      BY <1>3, <2>1, <2>2 DEF StartCreate, Created, CreatedBy, ListedCreated, DeletedGone
  <1>4. ASSUME NEW r \in Requests, CreateVm(r) PROVE IInv'
    <2> DEFINE w == <<<<rnow[r], ri[r]>>, r>>
    <2>1. /\ rpc[r] = "create" /\ ri[r] < MaxVms
          /\ vms' \subseteq vms \cup {w}
          /\ ri' = [ri EXCEPT ![r] = @ + 1]
          /\ rpc' = [rpc EXCEPT ![r] = IF ri[r] + 1 = MaxVms THEN "done" ELSE "create"]
          /\ UNCHANGED <<now, others, route, listed, todel, rnow>>
      BY <1>4, PostShape DEF CreateVm
    \* The instance the POST may add is in no listing: its index is not yet passed.
    <2>2. \A q \in Requests : w \notin listed[q]
      BY <2>1 DEF ListedCreated, CreatedBy
    <2>3. TypeOK'
      BY <2>1
    <2>4. \A v \in vms' : CreatedBy(v)'
      BY <2>1 DEF Created, CreatedBy
    <2>5. ListedCreated'
      BY <2>1 DEF ListedCreated, CreatedBy
    <2>6. DeletedGone'
      BY <2>1, <2>2 DEF DeletedGone
    <2>7. QED
      BY <2>3, <2>4, <2>5, <2>6 DEF Created
  <1>5. CASE Tick
    BY <1>5 DEF Tick, Created, CreatedBy, ListedCreated, DeletedGone
  <1>6. CASE UNCHANGED vars
    BY <1>6 DEF vars, Created, CreatedBy, ListedCreated, DeletedGone
  <1>7. QED
    BY <1>1, <1>2, <1>3, <1>4, <1>5, <1>6 DEF Next, Step

(***************************************************************************)
(* When a destroy_vms or recreate_vms request returns, none of the         *)
(* instances its listing returned is left in the zone, however many other  *)
(* requests overlap it and whatever the compute API answers: a DELETE that *)
(* fails raises, and no POST can bring a listed instance back.             *)
(***************************************************************************)
THEOREM OldPoolGone == Spec => []OldPoolGoneOnDone
  <1>1. Spec => []IInv
    BY IInvInit, IInvStep, PTL DEF Spec
  <1>2. IInv => OldPoolGoneOnDone
    BY DEF IInv, DeletedGone, OldPoolGoneOnDone
  <1>3. QED
    BY <1>1, <1>2, PTL

(***************************************************************************)
(* Type correctness of the pool model: the zone, the requests' listings,  *)
(* their clocks and loop indexes keep their types, whatever MAX_VMS and    *)
(* however many requests overlap.                                          *)
(***************************************************************************)
THEOREM VmPoolTypeCorrect == Spec => []TypeOK
  <1>1. Spec => []IInv
    BY IInvInit, IInvStep, PTL DEF Spec
  <1>2. QED
    BY <1>1, PTL DEF IInv
=============================================================================
