------------------------------- MODULE VmPool -------------------------------
(***************************************************************************)
(* The worker-pool half of poller.py: recreate_vms calls destroy_vms,      *)
(* which lists the zone's instances (get_all_vms keeps those named         *)
(* perfetto-ci-worker-...) and DELETEs each, raising on a non-200 answer;    *)
(* then it creates MAX_VMS instances named <prefix><now>-<i>, now being    *)
(* int(time.time()), with a POST whose answer create_vm prints and never   *)
(* checks.  A pool instance is named by its <<second, index>>.  Reliable   *)
(* says whether the compute API may answer with an error.                  *)
(***************************************************************************)
EXTENDS Naturals, FiniteSets

CONSTANTS
    Requests,   \* poller requests to /poller/destroy_vms or /poller/recreate_vms
    MaxVms,     \* MAX_VMS
    MaxTime,    \* bound on the clock, in seconds
    Reliable    \* the compute API always answers 200

ASSUME VmPoolAssumption ==
    /\ MaxVms \in Nat \ {0} /\ MaxTime \in Nat \ {0} /\ Reliable \in BOOLEAN
    /\ "old" \notin Requests

\* VM_PREFIX + '%d-%d' % (now, i), as <<now, i>>.
Names == (0..MaxTime) \X (0..MaxVms - 1)

\* An instance: its name and who created it ("old": before the model starts).
Instances == Names \X (Requests \cup {"old"})

Routes == {"destroy", "recreate"}

VARIABLES
    now,        \* the clock, in seconds
    vms,        \* the pool instances in the zone
    others,     \* the zone holds instances of other names
    route,      \* route[r]: the handler request r runs
    rpc,        \* rpc[r]: where request r is
    listed,     \* the instances r's get_all_vms returned
    todel,      \* those it has still to DELETE
    rnow,       \* its now = int(time.time())
    ri          \* its next index of xrange(MAX_VMS)

vars == <<now, vms, others, route, rpc, listed, todel, rnow, ri>>

TypeOK ==
    /\ now \in 1..MaxTime
    /\ vms \subseteq Instances
    /\ others \in BOOLEAN
    /\ route \in [Requests -> Routes]
    /\ rpc \in [Requests -> {"idle", "delete", "create", "done", "failed"}]
    /\ listed \in [Requests -> SUBSET Instances]
    /\ todel \in [Requests -> SUBSET Instances]
    /\ rnow \in [Requests -> 0..MaxTime]
    /\ ri \in [Requests -> 0..MaxVms]

\* The names the zone holds.
NamesIn(S) == {v[1] : v \in S}

\* Any pool the zone may hold, made by an earlier recreate at second 0.
Init ==
    /\ now = 1
    /\ vms \in SUBSET (({0} \X (0..MaxVms - 1)) \X {"old"})
    /\ others \in BOOLEAN
    /\ route \in [Requests -> Routes]
    /\ rpc = [r \in Requests |-> "idle"]
    /\ listed = [r \in Requests |-> {}]
    /\ todel = [r \in Requests |-> {}]
    /\ rnow = [r \in Requests |-> 1]
    /\ ri = [r \in Requests |-> 0]

\* An answer of the compute API other than 200.
MayFail == ~Reliable

(***************************************************************************)
(* destroy_vms: get_all_vms().keys().  With no instance at all in the zone *)
(* get_all_vms returns [] and .keys() raises AttributeError; a non-200     *)
(* listing raises too.                                                     *)
(***************************************************************************)
GetAllVms(r) ==
    /\ rpc[r] = "idle"
    /\ \/ /\ vms = {} /\ ~others
          /\ rpc' = [rpc EXCEPT ![r] = "failed"]
          /\ UNCHANGED <<listed, todel>>
       \/ /\ vms # {} \/ others
          /\ listed' = [listed EXCEPT ![r] = vms]
          /\ todel' = [todel EXCEPT ![r] = vms]
          /\ rpc' = [rpc EXCEPT ![r] = "delete"]
       \/ /\ MayFail
          /\ rpc' = [rpc EXCEPT ![r] = "failed"]
          /\ UNCHANGED <<listed, todel>>
    /\ UNCHANGED <<now, vms, others, route, rnow, ri>>

\* Mutant: a failed DELETE is logged and skipped instead of raising.
DestroyVmSkipErrors(r) ==
    /\ rpc[r] = "delete"
    /\ \E vm \in todel[r] :
          /\ todel' = [todel EXCEPT ![r] = @ \ {vm}]
          /\ \/ /\ vm \in vms
                /\ vms' = vms \ {vm}
             \/ /\ vm \notin vms \/ MayFail
                /\ UNCHANGED vms
    /\ UNCHANGED <<now, others, route, rpc, listed, rnow, ri>>

(***************************************************************************)
(* One DELETE of the listed instances: 200 removes it; an error, or the    *)
(* 404 of an instance gone since the listing, raises out of the handler.   *)
(***************************************************************************)
DestroyVm(r) ==
    /\ rpc[r] = "delete"
    /\ \E vm \in todel[r] :
          \/ /\ vm \in vms
             /\ vms' = vms \ {vm}
             /\ todel' = [todel EXCEPT ![r] = @ \ {vm}]
             /\ UNCHANGED rpc
          \/ /\ vm \notin vms \/ MayFail
             /\ rpc' = [rpc EXCEPT ![r] = "failed"]
             /\ UNCHANGED <<vms, todel>>
    /\ UNCHANGED <<now, others, route, listed, rnow, ri>>

(***************************************************************************)
(* destroy_vms returns: the route /poller/destroy_vms is done; in          *)
(* recreate_vms, now = int(time.time()) and the creation loop starts.      *)
(***************************************************************************)
StartCreate(r) ==
    /\ rpc[r] = "delete"
    /\ todel[r] = {}
    /\ rnow' = [rnow EXCEPT ![r] = now]
    /\ ri' = [ri EXCEPT ![r] = 0]
    /\ rpc' = [rpc EXCEPT ![r] = IF route[r] = "recreate" THEN "create" ELSE "done"]
    /\ UNCHANGED <<now, vms, others, route, listed, todel>>

\* The POST creates the instance unless its name is taken (409).
Post(r) ==
    IF <<rnow[r], ri[r]>> \in NamesIn(vms) THEN vms
    ELSE vms \cup {<<<<rnow[r], ri[r]>>, r>>}

\* Mutant: one instance too many, xrange(MAX_VMS + 1).
CreateVmOffByOne(r) ==
    /\ rpc[r] = "create"
    /\ ri[r] <= MaxVms
    /\ \/ vms' = Post(r)
       \/ MayFail /\ UNCHANGED vms
    /\ ri' = [ri EXCEPT ![r] = @ + 1]
    /\ rpc' = [rpc EXCEPT ![r] = IF ri[r] = MaxVms THEN "done" ELSE "create"]
    /\ UNCHANGED <<now, others, route, listed, todel, rnow>>

(***************************************************************************)
(* create_vm('%d-%d' % (now, i)): a POST whose answer is printed; a name   *)
(* that exists (409) or an error creates nothing and raises nothing.       *)
(***************************************************************************)
CreateVm(r) ==
    /\ rpc[r] = "create"
    /\ ri[r] < MaxVms
    /\ \/ vms' = Post(r)
       \/ MayFail /\ UNCHANGED vms
    /\ ri' = [ri EXCEPT ![r] = @ + 1]
    /\ rpc' = [rpc EXCEPT ![r] = IF ri[r] + 1 = MaxVms THEN "done" ELSE "create"]
    /\ UNCHANGED <<now, others, route, listed, todel, rnow>>

Tick ==
    /\ now < MaxTime
    /\ now' = now + 1
    /\ UNCHANGED <<vms, others, route, rpc, listed, todel, rnow, ri>>

Step(r) == GetAllVms(r) \/ DestroyVm(r) \/ StartCreate(r) \/ CreateVm(r)

Next == (\E r \in Requests : Step(r)) \/ Tick

(***************************************************************************)
(* Each request runs to its end (a handler holds no lock and waits on      *)
(* nothing but the compute API); time passes.                              *)
(***************************************************************************)
Spec == Init /\ [][Next]_vars
FairSpec == Spec /\ \A r \in Requests : WF_vars(Step(r))

-----------------------------------------------------------------------------
(* Properties *)

(***************************************************************************)
(* When recreate_vms returns 'Done', none of the instances it listed is    *)
(* left: every DELETE was answered 200, or the call raised.                *)
(***************************************************************************)
OldPoolGoneOnDone == \A r \in Requests : rpc[r] = "done" => listed[r] \cap vms = {}

(***************************************************************************)
(* Spec 4.4: a non-2xx answer to a create aborts recreate_vms, so a        *)
(* recreate that returns 'Done' has left MAX_VMS workers.                  *)
(***************************************************************************)
FullPoolOnDone ==
    \A r \in Requests :
        rpc[r] = "done" /\ route[r] = "recreate" => Cardinality(vms) >= MaxVms

(***************************************************************************)
(* Spec 2 (Worker Pool Controller): the pool is a fixed-size set of        *)
(* MAX_VMS workers whenever no destroy_vms or recreate_vms request is in   *)
(* flight, however the requests overlapped.                                *)
(***************************************************************************)
PoolSizeFixed ==
    (\A r \in Requests : rpc[r] \notin {"delete", "create"})
        => Cardinality(vms) <= MaxVms

(***************************************************************************)
(* With a compute API that answers 200, every destroy_vms and recreate_vms *)
(* request completes.                                                      *)
(***************************************************************************)
RecreateCompletes == \A r \in Requests : <>(rpc[r] = "done")
=============================================================================
