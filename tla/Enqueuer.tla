------------------------------ MODULE Enqueuer ------------------------------
(***************************************************************************)
(* The enqueuing half of poller.py: enqueue_cl(cl, patchset) adds one push *)
(* task per configuration to the queue 'jobs', named <cl>-<cfg_name>, and  *)
(* skips a name held by a task still pending (TaskAlreadyExistsError);     *)
(* the tombstone a task leaves once it ran makes the add raise             *)
(* TombstonedTaskError, which line 99 does not catch.  Then it PATCHes     *)
(* {cl: patchset} into /last_patchset.  mark_all_done PUTs the whole of    *)
(* get_all_cls() (AllCls checks it is the highest patchset per CL) over    *)
(* /last_patchset.  Requests run concurrently, Callers of them at a time;  *)
(* each enqueue_cl is given a patchset Gerrit has published; Gerrit         *)
(* publishes new patchsets meanwhile.                                      *)
(***************************************************************************)
EXTENDS Naturals

CONSTANTS
    Callers,    \* concurrent poller requests
    CLs,        \* change numbers
    Configs,    \* the names of ci-configs.json
    MaxPs       \* the highest patchset Gerrit publishes

ASSUME EnqueuerAssumption == MaxPs \in Nat /\ CLs # {}

Names == CLs \X Configs

VARIABLES
    published,  \* published[cl]: the highest patchset of cl on Gerrit (0: none)
    names,      \* task names the queue holds, as tasks or tombstones
    tombs,      \* those of them whose task has run: tombstones
    added,      \* history: <<cl, cfg, patchset>> of every task created
    lastPs,     \* /last_patchset (0: cl absent)
    marked,     \* history: <<cl, patchset>> enqueue_cl wrote to /last_patchset
    cpc,        \* cpc[c]: where request c is
    ccl,        \* the CL and patchset of c's enqueue_cl
    cps,
    todo,       \* the configurations c's loop has still to add
    snapshot    \* the get_all_cls() c's mark_all_done read

vars == <<published, names, tombs, added, lastPs, marked, cpc, ccl, cps, todo, snapshot>>

CallerPcs == {"idle", "add", "patch", "put"}

TypeOK ==
    /\ published \in [CLs -> 0..MaxPs]
    /\ names \subseteq Names
    /\ tombs \subseteq names
    /\ added \subseteq CLs \X Configs \X (1..MaxPs)
    /\ lastPs \in [CLs -> 0..MaxPs]
    /\ marked \subseteq CLs \X (1..MaxPs)
    /\ cpc \in [Callers -> CallerPcs]
    /\ ccl \in [Callers -> CLs]
    /\ cps \in [Callers -> 0..MaxPs]
    /\ todo \in [Callers -> SUBSET Configs]
    /\ snapshot \in [Callers -> [CLs -> 0..MaxPs]]

Init ==
    /\ published = [cl \in CLs |-> 0]
    /\ names = {}
    /\ tombs = {}
    /\ added = {}
    /\ lastPs = [cl \in CLs |-> 0]
    /\ marked = {}
    /\ cpc = [c \in Callers |-> "idle"]
    /\ ccl = [c \in Callers |-> CHOOSE cl \in CLs : TRUE]
    /\ cps = [c \in Callers |-> 0]
    /\ todo = [c \in Callers |-> {}]
    /\ snapshot = [c \in Callers |-> [cl \in CLs |-> 0]]

\* Gerrit: a new patchset of cl is uploaded.
Publish(cl) ==
    /\ published[cl] < MaxPs
    /\ published' = [published EXCEPT ![cl] = @ + 1]
    /\ UNCHANGED <<names, tombs, added, lastPs, marked, cpc, ccl, cps, todo, snapshot>>

\* enqueue_cl(cl, patchset) is called with a published patchset of cl.
EnqueueCl(c, cl, ps) ==
    /\ cpc[c] = "idle"
    /\ ps \in 1..published[cl]
    /\ cpc' = [cpc EXCEPT ![c] = "add"]
    /\ ccl' = [ccl EXCEPT ![c] = cl]
    /\ cps' = [cps EXCEPT ![c] = ps]
    /\ todo' = [todo EXCEPT ![c] = Configs]
    /\ UNCHANGED <<published, names, tombs, added, lastPs, marked, snapshot>>

(***************************************************************************)
(* taskqueue.add(name='<cl>-<cfg_name>', ...) for the next configuration   *)
(* (in dict order: any), unless the name is a tombstone: a free name gets  *)
(* a task, a pending task's name raises TaskAlreadyExistsError and is     *)
(* skipped.  The loop over, the PATCH follows.                             *)
(***************************************************************************)
AddTask(c) ==
    /\ cpc[c] = "add"
    /\ \E cfg \in todo[c] :
          /\ <<ccl[c], cfg>> \notin tombs
          /\ todo' = [todo EXCEPT ![c] = @ \ {cfg}]
          /\ names' = names \cup {<<ccl[c], cfg>>}
          /\ added' = IF <<ccl[c], cfg>> \in names THEN added
                      ELSE added \cup {<<ccl[c], cfg, cps[c]>>}
          /\ cpc' = [cpc EXCEPT ![c] = IF todo[c] = {cfg} THEN "patch" ELSE "add"]
    /\ UNCHANGED <<published, tombs, lastPs, marked, ccl, cps, snapshot>>

(***************************************************************************)
(* taskqueue.add of a name whose task has run raises TombstonedTaskError,  *)
(* which the except of line 99 does not catch: enqueue_cl ends, the        *)
(* patchset is not marked.                                                 *)
(***************************************************************************)
AddTombstoned(c) ==
    /\ cpc[c] = "add"
    /\ \E cfg \in todo[c] : <<ccl[c], cfg>> \in tombs
    /\ cpc' = [cpc EXCEPT ![c] = "idle"]
    /\ UNCHANGED <<published, names, tombs, added, lastPs, marked, ccl, cps, todo, snapshot>>

\* The queue runs a pending task to its 200: its name stays as a tombstone.
TaskRuns(n) ==
    /\ n \in names \ tombs
    /\ tombs' = tombs \cup {n}
    /\ UNCHANGED <<published, names, added, lastPs, marked, cpc, ccl, cps, todo, snapshot>>

\* Mutant: /last_patchset PATCHed before the tasks are added.
PatchLastEarly(c) ==
    /\ cpc[c] = "add"
    /\ lastPs' = [lastPs EXCEPT ![ccl[c]] = cps[c]]
    /\ marked' = marked \cup {<<ccl[c], cps[c]>>}
    /\ UNCHANGED <<published, names, tombs, added, cpc, ccl, cps, todo, snapshot>>

(***************************************************************************)
(* Any other failure of taskqueue.add raises out of enqueue_cl: the tasks  *)
(* added so far stay, /last_patchset is not written.                       *)
(***************************************************************************)
AddFails(c) ==
    /\ cpc[c] = "add"
    /\ cpc' = [cpc EXCEPT ![c] = "idle"]
    /\ UNCHANGED <<published, names, tombs, added, lastPs, marked, ccl, cps, todo, snapshot>>

\* urlfetch PATCH of {cl: patchset} into /last_patchset: unconditional.
PatchLast(c) ==
    /\ cpc[c] = "patch"
    /\ lastPs' = [lastPs EXCEPT ![ccl[c]] = cps[c]]
    /\ marked' = marked \cup {<<ccl[c], cps[c]>>}
    /\ cpc' = [cpc EXCEPT ![c] = "idle"]
    /\ UNCHANGED <<published, names, tombs, added, ccl, cps, todo, snapshot>>

\* A non-200 answer to the PATCH: nothing is written and the assert raises.
PatchFails(c) ==
    /\ cpc[c] = "patch"
    /\ cpc' = [cpc EXCEPT ![c] = "idle"]
    /\ UNCHANGED <<published, names, tombs, added, lastPs, marked, ccl, cps, todo, snapshot>>

\* mark_all_done: get_all_cls() reads the highest published patchsets.
MarkAllDoneRead(c) ==
    /\ cpc[c] = "idle"
    /\ snapshot' = [snapshot EXCEPT ![c] = published]
    /\ cpc' = [cpc EXCEPT ![c] = "put"]
    /\ UNCHANGED <<published, names, tombs, added, lastPs, marked, ccl, cps, todo>>

\* ... and PUTs them over /last_patchset (a CL with no patchset is absent).
MarkAllDonePut(c) ==
    /\ cpc[c] = "put"
    /\ lastPs' = snapshot[c]
    /\ cpc' = [cpc EXCEPT ![c] = "idle"]
    /\ UNCHANGED <<published, names, tombs, added, marked, ccl, cps, todo, snapshot>>

Next ==
    \/ \E cl \in CLs : Publish(cl)
    \/ \E n \in Names : TaskRuns(n)
    \/ \E c \in Callers :
          \/ \E cl \in CLs, ps \in 1..MaxPs : EnqueueCl(c, cl, ps)
          \/ AddTask(c) \/ AddTombstoned(c) \/ AddFails(c) \/ PatchLast(c) \/ PatchFails(c)
          \/ MarkAllDoneRead(c) \/ MarkAllDonePut(c)

Spec == Init /\ [][Next]_vars

-----------------------------------------------------------------------------
(* Properties *)

(***************************************************************************)
(* A patchset enqueue_cl marked processed has a task name for each         *)
(* configuration: the PATCH comes after the loop over the configurations,  *)
(* and a failed add ends the call before it.                               *)
(***************************************************************************)
MarkedHasTaskNames ==
    \A m \in marked : \A cfg \in Configs : <<m[1], cfg>> \in names

(***************************************************************************)
(* Spec 4.3 and 8: each configuration of a patchset marked processed was   *)
(* enqueued for that patchset.                                             *)
(***************************************************************************)
EveryMarkedPatchsetEnqueued ==
    \A m \in marked : \A cfg \in Configs : <<m[1], cfg, m[2]>> \in added

(***************************************************************************)
(* Spec 3 and 4.3: /last_patchset never decreases for a CL, whatever order *)
(* concurrent enqueue_cl and mark_all_done requests finish in.             *)
(***************************************************************************)
LastPatchsetMonotone ==
    [][\A cl \in CLs : lastPs'[cl] >= lastPs[cl]]_lastPs
=============================================================================
