------------------------- MODULE ContainerWorkspace -------------------------
(***************************************************************************)
(* The Workspace controller for one Workspace name of type container or    *)
(* scratch: the StatefulSet or Deployment, the Service, the Secret with    *)
(* the data of the container initialisation, and the status.               *)
(*                                                                         *)
(* An object has a live version and the version in the controller's cache, *)
(* which follows at its own pace; a delivery to the cache is also the      *)
(* event that queues the next pass.  In any one behaviour the Workspace    *)
(* and one other object lag, a Secret or a workload; the others reach the  *)
(* cache at once, and the passes that the controller's own writes to them  *)
(* would add are left out.                                                 *)
(* A pass has three steps: the initialisation, the workload with its       *)
(* Service, the status.  An update is refused unless it rests on the live  *)
(* version.                                                                *)
(***************************************************************************)
EXTENDS Integers

CONSTANTS
    None,         \* no such object
    Foreign,      \* an owner that is not a Workspace
    Starts        \* new Workspaces: type, mode and source of initialisation,
                  \*   history of the name ("new", "taken" or "reused"), the
                  \*   object that lags, and the bound on events: writes by
                  \*   users, failed calls, restarts and the like

ASSUME ConstantsAssumption ==
    /\ Starts \subseteq [type : {"container", "scratch"},
                         mode : {"disabled", "injected", "baked-in"},
                         from : {"none", "inline", "ref"},
                         name : {"new", "taken", "reused"},
                         slow : {"InitSecret", "UserDataSecret",
                                 "StatefulSet", "Deployment"},
                         events : Nat]
    /\ Foreign \notin Nat  \* the UIDs of Workspaces are numbers

VARIABLES
    live,    \* the objects in the API server
    cache,   \* the objects in the controller's cache, where they lag behind
    pending, \* whether versions are on their way to the cache
    queued,  \* a pass is due
    pc, loc, \* the step of the pass and what it has read
    events   \* how many events may still happen

vars == <<live, cache, pending, queued, pc, loc, events>>
objects == <<live, pending>>

Workloads == {"StatefulSet", "Deployment"}
PodOf == [StatefulSet |-> "StatefulSetPod", Deployment |-> "DeploymentPod"]
Pods == {PodOf[k] : k \in Workloads}
Owned == Workloads \cup {"Service", "InitSecret"}
Objects == Owned \cup Pods \cup {"Workspace", "UserDataSecret"}

(* The container initialisation of a Workspace: off, with data of its own, *)
(* or with the data of a Secret the user keeps.  Data is numbered by the   *)
(* events left when it was written, so no two edits write the same bytes.  *)
NoInit == [mode |-> "disabled", from |-> "none", data |-> 0]
InitSpecs(n) ==
    LET modes == {"injected", "baked-in"} IN
    {NoInit} \cup [mode : modes, from : {"inline"}, data : {n}]
             \cup [mode : modes, from : {"ref"}, data : {0}]

NewWorkspace(uid, type, init) ==
    [uid |-> uid, deleting |-> FALSE, type |-> type, stopped |-> FALSE,
     command |-> TRUE, init |-> init, recorded |-> FALSE,
     status |-> [ready |-> 0, cond |-> "none"]]

Nothing == [ws |-> None, init |-> None, status |-> None]

Kind(w) == IF w.type = "scratch" THEN "Deployment" ELSE "StatefulSet"

(* The pod template: the user's pod specification, the annotations copied  *)
(* from the Workspace but for the stop request, and the initialisation.    *)
Template(w, init) == [command |-> w.command, recorded |-> w.recorded, init |-> init]

generateWorkload(w, init) ==
    [owner |-> w.uid, replicas |-> IF w.stopped THEN 0 ELSE 1,
     template |-> Template(w, init), ready |-> 0]

(* Pods of a StatefulSet carry its label; the label of the Workspace name  *)
(* is on the pods of both kinds of workload.                               *)
generateService(w) ==
    [owner |-> w.uid,
     selects |-> IF w.type = "scratch" THEN Workloads ELSE {"StatefulSet"}]

(* The name is new; or somebody else's Secret has the name of the          *)
(* controller's own; or the name was used before, the Secret of its        *)
(* earlier Workspace, 0, is still there, and the cache does not know of    *)
(* the new Workspace.                                                      *)
Earlier(w) == [w EXCEPT !.uid = 0, !.init = NoInit]

Init ==
    /\ \E s \in Starts, i \in InitSpecs(0) :
          LET w == NewWorkspace(1, s.type, i) IN
          /\ i.mode = s.mode /\ i.from = s.from
          /\ live = [o \in Objects |->
                CASE o = "Workspace" -> w
                  [] o = "UserDataSecret" -> 0
                  [] o = "InitSecret" /\ s.name = "taken" -> [owner |-> Foreign, data |-> -1]
                  [] o = "InitSecret" /\ s.name = "reused" -> [owner |-> 0, data |-> -1]
                  [] OTHER -> None]
          /\ cache = [o \in {"Workspace", s.slow} |->
                IF o = "Workspace" /\ s.name = "reused" THEN Earlier(w) ELSE live[o]]
          /\ events = s.events
    /\ pending = [o \in DOMAIN cache |-> IF cache[o] = live[o] THEN "no" ELSE "wake"]
    /\ queued = TRUE
    /\ pc = "idle" /\ loc = Nothing

-----------------------------------------------------------------------------
(* The API server and the end of a pass.                                   *)

(* A Secret of somebody else wakes nobody.                                 *)
Wakes(o, v) == o = "InitSecret" /\ v # None => v.owner # Foreign

Commit(new) ==
    /\ live' = new
    /\ pending' = [o \in DOMAIN cache |->
                      IF new[o] = live[o] THEN pending[o]
                      ELSE IF \E v \in {live[o], new[o]} \ {None} : Wakes(o, v)
                      THEN "wake"
                      ELSE IF pending[o] = "no" THEN "quiet" ELSE pending[o]]

Put(o, v) == Commit([live EXCEPT ![o] = v])

(* What a pass reads, and whether that is the live version.                *)
Seen(o) == IF o \in DOMAIN cache THEN cache[o] ELSE live[o]
Current(o) == o \in DOMAIN cache => pending[o] = "no"

Done == pc' = "idle" /\ loc' = Nothing
Continue(step, l) == pc' = step /\ loc' = l /\ UNCHANGED queued

Event == events > 0 /\ events' = events - 1

(* An error ends the pass and queues the next one, after a delay.          *)
Fail == Done /\ queued' = TRUE

-----------------------------------------------------------------------------
(* The container initialisation.                                           *)

(* Mutant: the name is enough.                                             *)
OwnedByName(o, w) == o # None

OwnedBy(o, w) == o # None /\ o.owner = w.uid

(* What prepareContainerInit refuses before it looks for the data: here, a *)
(* template without the command that the injected runner would wrap.       *)
Preflight(w) == w.init.mode = "injected" => w.command

removeContainerInitSecret(w) ==
    IF OwnedBy(Seen("InitSecret"), w) THEN Put("InitSecret", None)
    ELSE UNCHANGED objects

Mounts(w, secret, data) == [secret |-> secret, data |-> data, mode |-> w.init.mode]

Prepared(w, init) ==
    pc' = "workload" /\ queued' = FALSE
    /\ loc' = [Nothing EXCEPT !.ws = w, !.init = init]

(* Failing condition Ready, written only over the Workspace as it was read *)
(* and only when it is new; then the pass fails.                           *)
setNotReadyCondition(w) ==
    /\ IF w.status.cond # "InitFailed" /\ Current("Workspace")
       THEN Put("Workspace", [w EXCEPT !.status.cond = "InitFailed"])
       ELSE UNCHANGED objects
    /\ Fail

inlineInitData(w) ==
    LET found == Seen("InitSecret")
        wanted == [owner |-> w.uid, data |-> w.init.data]
    IN \/ /\ found = None /\ live["InitSecret"] = None
          /\ Put("InitSecret", wanted)
          /\ Prepared(w, Mounts(w, "InitSecret", w.init.data))
       \/ /\ found = wanted
          /\ UNCHANGED objects
          /\ Prepared(w, Mounts(w, "InitSecret", w.init.data))
       \/ /\ OwnedBy(found, w) /\ found # wanted /\ Current("InitSecret")
          /\ Put("InitSecret", wanted)
          /\ Prepared(w, Mounts(w, "InitSecret", w.init.data))
       \/ /\ IF found = None THEN live["InitSecret"] # None
             ELSE \/ ~OwnedBy(found, w)
                  \/ found # wanted /\ ~Current("InitSecret")
          /\ setNotReadyCondition(w)

(* The data is in a Secret of the user; one of the controller's own would  *)
(* be left over.                                                           *)
referencedInitData(w) ==
    \/ /\ Seen("UserDataSecret") = None
       /\ setNotReadyCondition(w)
    \/ /\ Seen("UserDataSecret") # None
       /\ removeContainerInitSecret(w)
       /\ Prepared(w, Mounts(w, "UserDataSecret", Seen("UserDataSecret")))

prepareContainerInit(w) ==
    \/ /\ w.init.mode = "disabled"
       /\ removeContainerInitSecret(w)
       /\ Prepared(w, None)
    \/ /\ w.init.mode # "disabled" /\ ~Preflight(w)
       /\ setNotReadyCondition(w)
    \/ /\ w.init.from = "ref" /\ Preflight(w)
       /\ referencedInitData(w)
    \/ /\ w.init.from = "inline" /\ Preflight(w)
       /\ inlineInitData(w)

-----------------------------------------------------------------------------
(* A pass over the Workspace.                                              *)

(* Mutant: a Workspace that is being deleted is served.                    *)
ReconcileDeleting ==
    /\ pc = "idle" /\ queued
    /\ IF cache["Workspace"] = None
       THEN queued' = FALSE /\ UNCHANGED <<objects, pc, loc>>
       ELSE prepareContainerInit(cache["Workspace"])
    /\ UNCHANGED <<cache, events>>

Reconcile ==
    LET w == cache["Workspace"] IN
    /\ pc = "idle" /\ queued
    /\ IF w = None \/ w.deleting
       THEN queued' = FALSE /\ UNCHANGED <<objects, pc, loc>>
       ELSE prepareContainerInit(w)
    /\ UNCHANGED <<cache, events>>

(* Mutant: only the number of replicas is compared.                        *)
workloadNeedsScaling(desired, found) == desired.replicas # found.replicas

workloadNeedsUpdate(desired, found) ==
    \/ desired.replicas # found.replicas
    \/ desired.template # found.template

(* The pod that serves: {name}-0 for a StatefulSet, the first pod with the *)
(* label of the name for a Deployment.                                     *)
servingPods(w) ==
    LET candidates == IF w.type = "scratch" THEN Pods ELSE {PodOf["StatefulSet"]}
        present == {live[p] : p \in candidates} \ {None}
    IN IF present = {} THEN {None} ELSE present

containerInitFailureCondition(w, pod) ==
    w.init.mode = "injected" /\ pod.phase = "failed"

(* Mutant: with no pod the conditions stay as they are.                    *)
observedStatusKept(w, ready, pod) ==
    [ready |-> ready, cond |-> IF pod = None THEN w.status.cond ELSE pod.phase]

(* The conditions are those of the pod; with no pod there are none.        *)
observedStatus(w, ready, pod) ==
    [ready |-> ready,
     cond |-> IF pod = None THEN "none"
              ELSE IF containerInitFailureCondition(w, pod)
              THEN "StepFailed" ELSE pod.phase]

(* The found workload and Service are changed in place and keep the owner  *)
(* they have.                                                              *)
reconcileService(w) ==
    IF live["Service"] = None THEN generateService(w)
    ELSE [live["Service"] EXCEPT !.selects = generateService(w).selects]

(* Pods are read and the Service is written after the workload; a call in  *)
(* between may fail.                                                       *)
reconcileWorkload ==
    LET k == Kind(loc.ws)
        desired == generateWorkload(loc.ws, loc.init)
        found == Seen(k)
        differs == found # None /\ workloadNeedsUpdate(desired, found)
        written == CASE found = None -> desired
                     [] differs -> [found EXCEPT !.replicas = desired.replicas,
                                                 !.template = desired.template]
                     [] OTHER -> live[k]
        ready == IF found = None THEN 0 ELSE found.ready
    IN /\ pc = "workload"
       /\ \/ /\ found = None \/ differs => Current(k)
             /\ Commit([live EXCEPT ![k] = written,
                                    !["Service"] = reconcileService(loc.ws)])
             /\ \E pod \in servingPods(loc.ws) :
                   Continue("status",
                            [loc EXCEPT !.init = None,
                                        !.status = observedStatus(loc.ws, ready, pod)])
             /\ UNCHANGED events
          \/ /\ found = None \/ differs
             /\ ~Current(k)
             /\ UNCHANGED <<objects, events>>
             /\ Fail
          \/ /\ found = None \/ differs
             /\ Current(k)
             /\ Event
             /\ Put(k, written)
             /\ Fail
       /\ UNCHANGED cache

(* The status goes to the Workspace the cache holds by now; a conflict is  *)
(* retried against the cache a few times, then fails the pass.  The first  *)
(* time a Workspace is seen ready it is marked, unless that took half an   *)
(* hour; failing to mark it does not fail the pass.                        *)
updateWorkspaceStatus ==
    LET latest == cache["Workspace"]
        same == loc.ws.status = loc.status
        accepted == latest # None /\ Current("Workspace")
        toRecord == loc.status.ready > 0 /\ ~loc.ws.recorded
    IN /\ pc = "status"
       /\ \/ /\ same /\ ~toRecord
             /\ UNCHANGED <<objects, queued>> /\ Done
          \/ /\ accepted /\ ~same
             /\ Put("Workspace", [latest EXCEPT !.status = loc.status])
             /\ Done /\ UNCHANGED queued
          \/ /\ accepted /\ toRecord
             /\ Put("Workspace", [latest EXCEPT !.status = loc.status, !.recorded = TRUE])
             /\ Done /\ UNCHANGED queued
          \/ /\ same /\ toRecord
             /\ UNCHANGED <<objects, queued>> /\ Done
          \/ /\ ~same /\ ~accepted
             /\ UNCHANGED objects
             /\ Fail
       /\ UNCHANGED <<cache, events>>

Pass == Reconcile \/ reconcileWorkload \/ updateWorkspaceStatus

-----------------------------------------------------------------------------
(* Events, failing calls and restarts.                                     *)

(* Whether the event of an object leads to the Workspace: every event of   *)
(* the Workspace and of the objects it owns, and of the Secret it names,   *)
(* if the cached Workspace does.                                           *)
workspacesForContainerInitSecret ==
    cache["Workspace"] # None /\ cache["Workspace"].init.from = "ref"

Maps(o, wakes) ==
    IF o = "UserDataSecret" THEN workspacesForContainerInitSecret ELSE wakes

Deliver(o) ==
    /\ pending[o] # "no"
    /\ cache' = [cache EXCEPT ![o] = live[o]]
    /\ pending' = [pending EXCEPT ![o] = "no"]
    /\ queued' = (queued \/ Maps(o, pending[o] = "wake"))
    /\ UNCHANGED <<live, pc, loc, events>>

(* Others change an object; one that does not lag is in the cache at once. *)
(* A workload that is removed takes its pod along.                         *)
Change(o, v) ==
    /\ Commit([live EXCEPT ![o] = v,
                           ![IF o \in Workloads THEN PodOf[o] ELSE o] = v])
    /\ queued' = (queued \/ (/\ o \notin DOMAIN cache
                             /\ Maps(o, \E x \in {live[o], v} \ {None} : Wakes(o, x))))
    /\ UNCHANGED <<cache, pc, loc>>

CallFails ==
    /\ Event /\ pc # "idle"
    /\ Fail
    /\ UNCHANGED <<objects, cache>>

Restart ==
    /\ Event
    /\ cache' = [o \in DOMAIN cache |-> live[o]]
    /\ pending' = [o \in DOMAIN cache |-> "no"]
    /\ Fail
    /\ UNCHANGED live

-----------------------------------------------------------------------------
(* Users.                                                                  *)

EditWorkspace(w) == Event /\ Change("Workspace", w)

EditsWorkspace ==
    LET w == live["Workspace"] IN
    /\ w # None /\ ~w.deleting
    /\ \/ EditWorkspace([w EXCEPT !.stopped = ~@])
       \/ EditWorkspace([w EXCEPT !.command = ~@])
       \/ \E i \in InitSpecs(events) \ {w.init} :
             EditWorkspace([w EXCEPT !.init = i])
       \/ \E t \in {"container", "scratch"} \ {w.type} :
             EditWorkspace([w EXCEPT !.type = t])

(* In the foreground the Workspace stays until what it owns is gone.       *)
DeletesWorkspace ==
    /\ live["Workspace"] # None
    /\ \/ EditWorkspace([live["Workspace"] EXCEPT !.deleting = TRUE])
       \/ EditWorkspace(None)

(* The Secret the Workspace may name, and the name of the controller's own *)
(* Secret, are open to the user.                                           *)
EditSecret(o, v) ==
    /\ Event
    /\ live[o] # v
    /\ Change(o, v)

EditsSecrets ==
    \/ \E v \in {events, None} : EditSecret("UserDataSecret", v)
    \/ EditSecret("InitSecret", None)
    \/ /\ live["InitSecret"] = None
       /\ EditSecret("InitSecret", [owner |-> Foreign, data |-> events])

-----------------------------------------------------------------------------
(* Kubernetes: garbage collection and the controllers of the workloads.    *)

OwnerLives(o) ==
    \/ live[o].owner = Foreign
    \/ /\ live["Workspace"] # None /\ live["Workspace"].uid = live[o].owner
       /\ ~live["Workspace"].deleting

CollectGarbage(o) ==
    /\ live[o] # None /\ ~OwnerLives(o)
    /\ Change(o, None)
    /\ UNCHANGED events

RemoveWorkspace ==
    LET w == live["Workspace"] IN
    /\ w # None /\ w.deleting
    /\ \A o \in Owned : ~OwnedBy(live[o], w)
    /\ Change("Workspace", None)
    /\ UNCHANGED events

(* The pod of a workload changes, and with it the number of ready pods in  *)
(* the status of the workload; the event of the pod queues a pass.         *)
PutPod(k, pod) ==
    LET ready == IF pod # None /\ pod.phase = "ready" THEN 1 ELSE 0 IN
    /\ Commit([live EXCEPT ![PodOf[k]] = pod,
                           ![k] = IF @ = None THEN @ ELSE [@ EXCEPT !.ready = ready]])
    /\ queued' = TRUE
    /\ UNCHANGED <<cache, pc, loc>>

(* A pod starts once the Secret it mounts exists, with the data in it, and *)
(* serves.                                                                 *)
StartPod(k) ==
    LET i == live[k].template.init IN
    /\ live[k] # None /\ live[k].replicas = 1 /\ live[PodOf[k]] = None
    /\ i # None => live[i.secret] # None
    /\ PutPod(k, [template |-> live[k].template, phase |-> "ready",
                  data |-> IF i = None THEN 0
                           ELSE IF i.secret = "InitSecret" THEN live[i.secret].data
                           ELSE live[i.secret]])
    /\ UNCHANGED events

(* A StatefulSet replaces a pod by one of a newer template only when the   *)
(* pod is ready.                                                           *)
StopPod(k) ==
    /\ live[PodOf[k]] # None
    /\ live[k] # None => \/ live[k].replicas = 0
                        \/ /\ live[k].template # live[PodOf[k]].template
                           /\ k = "StatefulSet" => live[PodOf[k]].phase = "ready"
    /\ PutPod(k, None)
    /\ UNCHANGED events

(* The container is restarted; its initialisation may succeed this time.   *)
PodRecovers(k) ==
    /\ live[PodOf[k]] # None /\ live[PodOf[k]].phase = "failed"
    /\ PutPod(k, [live[PodOf[k]] EXCEPT !.phase = "ready"])
    /\ UNCHANGED events

(* The runner of an injected initialisation reports a failed step.         *)
PodFails(k) ==
    /\ Event
    /\ live[PodOf[k]] # None /\ live[PodOf[k]].phase # "failed"
    /\ live[PodOf[k]].template.init # None
    /\ PutPod(k, [live[PodOf[k]] EXCEPT !.phase = "failed"])

Kubelet(k) == StartPod(k) \/ StopPod(k)

-----------------------------------------------------------------------------
Users == EditsWorkspace \/ DeletesWorkspace \/ EditsSecrets

Next ==
    \/ Pass
    \/ \E o \in DOMAIN cache : Deliver(o)
    \/ CallFails \/ Restart
    \/ Users
    \/ \E o \in Owned : CollectGarbage(o)
    \/ RemoveWorkspace
    \/ \E k \in Workloads : Kubelet(k) \/ PodFails(k) \/ PodRecovers(k)

(* The queue is served, events arrive, and Kubernetes does its work.  An   *)
(* initialisation that fails may fail for ever.                            *)
Fairness ==
    /\ WF_vars(Pass)
    /\ \A o \in Objects : WF_vars(o \in DOMAIN cache /\ Deliver(o))
    /\ \A o \in Owned : WF_vars(CollectGarbage(o))
    /\ WF_vars(RemoveWorkspace)
    /\ \A k \in Workloads : WF_vars(Kubelet(k))

Spec == Init /\ [][Next]_vars /\ Fairness

-----------------------------------------------------------------------------
(* Properties.                                                             *)

Exists == live["Workspace"] # None /\ ~live["Workspace"].deleting

InitRefused(w) ==
    /\ w.init.mode # "disabled"
    /\ \/ ~Preflight(w)
       \/ w.init.from = "ref" /\ live["UserDataSecret"] = None
       \/ w.init.from = "inline" /\ ~OwnedBy(live["InitSecret"], w)

WantedInit(w) ==
    CASE w.init.mode = "disabled" -> None
      [] w.init.from = "ref" -> Mounts(w, "UserDataSecret", live["UserDataSecret"])
      [] w.init.from = "inline" -> Mounts(w, "InitSecret", w.init.data)

ForeignSecret == live["InitSecret"] # None /\ live["InitSecret"].owner = Foreign

(* A Secret of somebody else under the name of the controller's own is not *)
(* overwritten and not taken over (containerInitData).                     *)
ForeignSecretNotAdopted ==
    [][ForeignSecret => live["InitSecret"]' \in {live["InitSecret"], None}]_vars

(* "foreign Secret changed or deleted" (container_init_test.go:244): only  *)
(* users remove a Secret of somebody else under the name of the            *)
(* controller's own.  removeContainerInitSecret deletes by name what the   *)
(* cache showed it, and the Secret of that name may be another by then.    *)
ForeignSecretKept ==
    [][ForeignSecret /\ UNCHANGED events => UNCHANGED live["InitSecret"]]_vars

(* Once users leave the Workspace alone, its workload and Service become   *)
(* what its specification asks for, and its pod, if it is not stopped and  *)
(* serves, was initialised with the data it names now, whatever was        *)
(* re-created, retried or read from an old cache; unless its               *)
(* initialisation is refused (reconcileStatefulSet, reconcileDeployment,   *)
(* reconcileService, prepareContainerInit's hash of the data in the        *)
(* template).                                                              *)
WorkloadSettles ==
    <>[](Exists /\ ~InitRefused(live["Workspace"]) =>
           LET w == live["Workspace"]
               workload == live[Kind(w)]
               pod == live[PodOf[Kind(w)]]
           IN /\ OwnedBy(workload, w)
              /\ workload.replicas = IF w.stopped THEN 0 ELSE 1
              /\ workload.template = Template(w, WantedInit(w))
              /\ live["Service"] = generateService(w)
              /\ pod = None <=> w.stopped
              /\ pod # None /\ pod.phase = "ready" /\ w.init.mode # "disabled"
                    => pod.data = WantedInit(w).data)

Told(w, pod) ==
    IF pod = None THEN "none"
    ELSE IF pod.phase = "failed" /\ w.init.mode = "injected" THEN "StepFailed"
    ELSE pod.phase

(* In the end the status tells the truth, also of what keeps failing: a    *)
(* refused initialisation is reported, a cured one is not, ready means a   *)
(* serving pod of the workload, and the condition is that of the pod, with *)
(* none when it is stopped; a scratch Workspace that was a container may   *)
(* show the pod it left over instead, for ever and even when it is stopped *)
(* (updateWorkspaceStatus, setNotReadyCondition, podByLabel).              *)
StatusTruthful ==
    <>[](Exists =>
           LET w == live["Workspace"]
               pod == live[PodOf[Kind(w)]]
               leftover == live[PodOf["StatefulSet"]]
           IN IF InitRefused(w) THEN w.status.cond = "InitFailed"
              ELSE /\ w.status.ready = IF pod # None /\ pod.phase = "ready" THEN 1 ELSE 0
                   /\ \/ w.status.cond = Told(w, pod)
                      \/ /\ w.type = "scratch" /\ leftover # None
                         /\ w.status.cond = Told(w, leftover))

(* A deletion in the foreground ends: the controller does not keep making  *)
(* anew what the garbage collector removes (Reconcile's early return).     *)
DeletionCompletes ==
    []<>~(live["Workspace"] # None /\ live["Workspace"].deleting)

=============================================================================
