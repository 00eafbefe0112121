---------------------- MODULE ContainerWorkspaceProofs ----------------------
(***************************************************************************)
(* Proofs about ContainerWorkspace for every value of its constants.       *)
(***************************************************************************)
EXTENDS ContainerWorkspace, TLAPS

USE ConstantsAssumption

-----------------------------------------------------------------------------
(* The inductive invariant.                                                *)

HasUID(w) == w # None => "uid" \in DOMAIN w /\ w.uid \in Nat

(* The cache holds the Workspace and some other objects, and holds the     *)
(* live version of each object of which none is on its way to it.          *)
CacheAgrees ==
    /\ DOMAIN live = Objects
    /\ "Workspace" \in DOMAIN cache /\ DOMAIN cache \subseteq Objects
    /\ DOMAIN pending = DOMAIN cache
    /\ \A o \in DOMAIN cache : pending[o] = "no" => cache[o] = live[o]

(* A Workspace has a UID of its own, which no foreign owner has.           *)
WorkspacesNumbered == HasUID(live["Workspace"]) /\ HasUID(cache["Workspace"])

SecretInvariant == CacheAgrees /\ WorkspacesNumbered

-----------------------------------------------------------------------------
(* What the API server does with a write.                                  *)

LEMMA CommitAgrees ==
  ASSUME CacheAgrees, NEW new, DOMAIN new = Objects, Commit(new), UNCHANGED cache
  PROVE  CacheAgrees'
<1>1. live' = new /\ DOMAIN pending' = DOMAIN cache
  BY DEF Commit
<1>2. ASSUME NEW o \in DOMAIN cache, pending'[o] = "no"
      PROVE  cache[o] = new[o]
  <2>1. pending'[o] = IF new[o] = live[o] THEN pending[o]
                      ELSE IF \E v \in {live[o], new[o]} \ {None} : Wakes(o, v)
                      THEN "wake"
                      ELSE IF pending[o] = "no" THEN "quiet" ELSE pending[o]
    BY DEF Commit
  <2> QED BY <1>2, <2>1 DEF CacheAgrees
<1> QED BY <1>1, <1>2 DEF CacheAgrees

(* A write to one object and perhaps to others that are neither the        *)
(* Workspace nor the controller's own Secret.                              *)
LEMMA PutAgrees ==
  ASSUME SecretInvariant, NEW o, NEW v, Put(o, v), UNCHANGED cache,
         o = "Workspace" => HasUID(v)
  PROVE  /\ SecretInvariant'
         /\ o # "InitSecret" => live'["InitSecret"] = live["InitSecret"]
         /\ o = "InitSecret" => live'["InitSecret"] = v
<1> DEFINE new == [live EXCEPT ![o] = v]
<1>1. Commit(new)
  BY DEF Put
<1>2. /\ DOMAIN new = Objects
      /\ new["Workspace"] = IF o = "Workspace" THEN v ELSE live["Workspace"]
      /\ new["InitSecret"] = IF o = "InitSecret" THEN v ELSE live["InitSecret"]
  BY DEF SecretInvariant, CacheAgrees, Objects, Owned
<1> HIDE DEF new
<1>3. live' = new /\ CacheAgrees'
  BY <1>1, <1>2, CommitAgrees DEF SecretInvariant, Commit
<1>4. WorkspacesNumbered'
  BY <1>2, <1>3 DEF SecretInvariant, WorkspacesNumbered
<1> QED BY <1>2, <1>3, <1>4 DEF SecretInvariant

LEMMA ElsewhereAgrees ==
  ASSUME SecretInvariant, NEW new, DOMAIN new = Objects, Commit(new),
         new["Workspace"] = live["Workspace"], new["InitSecret"] = live["InitSecret"],
         UNCHANGED cache
  PROVE  SecretInvariant' /\ live'["InitSecret"] = live["InitSecret"]
<1>1. live' = new
  BY DEF Commit
<1>2. CacheAgrees'
  BY CommitAgrees DEF SecretInvariant
<1> QED BY <1>1, <1>2 DEF SecretInvariant, WorkspacesNumbered

LEMMA UnchangedAgrees ==
  ASSUME SecretInvariant, UNCHANGED <<live, cache, pending>>
  PROVE  SecretInvariant'
BY DEF SecretInvariant, CacheAgrees, WorkspacesNumbered

-----------------------------------------------------------------------------
(* Every step keeps the invariant and a foreign Secret.                    *)

Kept == ForeignSecret
           => live'["InitSecret"] \in {live["InitSecret"], None}

LEMMA StatusWrite ==
  ASSUME SecretInvariant, NEW w, w # None, HasUID(w), setNotReadyCondition(w),
         UNCHANGED cache
  PROVE  SecretInvariant' /\ Kept
<1>1. HasUID([w EXCEPT !.status.cond = "InitFailed"])
  BY DEF HasUID
<1>2. CASE Put("Workspace", [w EXCEPT !.status.cond = "InitFailed"])
  BY <1>1, <1>2, PutAgrees DEF Kept, ForeignSecret
<1>3. CASE UNCHANGED objects
  BY <1>3, UnchangedAgrees DEF objects, Kept, ForeignSecret
<1> QED BY <1>2, <1>3 DEF setNotReadyCondition

LEMMA SecretRemoved ==
  ASSUME SecretInvariant, NEW w, removeContainerInitSecret(w), UNCHANGED cache
  PROVE  SecretInvariant' /\ Kept
<1>1. CASE Put("InitSecret", None)
  BY <1>1, PutAgrees DEF Kept, ForeignSecret
<1>2. CASE UNCHANGED objects
  BY <1>2, UnchangedAgrees DEF objects, Kept, ForeignSecret
<1> QED BY <1>1, <1>2 DEF removeContainerInitSecret

(* The Secret is written where there is none, or over the live version of  *)
(* one this Workspace owns.                                                *)
LEMMA SecretWritten ==
  ASSUME SecretInvariant, NEW w, w # None, HasUID(w), inlineInitData(w),
         UNCHANGED cache
  PROVE  SecretInvariant' /\ Kept
<1> DEFINE found == Seen("InitSecret")
           wanted == [owner |-> w.uid, data |-> w.init.data]
<1>1. CASE live["InitSecret"] = None /\ Put("InitSecret", wanted)
  BY <1>1, PutAgrees DEF Kept, ForeignSecret
<1>2. CASE UNCHANGED objects
  BY <1>2, UnchangedAgrees DEF objects, Kept, ForeignSecret
<1>3. CASE OwnedBy(found, w) /\ Current("InitSecret") /\ Put("InitSecret", wanted)
  <2>1. found = live["InitSecret"]
    BY <1>3 DEF Seen, Current, SecretInvariant, CacheAgrees
  <2>2. live["InitSecret"].owner # Foreign
    BY <1>3, <2>1 DEF OwnedBy, HasUID
  <2> QED BY <1>3, <2>2, PutAgrees DEF Kept, ForeignSecret
<1>4. CASE setNotReadyCondition(w)
  BY <1>4, StatusWrite
<1> QED BY <1>1, <1>2, <1>3, <1>4 DEF inlineInitData

LEMMA ReconcileKeeps ==
  ASSUME SecretInvariant, Reconcile
  PROVE  SecretInvariant' /\ Kept
<1> DEFINE w == cache["Workspace"]
<1>1. UNCHANGED cache /\ HasUID(w)
  BY DEF Reconcile, SecretInvariant, WorkspacesNumbered
<1>2. CASE UNCHANGED objects
  BY <1>1, <1>2, UnchangedAgrees DEF objects, Kept, ForeignSecret
<1>3. CASE w # None /\ prepareContainerInit(w)
  BY <1>1, <1>3, StatusWrite, SecretRemoved, SecretWritten
     DEF prepareContainerInit, referencedInitData
<1> QED BY <1>2, <1>3 DEF Reconcile

LEMMA PassKeeps ==
  ASSUME SecretInvariant, Pass
  PROVE  SecretInvariant' /\ Kept
<1>1. CASE reconcileWorkload
  <2>1. Kind(loc.ws) \in Workloads /\ UNCHANGED cache
    BY <1>1 DEF reconcileWorkload, Kind, Workloads
  <2>2. ASSUME NEW k \in Workloads, NEW v, NEW s,
               Commit([live EXCEPT ![k] = v, !["Service"] = s])
        PROVE  SecretInvariant' /\ Kept
    <3> DEFINE new == [live EXCEPT ![k] = v, !["Service"] = s]
    <3>1. /\ DOMAIN new = Objects
          /\ new["Workspace"] = live["Workspace"]
          /\ new["InitSecret"] = live["InitSecret"]
      BY DEF SecretInvariant, CacheAgrees, Objects, Owned, Workloads
    <3>2. Commit(new)
      BY <2>2
    <3> HIDE DEF new
    <3> QED BY <2>1, <3>1, <3>2, ElsewhereAgrees DEF Kept, ForeignSecret
  <2>3. ASSUME NEW k \in Workloads, NEW v, Put(k, v)
        PROVE  SecretInvariant' /\ Kept
    <3>1. k # "Workspace" /\ k # "InitSecret"
      BY DEF Workloads
    <3> QED BY <2>1, <2>3, <3>1, PutAgrees DEF Kept, ForeignSecret
  <2>4. CASE UNCHANGED objects
    BY <2>1, <2>4, UnchangedAgrees DEF objects, Kept, ForeignSecret
  <2> QED BY <1>1, <2>1, <2>2, <2>3, <2>4 DEF reconcileWorkload
<1>2. CASE updateWorkspaceStatus
  <2> DEFINE latest == cache["Workspace"]
  <2>1. UNCHANGED cache /\ HasUID(latest)
    BY <1>2 DEF updateWorkspaceStatus, SecretInvariant, WorkspacesNumbered
  <2>2. CASE UNCHANGED objects
    BY <2>1, <2>2, UnchangedAgrees DEF objects, Kept, ForeignSecret
  <2>3. ASSUME NEW st, latest # None,
               \/ Put("Workspace", [latest EXCEPT !.status = st])
               \/ Put("Workspace", [latest EXCEPT !.status = st, !.recorded = TRUE])
        PROVE  SecretInvariant' /\ Kept
    <3>1. /\ HasUID([latest EXCEPT !.status = st])
          /\ HasUID([latest EXCEPT !.status = st, !.recorded = TRUE])
      BY <2>1, <2>3 DEF HasUID
    <3> QED BY <2>1, <2>3, <3>1, PutAgrees DEF Kept, ForeignSecret
  <2> QED BY <1>2, <2>2, <2>3 DEF updateWorkspaceStatus
<1> QED BY <1>1, <1>2, ReconcileKeeps DEF Pass

(* What others change: the Workspace, the Secrets, what the Workspace owns *)
(* or the pods of its workload.                                            *)
LEMMA ChangeKeeps ==
  ASSUME SecretInvariant, NEW o \in Objects \ Pods, NEW v, Change(o, v),
         o = "Workspace" => HasUID(v),
         o = "InitSecret" => v = None \/ live["InitSecret"] = None
  PROVE  SecretInvariant' /\ Kept
<1> DEFINE p == IF o \in Workloads THEN PodOf[o] ELSE o
           new == [live EXCEPT ![o] = v, ![p] = v]
<1>1. Commit(new) /\ UNCHANGED cache
  BY DEF Change
<1>2. p = o \/ p \in {"StatefulSetPod", "DeploymentPod"}
  BY DEF PodOf, Workloads
<1>3. DOMAIN new = Objects
  BY DEF SecretInvariant, CacheAgrees
<1>4. /\ new["Workspace"] = IF o = "Workspace" THEN v ELSE live["Workspace"]
      /\ new["InitSecret"] = IF o = "InitSecret" THEN v ELSE live["InitSecret"]
  <2> HIDE DEF p
  <2> QED BY <1>2 DEF SecretInvariant, CacheAgrees, Objects, Owned
<1> HIDE DEF new
<1>5. live' = new /\ CacheAgrees'
  BY <1>1, <1>3, CommitAgrees DEF SecretInvariant, Commit
<1>6. WorkspacesNumbered'
  BY <1>1, <1>4, <1>5 DEF SecretInvariant, WorkspacesNumbered
<1> QED BY <1>4, <1>5, <1>6 DEF SecretInvariant, Kept, ForeignSecret

LEMMA PutPodKeeps ==
  ASSUME SecretInvariant, NEW k \in Workloads, NEW pod, PutPod(k, pod)
  PROVE  SecretInvariant' /\ Kept
<1>1. PICK x : /\ Commit([live EXCEPT ![PodOf[k]] = pod, ![k] = x])
               /\ UNCHANGED cache
  BY DEF PutPod
<1> DEFINE new == [live EXCEPT ![PodOf[k]] = pod, ![k] = x]
<1>2. PodOf[k] \in {"StatefulSetPod", "DeploymentPod"}
  BY DEF PodOf, Workloads
<1>3. /\ DOMAIN new = Objects
      /\ new["Workspace"] = live["Workspace"]
      /\ new["InitSecret"] = live["InitSecret"]
  BY <1>2 DEF SecretInvariant, CacheAgrees, Objects, Owned, Workloads
<1>4. Commit(new)
  BY <1>1
<1> HIDE DEF new
<1> QED BY <1>1, <1>3, <1>4, ElsewhereAgrees DEF Kept, ForeignSecret

LEMMA UsersKeep ==
  ASSUME SecretInvariant, Users
  PROVE  SecretInvariant' /\ Kept
<1> DEFINE w == live["Workspace"]
<1>o. /\ "Workspace" \in Objects \ Pods /\ "UserDataSecret" \in Objects \ Pods
      /\ "InitSecret" \in Objects \ Pods
  BY DEF Objects, Owned, Pods, PodOf, Workloads
<1>u. HasUID(w)
  BY DEF SecretInvariant, WorkspacesNumbered
<1>1. ASSUME NEW v, HasUID(v), EditWorkspace(v)
      PROVE  SecretInvariant' /\ Kept
  BY <1>1, <1>o, ChangeKeeps DEF EditWorkspace
<1>2. CASE EditsWorkspace
  <2>1. w # None
    BY <1>2 DEF EditsWorkspace
  <2>2. \A x : /\ HasUID([w EXCEPT !.stopped = x]) /\ HasUID([w EXCEPT !.command = x])
               /\ HasUID([w EXCEPT !.init = x]) /\ HasUID([w EXCEPT !.type = x])
    BY <1>u, <2>1 DEF HasUID
  <2> HIDE DEF w
  <2> QED BY <1>1, <1>2, <2>2 DEF EditsWorkspace, w
<1>3. CASE DeletesWorkspace
  <2>1. HasUID([w EXCEPT !.deleting = TRUE]) \/ w = None
    BY <1>u DEF HasUID
  <2>2. HasUID(None)
    BY DEF HasUID
  <2> QED BY <1>1, <1>3, <2>1, <2>2 DEF DeletesWorkspace
<1>4. CASE EditsSecrets
  <2>1. ASSUME NEW v, EditSecret("UserDataSecret", v)
        PROVE  SecretInvariant' /\ Kept
    BY <1>o, <2>1, ChangeKeeps DEF EditSecret
  <2>2. ASSUME NEW v, EditSecret("InitSecret", v),
               v = None \/ live["InitSecret"] = None
        PROVE  SecretInvariant' /\ Kept
    BY <1>o, <2>2, ChangeKeeps DEF EditSecret
  <2> QED BY <1>4, <2>1, <2>2 DEF EditsSecrets
<1> QED BY <1>2, <1>3, <1>4 DEF Users

LEMMA NextKeeps ==
  ASSUME SecretInvariant, [Next]_vars
  PROVE  SecretInvariant' /\ Kept
<1>1. CASE Pass
  BY <1>1, PassKeeps
<1>2. ASSUME NEW o \in DOMAIN cache, Deliver(o)
      PROVE  SecretInvariant' /\ Kept
  <2>1. /\ cache' = [cache EXCEPT ![o] = live[o]]
        /\ pending' = [pending EXCEPT ![o] = "no"]
        /\ UNCHANGED live
    BY <1>2 DEF Deliver
  <2>2. CacheAgrees'
    BY <2>1 DEF SecretInvariant, CacheAgrees
  <2>3. WorkspacesNumbered'
    BY <2>1 DEF SecretInvariant, CacheAgrees, WorkspacesNumbered
  <2> QED BY <2>1, <2>2, <2>3 DEF SecretInvariant, Kept, ForeignSecret
<1>3. CASE CallFails
  BY <1>3, UnchangedAgrees DEF CallFails, objects, Kept, ForeignSecret
<1>4. CASE Restart
  BY <1>4 DEF Restart, SecretInvariant, CacheAgrees, WorkspacesNumbered, Kept, ForeignSecret
<1>5. CASE Users
  BY <1>5, UsersKeep
<1>6. ASSUME NEW o \in Owned, CollectGarbage(o)
      PROVE  SecretInvariant' /\ Kept
  <2>1. o \in Objects \ Pods /\ o # "Workspace"
    BY DEF Objects, Owned, Pods, PodOf, Workloads
  <2> QED BY <1>6, <2>1, ChangeKeeps DEF CollectGarbage
<1>7. CASE RemoveWorkspace
  <2>1. "Workspace" \in Objects \ Pods /\ HasUID(None)
    BY DEF Objects, Owned, Pods, PodOf, Workloads, HasUID
  <2> QED BY <1>7, <2>1, ChangeKeeps DEF RemoveWorkspace
<1>8. ASSUME NEW k \in Workloads, Kubelet(k) \/ PodFails(k) \/ PodRecovers(k)
      PROVE  SecretInvariant' /\ Kept
  BY <1>8, PutPodKeeps DEF Kubelet, StartPod, StopPod, PodRecovers, PodFails
<1>9. CASE UNCHANGED vars
  BY <1>9, UnchangedAgrees DEF vars, Kept, ForeignSecret
<1> QED BY <1>1, <1>2, <1>3, <1>4, <1>5, <1>6, <1>7, <1>8, <1>9 DEF Next

LEMMA InitHolds == Init => SecretInvariant
<1> SUFFICES ASSUME Init PROVE SecretInvariant
  OBVIOUS
<1>1. PICK s \in Starts, i \in InitSpecs(0) :
         LET w == NewWorkspace(1, s.type, i) IN
         /\ live = [o \in Objects |->
                CASE o = "Workspace" -> w
                  [] o = "UserDataSecret" -> 0
                  [] o = "InitSecret" /\ s.name = "taken" -> [owner |-> Foreign, data |-> -1]
                  [] o = "InitSecret" /\ s.name = "reused" -> [owner |-> 0, data |-> -1]
                  [] OTHER -> None]
         /\ cache = [o \in {"Workspace", s.slow} |->
                IF o = "Workspace" /\ s.name = "reused" THEN Earlier(w) ELSE live[o]]
  BY DEF Init
<1> DEFINE w == NewWorkspace(1, s.type, i)
<1>2. cache = [o \in {"Workspace", s.slow} |->
                  IF o = "Workspace" /\ s.name = "reused" THEN Earlier(w) ELSE live[o]]
  BY <1>1
<1>3. s.slow \in Objects
  BY DEF Objects, Owned, Workloads
<1>4. "uid" \in DOMAIN w /\ w.uid = 1 /\ "uid" \in DOMAIN Earlier(w) /\ Earlier(w).uid = 0
  BY DEF NewWorkspace, Earlier
<1>5. DOMAIN live = Objects /\ live["Workspace"] = w
  BY <1>1 DEF Objects
<1> HIDE DEF w
<1>6. /\ DOMAIN cache = {"Workspace", s.slow}
      /\ cache["Workspace"] \in {w, Earlier(w)}
  BY <1>2, <1>5
<1>7. CacheAgrees
  <2>1. pending = [o \in DOMAIN cache |-> IF cache[o] = live[o] THEN "no" ELSE "wake"]
    BY DEF Init
  <2>2. DOMAIN cache \subseteq Objects
    BY <1>3, <1>6 DEF Objects
  <2> QED BY <1>5, <1>6, <2>1, <2>2 DEF CacheAgrees
<1>8. WorkspacesNumbered
  BY <1>4, <1>5, <1>6 DEF WorkspacesNumbered, HasUID
<1> QED BY <1>7, <1>8 DEF SecretInvariant

(* Whatever the cache shows, a version the controller may write over is    *)
(* the live one, and no Workspace passes for a foreign owner.              *)
THEOREM SecretInvariantHolds == Spec => []SecretInvariant
<1>1. SecretInvariant /\ [Next]_vars => SecretInvariant'
  BY NextKeeps
<1> QED BY <1>1, InitHolds, PTL DEF Spec

(* A Secret of somebody else under the name of the controller's own is not *)
(* overwritten and not taken over, however far the cache lags              *)
(* (containerInitData, removeContainerInitSecret).                         *)
THEOREM ForeignSecretNotAdoptedHolds == Spec => ForeignSecretNotAdopted
<1> DEFINE A == ForeignSecret => live["InitSecret"]' \in {live["InitSecret"], None}
<1>1. SecretInvariant /\ [Next]_vars => [A]_vars
  BY NextKeeps DEF Kept, ForeignSecret
<1> HIDE DEF A
<1>2. Spec => [][A]_vars
  BY <1>1, SecretInvariantHolds, PTL DEF Spec
<1> QED BY <1>2 DEF A, ForeignSecretNotAdopted

=============================================================================
