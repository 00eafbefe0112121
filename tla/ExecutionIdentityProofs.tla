----------------------- MODULE ExecutionIdentityProofs -----------------------
(***************************************************************************)
(* Proofs about ExecutionIdentity for every value of its constants.        *)
(***************************************************************************)
EXTENDS ExecutionIdentity, TLAPS

USE ConstantsAssumption

LEMMA NewWorkspaceType ==
  ASSUME NEW u \in Nat, NEW r \in Nat, NEW e \in Nat
  PROVE  NewWorkspace(u, r, e) \in Workspace
BY DEF NewWorkspace, Workspace, Conditions

LEMMA BlankType == Blank \in Workspace
BY DEF Blank, NewWorkspace, Workspace, Conditions

LEMMA InitType == Init => TypeOK
<1> SUFFICES ASSUME Init PROVE TypeOK
  OBVIOUS
<1>1. ws \in Workspace
  BY NewWorkspaceType DEF Init
<1> QED
  BY <1>1, BlankType DEF Init, TypeOK, VirtualMachine

(* What the API server stores is a Workspace whenever it is handed one.    *)
LEMMA StoreType ==
  ASSUME TypeOK, NEW o \in Workspace, Store(o)
  PROVE  ws' \in Workspace /\ feed' \subseteq Workspace
BY DEF TypeOK, Store, object, Workspace

LEMMA PutObjectType ==
  ASSUME TypeOK, NEW o \in Workspace, PutObject(o)
  PROVE  ws' \in Workspace /\ feed' \subseteq Workspace
<1> DEFINE n == [o EXCEPT !.phase = ws.phase, !.mgmt = ws.mgmt,
                          !.ready = ws.ready, !.cond = ws.cond]
<1>1. n \in Workspace
  BY DEF TypeOK, Workspace
<1>2. Store(n)
  BY DEF PutObject
<1> QED
  BY <1>1, <1>2, StoreType

LEMMA PutStatusType ==
  ASSUME TypeOK, NEW o \in Workspace, PutStatus(o)
  PROVE  ws' \in Workspace /\ feed' \subseteq Workspace
<1> DEFINE n == [ws EXCEPT !.mgmt = o.mgmt, !.ready = o.ready, !.cond = o.cond]
<1>1. n \in Workspace
  BY DEF TypeOK, Workspace
<1>2. Store(n)
  BY DEF PutStatus
<1> QED
  BY <1>1, <1>2, StoreType

LEMMA EndPassType ==
  EndPass => /\ pc' \in {"idle", "setNotReady"} \cup Steps
             /\ inst' \in Workspace
             /\ fresh' \in Workspace
             /\ seenVM' \in Nat
             /\ derived' \in [ready : BOOLEAN, cond : {"none", "pod"}]
             /\ why' \in {"none"} \cup Steps
BY BlankType DEF EndPass

LEMMA FailType ==
  ASSUME TypeOK, NEW step \in Steps, Fail(step)
  PROVE  /\ pc' \in {"idle", "setNotReady"} \cup Steps
         /\ inst' \in Workspace
         /\ fresh' \in Workspace
         /\ seenVM' \in Nat
         /\ derived' \in [ready : BOOLEAN, cond : {"none", "pod"}]
         /\ why' \in {"none"} \cup Steps
BY DEF Fail, TypeOK

LEMMA PassType ==
  ASSUME TypeOK, CreateAgrees, Pass
  PROVE  TypeOK'
<1>1. CASE Reconcile
  BY <1>1 DEF Reconcile, Goto, TypeOK, object, counters, Steps
<1>2. CASE handleReset
  <2>1. CASE vm.live
    BY <1>2, <2>1, EndPassType DEF handleReset, TypeOK, object, counters, VirtualMachine
  <2>2. CASE ~vm.live
    BY <1>2, <2>2 DEF handleReset, Goto, TypeOK, object, counters, local, Steps
  <2> QED BY <2>1, <2>2
<1>3. CASE clearReset
  <2>1. ResetConsumed(inst) \in Workspace
    BY DEF ResetConsumed, TypeOK, Workspace
  <2>2. ws' \in Workspace /\ feed' \subseteq Workspace
    BY <1>3, <2>1, PutObjectType DEF clearReset, object, TypeOK
  <2> QED
    BY <1>3, <2>2, EndPassType DEF clearReset, TypeOK, counters
<1>4. CASE ensureLinuxAgentGeneration
  <2>1. CASE inst.gen # 0
    BY <1>4, <2>1 DEF ensureLinuxAgentGeneration, Goto, TypeOK, object, local, Steps
  <2>2. CASE inst.gen = 0 /\ Accepted(inst)
    <3>1. [inst EXCEPT !.gen = lastGen + 1] \in Workspace
      BY DEF TypeOK, Workspace
    <3>2. ws' \in Workspace /\ feed' \subseteq Workspace
      BY <1>4, <2>2, <3>1, PutObjectType DEF ensureLinuxAgentGeneration
    <3> QED
      BY <1>4, <2>2, <3>2 DEF ensureLinuxAgentGeneration, Goto, TypeOK, Steps
  <2>3. CASE inst.gen = 0 /\ ~Accepted(inst)
    BY <1>4, <2>3, FailType DEF ensureLinuxAgentGeneration, TypeOK, object, Steps
  <2> QED BY <2>1, <2>2, <2>3
<1>5. CASE reconcileVirtualMachine
  <2>1. CASE createVirtualMachine
    BY <1>5, <2>1 DEF reconcileVirtualMachine, createVirtualMachine, DesiredVM,
       Goto, TypeOK, object, counters, Steps, VirtualMachine, Workspace
  <2>2. CASE updateVirtualMachine
    <3>1. [vm EXCEPT !.gen = DesiredVM(inst).gen,
                     !.running = DesiredVM(inst).running] \in VirtualMachine
      BY DEF TypeOK, VirtualMachine, Workspace, DesiredVM
    <3>2. vm' \in VirtualMachine
      BY <2>2, <3>1 DEF updateVirtualMachine, TypeOK
    <3>3. vm.uid \in Nat
      BY DEF TypeOK, VirtualMachine
    <3>4. CASE virtualMachineNeedsUpdate(inst) /\ vm.deleting
      BY <1>5, <2>2, <3>2, <3>4, FailType DEF reconcileVirtualMachine,
         updateVirtualMachine, TypeOK, object, counters, Steps
    <3>5. CASE ~(virtualMachineNeedsUpdate(inst) /\ vm.deleting)
      BY <1>5, <2>2, <3>2, <3>3, <3>5 DEF reconcileVirtualMachine,
         updateVirtualMachine, Goto, TypeOK, object, counters, Steps
    <3> QED BY <3>4, <3>5
  <2>3. CASE Fail("reconcileVM") /\ UNCHANGED vm
    BY <1>5, <2>3, FailType DEF reconcileVirtualMachine, TypeOK, object,
       counters, Steps
  <2> QED BY <1>5, <2>1, <2>2, <2>3 DEF reconcileVirtualMachine
<1>6. CASE observeGuest
  BY <1>6 DEF observeGuest, AfterReadiness, Goto, TypeOK, object, counters, Steps
<1>7. CASE epochRead
  BY <1>7, FailType DEF epochRead, Fail, Goto, TypeOK, object, counters, Steps
<1>8. CASE epochWrite
  <2>1. IdentityToRecord(fresh) \in Identity
    BY DEF IdentityToRecord, EpochToRecord, Identity, TypeOK, Workspace
  <2>2. [fresh EXCEPT !.mgmt = IdentityToRecord(fresh)] \in Workspace
    BY <2>1 DEF TypeOK, Workspace
  <2>3. AfterEpoch(derived') \in Steps
    BY DEF AfterEpoch, AfterReadiness, Steps
  <2>r. [derived EXCEPT !.ready = ~BootstrapOptIn]
            \in [ready : BOOLEAN, cond : {"none", "pod"}]
    BY DEF TypeOK
  <2>4. CASE fresh.mgmt = IdentityToRecord(fresh)
    <3>1. [inst EXCEPT !.mgmt = fresh.mgmt, !.rv = fresh.rv] \in Workspace
      BY DEF TypeOK, Workspace
    <3> QED
      BY <1>8, <2>3, <2>4, <2>r, <3>1 DEF epochWrite, Goto, TypeOK, object, counters
  <2>5. CASE fresh.mgmt # IdentityToRecord(fresh) /\ Accepted(fresh)
    <3>1. ws' \in Workspace /\ feed' \subseteq Workspace
      BY <1>8, <2>2, <2>5, PutStatusType DEF epochWrite
    <3>2. [inst EXCEPT !.mgmt = ws'.mgmt, !.rv = ws'.rv] \in Workspace
      BY <3>1 DEF TypeOK, Workspace
    <3> QED
      BY <1>8, <2>3, <2>5, <2>r, <3>1, <3>2 DEF epochWrite, Goto, TypeOK, counters
  <2>6. CASE fresh.mgmt # IdentityToRecord(fresh) /\ ~Accepted(fresh)
    BY <1>8, <2>6, FailType DEF epochWrite, TypeOK, object, counters, Steps
  <2> QED BY <2>4, <2>5, <2>6
<1>9. CASE bootstrapRead
  BY <1>9, FailType DEF bootstrapRead, AfterReadiness, Fail, Goto, TypeOK,
     object, counters, Steps
<1>10. CASE bootstrapCreate
  <2>1. BootstrapSecret(fresh) \in Secret
    BY <1>10 DEF bootstrapCreate, CreateAgrees, BootstrapSecret, Secret, TypeOK,
       Workspace, Identity
  <2> QED
    BY <1>10, <2>1 DEF bootstrapCreate, AfterReadiness, Goto, TypeOK, object,
       counters, Steps
<1>11. CASE statusWrite
  <2>1. StatusToWrite(cache) \in Workspace
    BY DEF StatusToWrite, TypeOK, Workspace, Conditions
  <2>2. CASE Accepted(cache)
    <3>1. ws' \in Workspace /\ feed' \subseteq Workspace
      BY <1>11, <2>1, <2>2, PutStatusType DEF statusWrite
    <3> QED
      BY <1>11, <2>2, <3>1 DEF statusWrite, Goto, TypeOK, counters, local, Steps
  <2>3. CASE ~Accepted(cache)
    BY <1>11, <2>3, EndPassType DEF statusWrite, TypeOK, counters, object
  <2> QED BY <2>2, <2>3
<1>12. CASE readyTime
  <2>1. [cache EXCEPT !.timed = TRUE] \in Workspace
    BY DEF TypeOK, Workspace
  <2>2. ws' \in Workspace /\ feed' \subseteq Workspace
    BY <1>12, <2>1, PutObjectType DEF readyTime, object, TypeOK
  <2> QED
    BY <1>12, <2>2, EndPassType DEF readyTime, TypeOK, counters
<1>13. CASE setNotReadyCondition
  <2>2. why \in {"none"} \cup Steps
    BY DEF TypeOK
  <2>3. [inst EXCEPT !.cond = why] \in Workspace
    BY <2>2 DEF TypeOK, Workspace, Conditions
  <2>4. ws' \in Workspace /\ feed' \subseteq Workspace
    BY <1>13, <2>3, PutStatusType DEF setNotReadyCondition, object, TypeOK
  <2> QED
    BY <1>13, <2>4, EndPassType DEF setNotReadyCondition, TypeOK, counters
<1> QED
  BY <1>1, <1>2, <1>3, <1>4, <1>5, <1>6, <1>7, <1>8, <1>9, <1>10, <1>11,
     <1>12, <1>13 DEF Pass

(* What users ask for leaves the identity of the Workspace alone: every    *)
(* request writes a version with the same UID and the same binding.        *)
LEMMA UserRequests ==
  ASSUME TypeOK,
         RequestEpoch \/ RequestReset \/ StopOrStart \/ DeleteWorkspace
  PROVE  \E o \in Workspace :
            UserWrites(o) /\ o.uid = ws.uid /\ o.mgmt = ws.mgmt
<1>1. ws \in Workspace
  BY DEF TypeOK
<1>2. CASE RequestEpoch
  <2>1. PICK e \in 0..MaxEpoch : UserWrites([ws EXCEPT !.epoch = e])
    BY <1>2 DEF RequestEpoch
  <2>2. [ws EXCEPT !.epoch = e] \in Workspace
    BY <1>1 DEF Workspace
  <2>3. /\ [ws EXCEPT !.epoch = e].uid = ws.uid
        /\ [ws EXCEPT !.epoch = e].mgmt = ws.mgmt
    BY <1>1 DEF Workspace
  <2> QED BY <2>1, <2>2, <2>3
<1>3. CASE RequestReset
  <2>1. UserWrites([ws EXCEPT !.reset = TRUE])
    BY <1>3 DEF RequestReset
  <2>2. [ws EXCEPT !.reset = TRUE] \in Workspace
    BY <1>1 DEF Workspace
  <2>3. /\ [ws EXCEPT !.reset = TRUE].uid = ws.uid
        /\ [ws EXCEPT !.reset = TRUE].mgmt = ws.mgmt
    BY <1>1 DEF Workspace
  <2> QED BY <2>1, <2>2, <2>3
<1>4. CASE StopOrStart
  <2>1. PICK b \in BOOLEAN : UserWrites([ws EXCEPT !.stopped = b])
    BY <1>4, Zenon DEF StopOrStart
  <2>2. [ws EXCEPT !.stopped = b] \in Workspace
    BY <1>1 DEF Workspace
  <2>3. /\ [ws EXCEPT !.stopped = b].uid = ws.uid
        /\ [ws EXCEPT !.stopped = b].mgmt = ws.mgmt
    BY <1>1 DEF Workspace
  <2> QED BY <2>1, <2>2, <2>3
<1>5. CASE DeleteWorkspace
  <2>1. PICK p \in {"terminating", "gone"} : UserWrites([ws EXCEPT !.phase = p])
    BY <1>5 DEF DeleteWorkspace
  <2>2. [ws EXCEPT !.phase = p] \in Workspace
    BY <1>1 DEF Workspace
  <2>3. /\ [ws EXCEPT !.phase = p].uid = ws.uid
        /\ [ws EXCEPT !.phase = p].mgmt = ws.mgmt
    BY <1>1 DEF Workspace
  <2> QED BY <2>1, <2>2, <2>3
<1> QED BY <1>2, <1>3, <1>4, <1>5

LEMMA UserType ==
  ASSUME TypeOK, User
  PROVE  TypeOK'
<1>1. ASSUME NEW o \in Workspace, UserWrites(o)
      PROVE  TypeOK'
  BY <1>1 DEF UserWrites, rest, local, TypeOK, Workspace
<1>2. CASE RequestEpoch \/ RequestReset \/ StopOrStart \/ DeleteWorkspace
  <2>1. PICK o \in Workspace :
           UserWrites(o) /\ o.uid = ws.uid /\ o.mgmt = ws.mgmt
    BY <1>2, UserRequests
  <2> QED BY <1>1, <2>1
<1>3. CASE CreateWorkspace
  <2>1. PICK e \in 0..MaxEpoch : UserWrites(NewWorkspace(ws.uid + 1, ws.rv, e))
    BY <1>3 DEF CreateWorkspace
  <2>2. ws.uid + 1 \in Nat /\ ws.rv \in Nat
    BY DEF TypeOK, Workspace
  <2>3. NewWorkspace(ws.uid + 1, ws.rv, e) \in Workspace
    BY <2>2, NewWorkspaceType
  <2> QED BY <1>1, <2>1, <2>3
<1>4. CASE RetireSecret
  BY <1>4 DEF RetireSecret, TypeOK, object, local
<1> QED
  BY <1>2, <1>3, <1>4 DEF User

LEMMA NextType ==
  ASSUME TypeOK, CreateAgrees, [Next]_vars
  PROVE  TypeOK'
<1>1. CASE Pass
  BY <1>1, PassType
<1>2. CASE ApiError
  <2>1. CASE EndPass
    BY <1>2, <2>1, EndPassType DEF ApiError, TypeOK, object
  <2>2. CASE pc \in Steps /\ Fail(pc)
    BY <1>2, <2>2, FailType DEF ApiError, TypeOK, object
  <2> QED BY <1>2, <2>1, <2>2 DEF ApiError
<1>3. CASE Crash
  BY <1>3, EndPassType DEF Crash, TypeOK, object
<1>4. CASE User
  BY <1>4, UserType
<1>5. CASE DeliverWorkspace
  BY <1>5 DEF DeliverWorkspace, TypeOK, local, counters
<1>6. CASE DeliverPod
  BY <1>6 DEF DeliverPod, TypeOK, object, local, counters
<1>7. CASE RemoveWorkspace
  <2>0. ws.rv + 1 \in Nat
    BY DEF TypeOK, Workspace
  <2>1. ASSUME NEW r \in Nat
        PROVE  [ws EXCEPT !.phase = "gone", !.rv = r] \in Workspace
    BY DEF TypeOK, Workspace
  <2>2. ws' \in Workspace /\ feed' = feed \cup {ws'}
    BY <1>7, <2>0, <2>1 DEF RemoveWorkspace
  <2> QED
    BY <1>7, <2>2 DEF RemoveWorkspace, rest, TypeOK, local
<1>8. CASE CollectGarbage
  BY <1>8 DEF CollectGarbage, TypeOK, object, local, counters, VirtualMachine
<1>9. CASE StartGuest \/ GuestRuns \/ StopGuest
  <2>1. guest' \in {"none", "starting", "running"}
    BY <1>9 DEF StartGuest, GuestRuns, StopGuest
  <2>2. UNCHANGED <<object, cache, vm, podSeen, secrets, counters, pc, local>>
    BY <1>9 DEF StartGuest, GuestRuns, StopGuest
  <2> QED
    BY <2>1, <2>2 DEF TypeOK, object, local, counters
<1>c. CASE CrashGuest
  BY <1>c DEF CrashGuest, TypeOK, object, local
<1>10. CASE RemoveVM
  BY <1>10 DEF RemoveVM, TypeOK, object, local, counters, VirtualMachine
<1>11. CASE UNCHANGED vars
  BY <1>11 DEF vars, TypeOK
<1> QED
  BY <1>1, <1>2, <1>3, <1>4, <1>5, <1>6, <1>7, <1>8, <1>9, <1>10, <1>11,
     <1>c DEF Next

-----------------------------------------------------------------------------
(* The identity invariant.  First what a write does to the versions, then  *)
(* what the ends of a pass do to what it held, then one case per action.   *)

Written ==
    \/ ws' = ws /\ feed' = feed
    \/ ws'.rv = ws.rv + 1 /\ feed' = feed \cup {ws'}

IdentityKept == ws'.uid = ws.uid /\ ws'.mgmt = ws.mgmt

LEMMA StoreWrites ==
  ASSUME TypeOK, NEW o \in Workspace, Store(o)
  PROVE  Written /\ ws'.uid = o.uid /\ ws'.mgmt = o.mgmt /\ ws'.epoch = o.epoch
BY DEF Store, Written, object, TypeOK, Workspace

LEMMA PutObjectWrites ==
  ASSUME TypeOK, NEW o \in Workspace, PutObject(o)
  PROVE  Written /\ ws'.uid = o.uid /\ ws'.mgmt = ws.mgmt
<1> DEFINE n == [o EXCEPT !.phase = ws.phase, !.mgmt = ws.mgmt,
                          !.ready = ws.ready, !.cond = ws.cond]
<1>1. n \in Workspace /\ n.uid = o.uid /\ n.mgmt = ws.mgmt
  BY DEF TypeOK, Workspace
<1>2. Store(n)
  BY DEF PutObject
<1> QED
  BY <1>1, <1>2, StoreWrites

LEMMA PutStatusWrites ==
  ASSUME TypeOK, NEW o \in Workspace, PutStatus(o)
  PROVE  Written /\ ws'.uid = ws.uid /\ ws'.mgmt = o.mgmt /\ ws'.epoch = ws.epoch
<1> DEFINE n == [ws EXCEPT !.mgmt = o.mgmt, !.ready = o.ready, !.cond = o.cond]
<1>1. n \in Workspace /\ n.uid = ws.uid /\ n.mgmt = o.mgmt /\ n.epoch = ws.epoch
  BY DEF TypeOK, Workspace
<1>2. Store(n)
  BY DEF PutStatus
<1> QED
  BY <1>1, <1>2, StoreWrites

LEMMA WrittenVersions ==
  ASSUME TypeOK, TypeOK', VersionsAgree, Written, cache' = cache
  PROVE  VersionsAgree'
BY DEF TypeOK, Workspace, VersionsAgree, SameVersion, Written

LEMMA EndPassAgrees ==
  ASSUME TypeOK', EndPass, ws'.rv > 0
  PROVE  PassAgrees' /\ CreateAgrees'
BY DEF EndPass, PassAgrees, CreateAgrees, Blank, NewWorkspace, TypeOK,
   Workspace, VirtualMachine

LEMMA FailAgrees ==
  ASSUME TypeOK, PassAgrees, NEW step, Fail(step), ws' = ws, vm' = vm
  PROVE  PassAgrees' /\ CreateAgrees'
BY DEF Fail, PassAgrees, CreateAgrees, TypeOK

LEMMA SecretsKept ==
  ASSUME SecretsAreKnown, SecretsWithinEpoch, IdentityKept,
         secrets' \subseteq secrets
  PROVE  SecretsAreKnown' /\ SecretsWithinEpoch'
BY DEF SecretsAreKnown, SecretsWithinEpoch, IdentityKept

LEMMA BindingKept ==
  ASSUME BoundVMExisted, BoundVMIsOwn, IdentityKept,
         vm'.uid = vm.uid, vm'.owner = vm.owner
  PROVE  BoundVMExisted' /\ BoundVMIsOwn'
BY DEF BoundVMExisted, BoundVMIsOwn, IdentityKept

LEMMA InitIdentity == Init => IdentityInvariant
BY DEF Init, IdentityInvariant, VersionsAgree, SameVersion, PassAgrees,
   CreateAgrees, SecretsAreKnown, BoundVMExisted, SecretsWithinEpoch,
   BoundVMIsOwn, Blank, NewWorkspace

(* A write of the pass that ends it and leaves the identity alone.         *)
LEMMA ClosingWrite ==
  ASSUME TypeOK, TypeOK', IdentityInvariant, Written, IdentityKept, EndPass,
         UNCHANGED <<cache, vm, secrets>>
  PROVE  IdentityInvariant'
<1>1. VersionsAgree'
  BY WrittenVersions DEF IdentityInvariant
<1>2. PassAgrees' /\ CreateAgrees'
  BY <1>1, EndPassAgrees DEF VersionsAgree
<1> QED
  BY <1>1, <1>2, SecretsKept, BindingKept DEF IdentityInvariant

(* A failing call leaves the cluster alone.                                *)
LEMMA FailingCall ==
  ASSUME TypeOK, TypeOK', IdentityInvariant, NEW step, Fail(step),
         UNCHANGED <<ws, feed, cache, vm, secrets>>
  PROVE  IdentityInvariant'
<1>1. VersionsAgree'
  BY WrittenVersions DEF IdentityInvariant, Written
<1>2. PassAgrees' /\ CreateAgrees'
  BY FailAgrees DEF IdentityInvariant
<1> QED
  BY <1>1, <1>2, SecretsKept, BindingKept DEF IdentityInvariant, IdentityKept

(* A step elsewhere: nothing of the pass, and no identity, changes.        *)
LEMMA StepElsewhere ==
  ASSUME TypeOK, TypeOK', IdentityInvariant, Written, IdentityKept,
         vm'.uid = vm.uid, vm'.owner = vm.owner, secrets' \subseteq secrets,
         UNCHANGED <<cache, pc, inst, fresh, seenVM>>
  PROVE  IdentityInvariant'
<1>1. VersionsAgree'
  BY WrittenVersions DEF IdentityInvariant
<1>2. PassAgrees'
  BY DEF IdentityInvariant, PassAgrees, SameVersion, Written, IdentityKept,
     TypeOK, Workspace
<1>3. CreateAgrees'
  BY DEF IdentityInvariant, CreateAgrees, IdentityKept
<1> QED
  BY <1>1, <1>2, <1>3, SecretsKept, BindingKept DEF IdentityInvariant

LEMMA PassIdentity ==
  ASSUME TypeOK, TypeOK', IdentityInvariant, Pass
  PROVE  IdentityInvariant'
<1>1. CASE Reconcile
  <2>1. UNCHANGED <<ws, feed, cache, vm, secrets, seenVM>>
    BY <1>1 DEF Reconcile, object
  <2>2. VersionsAgree'
    BY <2>1, WrittenVersions DEF IdentityInvariant, Written
  <2>3. PassAgrees' /\ CreateAgrees'
    BY <1>1, <2>1 DEF Reconcile, Goto, IdentityInvariant, VersionsAgree,
       SameVersion, PassAgrees, CreateAgrees
  <2> QED
    BY <2>1, <2>2, <2>3, SecretsKept, BindingKept DEF IdentityInvariant, IdentityKept
<1>2. CASE handleReset
  <2>1. vm'.uid = vm.uid /\ vm'.owner = vm.owner
    BY <1>2 DEF handleReset, TypeOK, VirtualMachine
  <2>2. UNCHANGED <<ws, feed, cache, secrets>>
    BY <1>2 DEF handleReset, object
  <2>3. VersionsAgree'
    BY <2>2, WrittenVersions DEF IdentityInvariant, Written
  <2>4. PassAgrees' /\ CreateAgrees'
    <3>1. CASE EndPass
      BY <2>3, <3>1, EndPassAgrees DEF VersionsAgree
    <3>2. CASE pc' = "clearReset" /\ UNCHANGED local
      BY <2>1, <2>2, <3>2 DEF local, IdentityInvariant, PassAgrees, CreateAgrees
    <3> QED BY <1>2, <3>1, <3>2 DEF handleReset, Goto
  <2> QED
    BY <2>1, <2>2, <2>3, <2>4, SecretsKept, BindingKept
       DEF IdentityInvariant, IdentityKept
<1>3. CASE clearReset
  <2>1. ResetConsumed(inst) \in Workspace /\ ResetConsumed(inst).uid = inst.uid
    BY DEF ResetConsumed, TypeOK, Workspace
  <2>2. Accepted(inst) => inst.uid = ws.uid
    BY DEF Accepted, IdentityInvariant, PassAgrees
  <2>3. Written /\ IdentityKept
    BY <1>3, <2>1, <2>2, PutObjectWrites
       DEF clearReset, object, Written, IdentityKept
  <2> QED
    BY <1>3, <2>3, ClosingWrite DEF clearReset
<1>4. CASE ensureLinuxAgentGeneration
  <2>1. UNCHANGED <<cache, vm, secrets>>
    BY <1>4 DEF ensureLinuxAgentGeneration
  <2>2. CASE inst.gen # 0
    <3>1. UNCHANGED <<ws, feed, inst, fresh, seenVM>> /\ pc' = "reconcileVM"
      BY <1>4, <2>2 DEF ensureLinuxAgentGeneration, Goto, object, local
    <3>2. VersionsAgree'
      BY <2>1, <3>1, WrittenVersions DEF IdentityInvariant, Written
    <3>3. PassAgrees' /\ CreateAgrees'
      BY <2>1, <3>1 DEF IdentityInvariant, PassAgrees, CreateAgrees
    <3> QED
      BY <2>1, <3>1, <3>2, <3>3, SecretsKept, BindingKept
         DEF IdentityInvariant, IdentityKept
  <2>3. CASE inst.gen = 0 /\ Accepted(inst)
    <3> DEFINE o == [inst EXCEPT !.gen = lastGen + 1]
    <3>1. o \in Workspace /\ o.uid = inst.uid /\ inst.uid = ws.uid
      BY <2>3 DEF TypeOK, Workspace, Accepted, IdentityInvariant, PassAgrees
    <3>2. PutObject(o) /\ inst' = ws' /\ pc' = "reconcileVM" /\ seenVM' = seenVM
      BY <1>4, <2>3 DEF ensureLinuxAgentGeneration, Goto
    <3> HIDE DEF o
    <3>3. Written /\ IdentityKept
      BY <3>1, <3>2, PutObjectWrites DEF IdentityKept
    <3>4. VersionsAgree'
      BY <2>1, <3>3, WrittenVersions DEF IdentityInvariant
    <3>5. PassAgrees' /\ CreateAgrees'
      BY <2>1, <3>2 DEF IdentityInvariant, PassAgrees, CreateAgrees, TypeOK, Workspace
    <3> QED
      BY <2>1, <3>3, <3>4, <3>5, SecretsKept, BindingKept DEF IdentityInvariant
  <2>4. CASE inst.gen = 0 /\ ~Accepted(inst)
    BY <1>4, <2>1, <2>4, FailingCall DEF ensureLinuxAgentGeneration, object
  <2> QED BY <2>2, <2>3, <2>4
<1>5. CASE reconcileVirtualMachine
  <2>1. UNCHANGED <<ws, feed, cache, secrets>>
    BY <1>5 DEF reconcileVirtualMachine, object
  <2>2. VersionsAgree'
    BY <2>1, WrittenVersions DEF IdentityInvariant, Written
  <2>3. SecretsAreKnown' /\ SecretsWithinEpoch'
    BY <2>1, SecretsKept DEF IdentityInvariant, IdentityKept
  <2>4. CASE createVirtualMachine
    <3>1. /\ vm'.uid = vm.uid + 1 /\ seenVM' = vm.uid + 1
          /\ inst' = inst /\ fresh' = fresh /\ pc' = "observeGuest"
      BY <2>4 DEF createVirtualMachine, Goto
    <3>2. PassAgrees' /\ CreateAgrees'
      BY <2>1, <3>1 DEF IdentityInvariant, PassAgrees, CreateAgrees, TypeOK,
         VirtualMachine
    <3>3. BoundVMExisted' /\ BoundVMIsOwn'
      BY <2>1, <3>1 DEF IdentityInvariant, BoundVMExisted, BoundVMIsOwn,
         TypeOK, VirtualMachine, Workspace, Identity
    <3> QED
      BY <2>2, <2>3, <3>2, <3>3 DEF IdentityInvariant
  <2>5. CASE updateVirtualMachine
    <3>1. vm'.uid = vm.uid /\ vm'.owner = vm.owner
      BY <2>5 DEF updateVirtualMachine, TypeOK, VirtualMachine
    <3>2. CASE virtualMachineNeedsUpdate(inst) /\ vm.deleting
      BY <2>1, <2>5, <3>2, FailingCall DEF updateVirtualMachine
    <3>3. CASE ~(virtualMachineNeedsUpdate(inst) /\ vm.deleting)
      <4>1. /\ seenVM' = vm.uid /\ inst' = inst /\ fresh' = fresh
            /\ pc' = "observeGuest"
        BY <2>5, <3>3 DEF updateVirtualMachine, Goto
      <4>2. PassAgrees' /\ CreateAgrees'
        BY <2>1, <3>1, <4>1 DEF IdentityInvariant, PassAgrees, CreateAgrees,
           TypeOK, VirtualMachine
      <4> QED
        BY <2>1, <2>2, <2>3, <3>1, <4>2, BindingKept
           DEF IdentityInvariant, IdentityKept
    <3> QED BY <3>2, <3>3
  <2>6. CASE Fail("reconcileVM") /\ UNCHANGED vm
    BY <2>1, <2>6, FailingCall
  <2> QED BY <1>5, <2>4, <2>5, <2>6 DEF reconcileVirtualMachine
<1>6. CASE observeGuest
  <2>1. UNCHANGED <<ws, feed, cache, vm, secrets, inst, fresh, seenVM>>
    BY <1>6 DEF observeGuest, object
  <2>2. VersionsAgree'
    BY <2>1, WrittenVersions DEF IdentityInvariant, Written
  <2>3. PassAgrees' /\ CreateAgrees'
    BY <1>6, <2>1 DEF observeGuest, AfterReadiness, Goto, IdentityInvariant,
       PassAgrees, CreateAgrees
  <2> QED
    BY <2>1, <2>2, <2>3, SecretsKept, BindingKept DEF IdentityInvariant, IdentityKept
<1>7. CASE epochRead
  <2>1. UNCHANGED <<ws, feed, cache, vm, secrets>>
    BY <1>7 DEF epochRead, object
  <2>2. CASE Fail("epochRead")
    BY <2>1, <2>2, FailingCall
  <2>3. CASE ~Fail("epochRead")
    <3>1. /\ fresh' = ws /\ pc' = "epochWrite" /\ inst' = inst /\ seenVM' = seenVM
          /\ ws.uid = inst.uid /\ vm.owner = ws.uid
      BY <1>7, <2>3 DEF epochRead, managementVMCurrent, Goto
    <3>2. VersionsAgree'
      BY <2>1, WrittenVersions DEF IdentityInvariant, Written
    <3>3. PassAgrees' /\ CreateAgrees'
      BY <2>1, <3>1 DEF IdentityInvariant, PassAgrees, CreateAgrees, SameVersion,
         TypeOK, Workspace
    <3> QED
      BY <2>1, <3>2, <3>3, SecretsKept, BindingKept DEF IdentityInvariant, IdentityKept
  <2> QED BY <2>2, <2>3
<1>8. CASE epochWrite
  <2>1. UNCHANGED <<cache, vm, secrets>> /\ pc = "epochWrite"
    BY <1>8 DEF epochWrite
  <2>2. AfterEpoch(derived') \in {"bootstrapRead", "statusWrite", "readyTime"}
    BY DEF AfterEpoch, AfterReadiness
  <2>3. /\ SameVersion(fresh) /\ fresh.uid = inst.uid
        /\ vm.uid = seenVM => vm.owner = fresh.uid
    BY <2>1 DEF IdentityInvariant, PassAgrees
  <2>4. CASE fresh.mgmt = IdentityToRecord(fresh)
    <3>1. /\ inst' = [inst EXCEPT !.mgmt = fresh.mgmt, !.rv = fresh.rv]
          /\ pc' \in {"bootstrapRead", "statusWrite", "readyTime"}
          /\ UNCHANGED <<ws, feed, fresh, seenVM>>
      BY <1>8, <2>2, <2>4 DEF epochWrite, Goto, object
    <3>2. VersionsAgree'
      BY <2>1, <3>1, WrittenVersions DEF IdentityInvariant, Written
    <3>3. inst'.mgmt = fresh.mgmt /\ inst'.rv = fresh.rv /\ inst'.uid = inst.uid
      BY <3>1 DEF TypeOK, Workspace
    <3>4. PassAgrees' /\ CreateAgrees'
      BY <2>1, <2>3, <3>1, <3>3 DEF IdentityInvariant, PassAgrees, CreateAgrees,
         SameVersion
    <3> QED
      BY <2>1, <3>1, <3>2, <3>4, SecretsKept, BindingKept
         DEF IdentityInvariant, IdentityKept
  <2>5. CASE fresh.mgmt # IdentityToRecord(fresh) /\ Accepted(fresh)
    <3> DEFINE o == [fresh EXCEPT !.mgmt = IdentityToRecord(fresh)]
    <3>1. fresh = ws
      BY <2>3, <2>5 DEF Accepted, SameVersion
    <3>2. IdentityToRecord(fresh) \in Identity
      BY DEF IdentityToRecord, EpochToRecord, Identity, TypeOK, Workspace
    <3>3. o \in Workspace /\ o.mgmt = IdentityToRecord(fresh)
      BY <3>2 DEF TypeOK, Workspace
    <3>4. /\ PutStatus(o)
          /\ inst' = [inst EXCEPT !.mgmt = ws'.mgmt, !.rv = ws'.rv]
          /\ pc' \in {"bootstrapRead", "statusWrite", "readyTime"}
          /\ seenVM' = seenVM
      BY <1>8, <2>2, <2>5 DEF epochWrite, Goto
    <3> HIDE DEF o
    <3>5. Written /\ ws'.uid = ws.uid /\ ws'.mgmt = IdentityToRecord(ws)
      BY <3>1, <3>3, <3>4, PutStatusWrites
    <3>6. VersionsAgree'
      BY <2>1, <3>5, WrittenVersions DEF IdentityInvariant
    <3>7. inst'.mgmt = ws'.mgmt /\ inst'.rv = ws'.rv /\ inst'.uid = inst.uid
      BY <3>4 DEF TypeOK, Workspace
    <3>8. PassAgrees' /\ CreateAgrees'
      BY <2>1, <2>3, <3>1, <3>4, <3>5, <3>7 DEF IdentityInvariant, PassAgrees,
         CreateAgrees, TypeOK, Workspace
    <3>9. /\ ws'.mgmt # NoIdentity
          /\ ws'.mgmt.vm = seenVM
          /\ ws'.mgmt.epoch = EpochToRecord(ws)
      BY <3>1, <3>2, <3>5 DEF IdentityToRecord
    <3>10. SecretsAreKnown' /\ SecretsWithinEpoch'
      <4>1. SecretsAreKnown'
        BY <2>1, <3>5 DEF IdentityInvariant, SecretsAreKnown
      <4>2. ws.mgmt # NoIdentity => ws.mgmt.epoch \in Nat
        BY DEF TypeOK, Workspace, Identity
      <4>3. ws.epoch \in Nat /\ \A s \in secrets : s.epoch \in Nat
        BY DEF TypeOK, Workspace, Secret
      <4>4. ws.mgmt # NoIdentity => ws.mgmt.epoch <= EpochToRecord(ws)
        BY <4>2, <4>3 DEF EpochToRecord
      <4>5. EpochToRecord(ws) \in Nat
        BY <4>2, <4>3 DEF EpochToRecord
      <4>6. ASSUME NEW s \in secrets, s.ws = ws.uid
            PROVE  s.epoch <= EpochToRecord(ws)
        <5>1. ws.mgmt # NoIdentity /\ s.epoch <= ws.mgmt.epoch
          BY <4>6 DEF IdentityInvariant, SecretsWithinEpoch
        <5> QED
          BY <4>2, <4>3, <4>4, <4>5, <5>1
      <4>7. SecretsWithinEpoch'
        BY <2>1, <3>5, <3>9, <4>6 DEF SecretsWithinEpoch
      <4> QED BY <4>1, <4>7
    <3>11. BoundVMExisted' /\ BoundVMIsOwn'
      BY <2>1, <2>3, <3>1, <3>5, <3>9 DEF IdentityInvariant, PassAgrees,
         BoundVMExisted, BoundVMIsOwn
    <3> QED
      BY <3>6, <3>8, <3>10, <3>11 DEF IdentityInvariant
  <2>6. CASE fresh.mgmt # IdentityToRecord(fresh) /\ ~Accepted(fresh)
    BY <1>8, <2>1, <2>6, FailingCall DEF epochWrite, object
  <2> QED BY <2>4, <2>5, <2>6
<1>9. CASE bootstrapRead
  <2>1. UNCHANGED <<ws, feed, cache, vm, secrets>>
    BY <1>9 DEF bootstrapRead, object
  <2>2. VersionsAgree'
    BY <2>1, WrittenVersions DEF IdentityInvariant, Written
  <2>3. CASE ~BootstrapAllowed(ws)
    BY <1>9, <2>1, <2>3, FailingCall DEF bootstrapRead
  <2>4. CASE BootstrapAllowed(ws) /\ BootstrapSecret(ws) \in secrets
    <3>1. UNCHANGED <<inst, fresh, seenVM>> /\ pc' \in {"statusWrite", "readyTime"}
      BY <1>9, <2>4 DEF bootstrapRead, AfterReadiness, Goto
    <3>2. PassAgrees' /\ CreateAgrees'
      BY <2>1, <3>1 DEF IdentityInvariant, PassAgrees, CreateAgrees
    <3> QED
      BY <2>1, <2>2, <3>2, SecretsKept, BindingKept DEF IdentityInvariant, IdentityKept
  <2>5. CASE BootstrapAllowed(ws) /\ BootstrapSecret(ws) \notin secrets
    <3>1. /\ UNCHANGED <<inst, seenVM>> /\ fresh' = ws /\ pc' = "bootstrapCreate"
          /\ ws.mgmt # NoIdentity /\ ws.mgmt.vm = seenVM
      BY <1>9, <2>5 DEF bootstrapRead, BootstrapAllowed, managementVMCurrent, Goto
    <3>2. PassAgrees' /\ CreateAgrees'
      BY <2>1, <3>1 DEF IdentityInvariant, PassAgrees, CreateAgrees, TypeOK, Workspace
    <3> QED
      BY <2>1, <2>2, <3>2, SecretsKept, BindingKept DEF IdentityInvariant, IdentityKept
  <2> QED BY <2>3, <2>4, <2>5
<1>10. CASE bootstrapCreate
  <2>1. /\ UNCHANGED <<ws, feed, cache, vm, inst, fresh, seenVM>>
        /\ pc = "bootstrapCreate" /\ pc' \in {"statusWrite", "readyTime"}
        /\ secrets' = secrets \cup {BootstrapSecret(fresh)}
    BY <1>10 DEF bootstrapCreate, AfterReadiness, Goto, object
  <2>2. VersionsAgree'
    BY <2>1, WrittenVersions DEF IdentityInvariant, Written
  <2>3. PassAgrees' /\ CreateAgrees'
    BY <2>1 DEF IdentityInvariant, PassAgrees, CreateAgrees
  <2>4. /\ BootstrapSecret(fresh).ws = fresh.uid
        /\ BootstrapSecret(fresh).epoch = fresh.mgmt.epoch
    BY DEF BootstrapSecret
  <2>5. /\ fresh.uid <= ws.uid
        /\ fresh.mgmt # NoIdentity
        /\ fresh.mgmt.epoch \in Nat
        /\ fresh.uid = ws.uid => fresh.mgmt = ws.mgmt
    BY <2>1 DEF IdentityInvariant, CreateAgrees, TypeOK, Workspace, Identity
  <2>6. SecretsAreKnown'
    BY <2>1, <2>4, <2>5 DEF IdentityInvariant, SecretsAreKnown
  <2>7. SecretsWithinEpoch'
    BY <2>1, <2>4, <2>5 DEF IdentityInvariant, SecretsWithinEpoch
  <2> QED
    BY <2>1, <2>2, <2>3, <2>6, <2>7, BindingKept DEF IdentityInvariant, IdentityKept
<1>11. CASE statusWrite
  <2>1. UNCHANGED <<cache, vm, secrets>>
    BY <1>11 DEF statusWrite
  <2>2. CASE Accepted(cache)
    <3>1. cache = ws
      BY <2>2 DEF Accepted, IdentityInvariant, VersionsAgree, SameVersion
    <3>2. StatusToWrite(cache) \in Workspace /\ StatusToWrite(cache).mgmt = ws.mgmt
      BY <3>1 DEF StatusToWrite, TypeOK, Workspace, Conditions
    <3>3. /\ PutStatus(StatusToWrite(cache)) /\ pc' = "readyTime"
          /\ UNCHANGED <<inst, fresh, seenVM>>
      BY <1>11, <2>2 DEF statusWrite, Goto, local
    <3>4. Written /\ IdentityKept
      BY <3>2, <3>3, PutStatusWrites DEF IdentityKept
    <3>5. VersionsAgree'
      BY <2>1, <3>4, WrittenVersions DEF IdentityInvariant
    <3>6. PassAgrees' /\ CreateAgrees'
      BY <2>1, <3>3, <3>4 DEF IdentityInvariant, PassAgrees, CreateAgrees,
         Written, IdentityKept, TypeOK, Workspace
    <3> QED
      BY <2>1, <3>4, <3>5, <3>6, SecretsKept, BindingKept DEF IdentityInvariant
  <2>3. CASE ~Accepted(cache)
    <3>1. EndPass /\ UNCHANGED <<ws, feed>>
      BY <1>11, <2>3 DEF statusWrite, object
    <3> QED
      BY <2>1, <3>1, ClosingWrite DEF Written, IdentityKept
  <2> QED BY <2>2, <2>3
<1>12. CASE readyTime
  <2> DEFINE o == [cache EXCEPT !.timed = TRUE]
  <2>1. o \in Workspace /\ o.uid = cache.uid
    BY DEF TypeOK, Workspace
  <2>2. Accepted(cache) => cache.uid = ws.uid
    BY DEF Accepted, IdentityInvariant, VersionsAgree, SameVersion
  <2>3. \/ Accepted(cache) /\ PutObject(o)
        \/ UNCHANGED object
    BY <1>12 DEF readyTime
  <2> HIDE DEF o
  <2>4. Written /\ IdentityKept
    BY <2>1, <2>2, <2>3, PutObjectWrites DEF object, Written, IdentityKept
  <2> QED
    BY <1>12, <2>4, ClosingWrite DEF readyTime
<1>13. CASE setNotReadyCondition
  <2> DEFINE o == [inst EXCEPT !.cond = why]
  <2>1. o \in Workspace /\ o.mgmt = inst.mgmt
    <3>1. why \in Conditions
      BY DEF TypeOK, Conditions
    <3> QED BY <3>1 DEF TypeOK, Workspace
  <2>2. Accepted(inst) => inst.mgmt = ws.mgmt
    BY DEF Accepted, IdentityInvariant, PassAgrees
  <2>3. \/ Accepted(inst) /\ PutStatus(o)
        \/ UNCHANGED object
    BY <1>13 DEF setNotReadyCondition
  <2> HIDE DEF o
  <2>4. Written /\ IdentityKept
    BY <2>1, <2>2, <2>3, PutStatusWrites DEF object, Written, IdentityKept
  <2> QED
    BY <1>13, <2>4, ClosingWrite DEF setNotReadyCondition
<1> QED
  BY <1>1, <1>2, <1>3, <1>4, <1>5, <1>6, <1>7, <1>8, <1>9, <1>10, <1>11,
     <1>12, <1>13 DEF Pass

LEMMA UserIdentity ==
  ASSUME TypeOK, TypeOK', IdentityInvariant, User
  PROVE  IdentityInvariant'
<1>1. ASSUME NEW o \in Workspace, UserWrites(o), o.uid = ws.uid, o.mgmt = ws.mgmt
      PROVE  IdentityInvariant'
  <2>1. Written /\ IdentityKept
    BY <1>1 DEF UserWrites, Written, IdentityKept, TypeOK, Workspace
  <2>2. UNCHANGED <<cache, vm, secrets, pc, inst, fresh, seenVM>>
    BY <1>1 DEF UserWrites, rest, local
  <2> QED
    BY <2>1, <2>2, StepElsewhere
<1>2. CASE RequestEpoch \/ RequestReset \/ StopOrStart \/ DeleteWorkspace
  <2>1. PICK o \in Workspace :
           UserWrites(o) /\ o.uid = ws.uid /\ o.mgmt = ws.mgmt
    BY <1>2, UserRequests
  <2> QED BY <1>1, <2>1
<1>3. CASE CreateWorkspace
  <2>1. PICK e \in 0..MaxEpoch : UserWrites(NewWorkspace(ws.uid + 1, ws.rv, e))
    BY <1>3 DEF CreateWorkspace
  <2>2. /\ ws' = [NewWorkspace(ws.uid + 1, ws.rv, e) EXCEPT !.rv = ws.rv + 1]
        /\ feed' = feed \cup {ws'}
        /\ UNCHANGED <<cache, vm, secrets, pc, inst, fresh, seenVM>>
    BY <2>1 DEF UserWrites, rest, local
  <2>3. ws'.uid = ws.uid + 1 /\ ws'.rv = ws.rv + 1 /\ ws'.mgmt = NoIdentity
    BY <2>2 DEF NewWorkspace
  <2>4. VersionsAgree'
    BY <2>2, <2>3, WrittenVersions DEF IdentityInvariant, Written
  <2>5. PassAgrees' /\ CreateAgrees'
    BY <2>2, <2>3 DEF IdentityInvariant, PassAgrees, CreateAgrees, SameVersion,
       TypeOK, Workspace
  <2>6. SecretsAreKnown' /\ SecretsWithinEpoch'
    BY <2>2, <2>3 DEF IdentityInvariant, SecretsAreKnown, SecretsWithinEpoch,
       TypeOK, Workspace, Secret
  <2>7. BoundVMExisted' /\ BoundVMIsOwn'
    BY <2>3 DEF BoundVMExisted, BoundVMIsOwn
  <2> QED
    BY <2>4, <2>5, <2>6, <2>7 DEF IdentityInvariant
<1>4. CASE RetireSecret
  <2>1. /\ UNCHANGED <<ws, feed, cache, vm, pc, inst, fresh, seenVM>>
        /\ secrets' \subseteq secrets
    BY <1>4 DEF RetireSecret, object, local
  <2> QED
    BY <2>1, StepElsewhere DEF Written, IdentityKept
<1> QED
  BY <1>2, <1>3, <1>4 DEF User

LEMMA NextIdentity ==
  ASSUME TypeOK, TypeOK', IdentityInvariant, [Next]_vars
  PROVE  IdentityInvariant'
<1>1. CASE Pass
  BY <1>1, PassIdentity
<1>2. CASE ApiError
  <2>1. UNCHANGED <<ws, feed, cache, vm, secrets>>
    BY <1>2 DEF ApiError, object
  <2>2. CASE EndPass
    BY <2>1, <2>2, ClosingWrite DEF Written, IdentityKept
  <2>3. CASE Fail(pc)
    BY <2>1, <2>3, FailingCall
  <2> QED BY <1>2, <2>2, <2>3 DEF ApiError
<1>3. CASE Crash
  <2>1. UNCHANGED <<ws, feed, cache, vm, secrets>> /\ EndPass
    BY <1>3 DEF Crash, object
  <2> QED
    BY <2>1, ClosingWrite DEF Written, IdentityKept
<1>4. CASE User
  BY <1>4, UserIdentity
<1>5. CASE DeliverWorkspace
  <2>1. UNCHANGED <<ws, vm, secrets, pc, inst, fresh, seenVM>>
    BY <1>5 DEF DeliverWorkspace, local
  <2>2. cache' \in feed /\ feed' \subseteq feed
    BY <1>5 DEF DeliverWorkspace
  <2>3. VersionsAgree'
    BY <2>1, <2>2 DEF IdentityInvariant, VersionsAgree, SameVersion
  <2>4. PassAgrees' /\ CreateAgrees'
    BY <2>1 DEF IdentityInvariant, PassAgrees, CreateAgrees, SameVersion
  <2> QED
    BY <2>1, <2>3, <2>4, SecretsKept, BindingKept DEF IdentityInvariant, IdentityKept
<1>6. CASE RemoveWorkspace
  <2>1. UNCHANGED <<cache, vm, secrets, pc, inst, fresh, seenVM>>
    BY <1>6 DEF RemoveWorkspace, rest, local
  <2>2. /\ ws' = [ws EXCEPT !.phase = "gone", !.rv = ws.rv + 1]
        /\ feed' = feed \cup {ws'}
    BY <1>6 DEF RemoveWorkspace
  <2>3. Written /\ IdentityKept
    BY <2>2 DEF Written, IdentityKept, TypeOK, Workspace
  <2> QED
    BY <2>1, <2>3, StepElsewhere
<1>7. CASE CollectGarbage \/ RemoveVM
  <2>1. vm'.uid = vm.uid /\ vm'.owner = vm.owner
    BY <1>7 DEF CollectGarbage, RemoveVM, TypeOK, VirtualMachine
  <2>2. UNCHANGED <<ws, feed, cache, secrets, pc, inst, fresh, seenVM>>
    BY <1>7 DEF CollectGarbage, RemoveVM, object, local
  <2> QED
    BY <2>1, <2>2, StepElsewhere DEF Written, IdentityKept
<1>8. CASE DeliverPod \/ StartGuest \/ GuestRuns \/ StopGuest \/ CrashGuest
  <2>1. UNCHANGED <<ws, feed, cache, vm, secrets, pc, inst, fresh, seenVM>>
    BY <1>8 DEF DeliverPod, StartGuest, GuestRuns, StopGuest, CrashGuest,
       object, local
  <2> QED
    BY <2>1, StepElsewhere DEF Written, IdentityKept
<1>9. CASE UNCHANGED vars
  BY <1>9, StepElsewhere DEF vars, Written, IdentityKept
<1> QED
  BY <1>1, <1>2, <1>3, <1>4, <1>5, <1>6, <1>7, <1>8, <1>9 DEF Next

(* The type invariant needs the identity invariant: bootstrapCreate reads  *)
(* the epoch of an identity that could be absent, so both are proved by    *)
(* one induction.  Every reachable state is typed, and versions, pass,     *)
(* Secrets and binding agree in it.                                        *)
THEOREM IdentityHolds == Spec => [](TypeOK /\ IdentityInvariant)
<1>1. Init => TypeOK /\ IdentityInvariant
  BY InitType, InitIdentity
<1>2. TypeOK /\ IdentityInvariant /\ [Next]_vars => (TypeOK /\ IdentityInvariant)'
  <2> SUFFICES ASSUME TypeOK, IdentityInvariant, [Next]_vars
               PROVE  TypeOK' /\ IdentityInvariant'
    OBVIOUS
  <2>1. TypeOK'
    BY NextType DEF IdentityInvariant
  <2> QED
    BY <2>1, NextIdentity
<1> QED
  BY <1>1, <1>2, PTL DEF Spec

(* Every variable of the reconciler's model keeps its type.                *)
THEOREM TypeCorrect == Spec => []TypeOK
BY IdentityHolds, PTL

(* No management Secret of a Workspace is ahead of the epoch acknowledged  *)
(* in its status, whatever the number of edits, re-creations and faults.   *)
THEOREM NoSecretAhead == Spec => []SecretsWithinEpoch
<1>1. TypeOK /\ IdentityInvariant => SecretsWithinEpoch
  BY DEF IdentityInvariant
<1> QED
  BY <1>1, IdentityHolds, PTL

(* The VM bound in status belongs to the Workspace object that names it    *)
(* (managementVMCurrent compares owner and UID).                           *)
THEOREM BindingIsOwn == Spec => []BoundVMIsOwn
<1>1. TypeOK /\ IdentityInvariant => BoundVMIsOwn
  BY DEF IdentityInvariant
<1> QED
  BY <1>1, IdentityHolds, PTL

-----------------------------------------------------------------------------
(* Every step is a step of the abstract register.  All but four actions    *)
(* leave the register alone or change the request only.                    *)

LEMMA RequestStep ==
  ASSUME TypeOK', IdentityKept, secrets' = secrets
  PROVE  Register!Next
BY DEF IdentityKept, TypeOK, Workspace, Register!Next, Register!Request

LEMMA PassStep ==
  ASSUME TypeOK, TypeOK', IdentityInvariant, Pass
  PROVE  Register!Next
<1>1. CASE Reconcile \/ handleReset \/ reconcileVirtualMachine \/ observeGuest
           \/ epochRead \/ bootstrapRead
  BY <1>1, RequestStep DEF Reconcile, handleReset, reconcileVirtualMachine,
     observeGuest, epochRead, bootstrapRead, object, IdentityKept
<1>2. CASE clearReset
  <2>1. ResetConsumed(inst) \in Workspace /\ ResetConsumed(inst).uid = inst.uid
    BY DEF ResetConsumed, TypeOK, Workspace
  <2>2. Accepted(inst) => inst.uid = ws.uid
    BY DEF Accepted, IdentityInvariant, PassAgrees
  <2>3. IdentityKept /\ secrets' = secrets
    BY <1>2, <2>1, <2>2, PutObjectWrites DEF clearReset, object, IdentityKept
  <2> QED BY <2>3, RequestStep
<1>3. CASE ensureLinuxAgentGeneration
  <2> DEFINE o == [inst EXCEPT !.gen = lastGen + 1]
  <2>1. o \in Workspace /\ o.uid = inst.uid
    BY DEF TypeOK, Workspace
  <2>2. Accepted(inst) => inst.uid = ws.uid
    BY DEF Accepted, IdentityInvariant, PassAgrees
  <2>3. /\ secrets' = secrets
        /\ UNCHANGED object \/ (Accepted(inst) /\ PutObject(o))
    BY <1>3 DEF ensureLinuxAgentGeneration
  <2> HIDE DEF o
  <2>4. IdentityKept
    BY <2>1, <2>2, <2>3, PutObjectWrites DEF object, IdentityKept
  <2> QED BY <2>3, <2>4, RequestStep
<1>4. CASE epochWrite
  <2>1. secrets' = secrets /\ pc = "epochWrite"
    BY <1>4 DEF epochWrite
  <2>2. CASE UNCHANGED object
    BY <2>1, <2>2, RequestStep DEF object, IdentityKept
  <2>3. CASE fresh.mgmt # IdentityToRecord(fresh) /\ Accepted(fresh)
    <3> DEFINE o == [fresh EXCEPT !.mgmt = IdentityToRecord(fresh)]
    <3>1. fresh = ws
      BY <2>1, <2>3 DEF Accepted, SameVersion, IdentityInvariant, PassAgrees
    <3>2. IdentityToRecord(fresh) \in Identity
      BY DEF IdentityToRecord, EpochToRecord, Identity, TypeOK, Workspace
    <3>3. o \in Workspace /\ o.mgmt = IdentityToRecord(fresh)
      BY <3>2 DEF TypeOK, Workspace
    <3>4. PutStatus(o)
      BY <1>4, <2>3 DEF epochWrite
    <3> HIDE DEF o
    <3>5. /\ ws'.uid = ws.uid /\ ws'.epoch = ws.epoch
          /\ ws'.mgmt = IdentityToRecord(ws)
      BY <3>1, <3>3, <3>4, PutStatusWrites
    <3>6. IdentityToRecord(ws).epoch = Register!Raised(ws.epoch, ws.mgmt)
      BY DEF IdentityToRecord, EpochToRecord, Register!Raised
    <3>7. ws'.mgmt \in Register!Identity
      BY <3>1, <3>2, <3>5 DEF Identity, Register!Identity
    <3> QED
      BY <2>1, <3>5, <3>6, <3>7 DEF Register!Next, Register!Record
  <2> QED BY <1>4, <2>2, <2>3 DEF epochWrite
<1>5. CASE bootstrapCreate
  <2>1. /\ UNCHANGED ws /\ pc = "bootstrapCreate"
        /\ secrets' = secrets \cup {BootstrapSecret(fresh)}
    BY <1>5 DEF bootstrapCreate, object
  <2>2. /\ fresh.uid <= ws.uid
        /\ fresh.mgmt # NoIdentity
        /\ fresh.mgmt.vm = seenVM
        /\ fresh.uid = ws.uid => fresh.mgmt = ws.mgmt
    BY <2>1 DEF IdentityInvariant, CreateAgrees
  <2>3. BootstrapSecret(fresh) \in Register!Credential
    BY <2>2 DEF BootstrapSecret, Register!Credential, TypeOK, Workspace, Identity
  <2>4. /\ BootstrapSecret(fresh).ws = fresh.uid
        /\ BootstrapSecret(fresh).vm = seenVM
        /\ BootstrapSecret(fresh).epoch = fresh.mgmt.epoch
    BY DEF BootstrapSecret
  <2>5. Register!Issue
    BY <2>1, <2>2, <2>3, <2>4 DEF Register!Issue
  <2> QED BY <2>5 DEF Register!Next
<1>6. CASE statusWrite
  <2>1. secrets' = secrets
    BY <1>6 DEF statusWrite
  <2>2. CASE Accepted(cache)
    <3>1. cache = ws
      BY <2>2 DEF Accepted, IdentityInvariant, VersionsAgree, SameVersion
    <3>2. StatusToWrite(cache) \in Workspace /\ StatusToWrite(cache).mgmt = ws.mgmt
      BY <3>1 DEF StatusToWrite, TypeOK, Workspace, Conditions
    <3>3. PutStatus(StatusToWrite(cache))
      BY <1>6, <2>2 DEF statusWrite
    <3>4. IdentityKept
      BY <3>2, <3>3, PutStatusWrites DEF IdentityKept
    <3> QED BY <2>1, <3>4, RequestStep
  <2>3. CASE ~Accepted(cache)
    BY <1>6, <2>1, <2>3, RequestStep DEF statusWrite, object, IdentityKept
  <2> QED BY <2>2, <2>3
<1>7. CASE readyTime
  <2> DEFINE o == [cache EXCEPT !.timed = TRUE]
  <2>1. o \in Workspace /\ o.uid = cache.uid
    BY DEF TypeOK, Workspace
  <2>2. Accepted(cache) => cache.uid = ws.uid
    BY DEF Accepted, IdentityInvariant, VersionsAgree, SameVersion
  <2>3. /\ secrets' = secrets
        /\ UNCHANGED object \/ (Accepted(cache) /\ PutObject(o))
    BY <1>7 DEF readyTime
  <2> HIDE DEF o
  <2>4. IdentityKept
    BY <2>1, <2>2, <2>3, PutObjectWrites DEF object, IdentityKept
  <2> QED BY <2>3, <2>4, RequestStep
<1>8. CASE setNotReadyCondition
  <2> DEFINE o == [inst EXCEPT !.cond = why]
  <2>1. o \in Workspace /\ o.mgmt = inst.mgmt
    <3>1. why \in Conditions
      BY DEF TypeOK, Conditions
    <3> QED BY <3>1 DEF TypeOK, Workspace
  <2>2. Accepted(inst) => inst.mgmt = ws.mgmt
    BY DEF Accepted, IdentityInvariant, PassAgrees
  <2>3. /\ secrets' = secrets
        /\ UNCHANGED object \/ (Accepted(inst) /\ PutStatus(o))
    BY <1>8 DEF setNotReadyCondition
  <2> HIDE DEF o
  <2>4. IdentityKept
    BY <2>1, <2>2, <2>3, PutStatusWrites DEF object, IdentityKept
  <2> QED BY <2>3, <2>4, RequestStep
<1> QED
  BY <1>1, <1>2, <1>3, <1>4, <1>5, <1>6, <1>7, <1>8 DEF Pass

LEMMA UserStep ==
  ASSUME TypeOK, TypeOK', User
  PROVE  Register!Next
<1>1. CASE RequestEpoch \/ RequestReset \/ StopOrStart \/ DeleteWorkspace
  <2>2. PICK o \in Workspace :
           UserWrites(o) /\ o.uid = ws.uid /\ o.mgmt = ws.mgmt
    BY <1>1, UserRequests
  <2>3. ws' = [o EXCEPT !.rv = ws.rv + 1] /\ secrets' = secrets
    BY <2>2 DEF UserWrites, rest
  <2>4. IdentityKept /\ secrets' = secrets
    BY <2>2, <2>3 DEF IdentityKept, Workspace
  <2> QED BY <2>4, RequestStep
<1>2. CASE CreateWorkspace
  <2>1. PICK e \in 0..MaxEpoch : UserWrites(NewWorkspace(ws.uid + 1, ws.rv, e))
    BY <1>2 DEF CreateWorkspace
  <2>2. /\ ws' = [NewWorkspace(ws.uid + 1, ws.rv, e) EXCEPT !.rv = ws.rv + 1]
        /\ secrets' = secrets
    BY <2>1 DEF UserWrites, rest
  <2>3. ws'.uid = ws.uid + 1 /\ ws'.mgmt = NoIdentity
    BY <2>2 DEF NewWorkspace
  <2>4. ws.uid \in Nat /\ ws'.uid \in Nat /\ ws'.epoch \in Nat
    BY DEF TypeOK, Workspace
  <2> QED
    BY <2>2, <2>3, <2>4 DEF Register!Next, Register!Replace
<1>3. CASE RetireSecret
  BY <1>3 DEF RetireSecret, object, Register!Next, Register!Retire
<1> QED
  BY <1>1, <1>2, <1>3 DEF User

LEMMA RegisterStep ==
  ASSUME TypeOK, TypeOK', IdentityInvariant, [Next]_vars
  PROVE  [Register!Next]_(Register!vars)
<1>1. CASE Pass
  BY <1>1, PassStep
<1>2. CASE User
  BY <1>2, UserStep
<1>3. CASE RemoveWorkspace
  <2>1. IdentityKept /\ secrets' = secrets
    BY <1>3 DEF RemoveWorkspace, rest, IdentityKept, TypeOK, Workspace
  <2> QED BY <2>1, RequestStep
<1>4. CASE ApiError \/ Crash \/ DeliverWorkspace \/ DeliverPod \/ CollectGarbage
           \/ StartGuest \/ GuestRuns \/ StopGuest \/ CrashGuest \/ RemoveVM
           \/ UNCHANGED vars
  <2>1. ws' = ws /\ secrets' = secrets
    BY <1>4 DEF ApiError, Crash, DeliverWorkspace, DeliverPod, CollectGarbage,
       StartGuest, GuestRuns, StopGuest, CrashGuest, RemoveVM, vars, object
  <2> QED BY <2>1, RequestStep DEF IdentityKept
<1> QED
  BY <1>1, <1>2, <1>3, <1>4 DEF Next

(* The reconciler implements the abstract register: requests, recordings   *)
(* that never lower the epoch, credentials for the binding in force.       *)
THEOREM ImplementsRegister == Spec => RefinesRegister
<1>1. Init => Register!Init
  BY DEF Init, NewWorkspace, Register!Init
<1>2. TypeOK /\ TypeOK' /\ IdentityInvariant /\ [Next]_vars
        => [Register!Next]_(Register!vars)
  BY RegisterStep
<1> QED
  BY <1>1, <1>2, IdentityHolds, PTL DEF Spec, RefinesRegister, Register!Spec

(* The epoch recorded for a Workspace object never goes down and its       *)
(* identity is never removed, by any writer from any cached version.       *)
THEOREM EpochMonotone == Spec => EpochNeverRollsBack
<1> DEFINE A == ws'.uid = ws.uid /\ ws.mgmt # NoIdentity =>
                  /\ ws'.mgmt # NoIdentity
                  /\ ws'.mgmt.epoch >= ws.mgmt.epoch
<1>1. ASSUME TypeOK, TypeOK', IdentityInvariant, [Next]_vars
      PROVE  A
  <2>1. [Register!Next]_(Register!vars)
    BY <1>1, RegisterStep
  <2>2. ws.mgmt # NoIdentity => ws.mgmt.epoch \in Nat
    BY <1>1 DEF TypeOK, Workspace, Identity
  <2>3. ws.epoch \in Nat /\ ws.uid \in Nat
    BY <1>1 DEF TypeOK, Workspace
  <2>4. CASE ws'.mgmt = ws.mgmt
    BY <2>2, <2>4
  <2>5. CASE Register!Record
    <3>1. ws'.mgmt \in Identity /\ ws'.mgmt.epoch = Register!Raised(ws.epoch, ws.mgmt)
      BY <2>5 DEF Register!Record, Register!Identity, Identity
    <3> QED
      BY <2>2, <2>3, <3>1 DEF Register!Raised
  <2>6. CASE Register!Replace
    BY <2>3, <2>6 DEF Register!Replace
  <2> QED
    BY <2>1, <2>4, <2>5, <2>6 DEF Register!Next, Register!Request,
       Register!Issue, Register!Retire, Register!vars
<1>2. TypeOK /\ TypeOK' /\ IdentityInvariant /\ [Next]_vars => [A]_vars
  BY <1>1
<1> HIDE DEF A
<1>3. Spec => [][A]_vars
  BY <1>2, IdentityHolds, PTL DEF Spec
<1> QED
  BY <1>3 DEF A, EpochNeverRollsBack

(* A management Secret is only ever created for the VM and epoch in status *)
(* at the moment of its creation.                                          *)
THEOREM SecretsNameBinding == Spec => SecretNamesBinding
<1> DEFINE A == \A s \in secrets' \ secrets :
                  s.ws = ws.uid =>
                     /\ ws.mgmt # NoIdentity
                     /\ s.vm = ws.mgmt.vm
                     /\ s.epoch = ws.mgmt.epoch
<1>1. ASSUME TypeOK, TypeOK', IdentityInvariant, [Next]_vars
      PROVE  A
  <2>1. [Register!Next]_(Register!vars)
    BY <1>1, RegisterStep
  <2> QED
    BY <2>1 DEF Register!Next, Register!Request, Register!Record,
       Register!Issue, Register!Retire, Register!Replace, Register!vars
<1>2. TypeOK /\ TypeOK' /\ IdentityInvariant /\ [Next]_vars => [A]_vars
  BY <1>1
<1> HIDE DEF A
<1>3. Spec => [][A]_vars
  BY <1>2, IdentityHolds, PTL DEF Spec
<1> QED
  BY <1>3 DEF A, SecretNamesBinding

-----------------------------------------------------------------------------
(* The agent generation.  A root is made for one generation and a reset    *)
(* replaces both; the pass that does either may start from an old version  *)
(* and the invariant says how old it can still be.                         *)

(* The watch delivers what is newer than the cache; UIDs only grow, and no *)
(* VM belongs to a Workspace the cache or the pass has not seen.           *)
Incarnations ==
    /\ ws.uid > 0
    /\ cache.uid <= ws.uid /\ inst.uid <= cache.uid
    /\ vm.owner <= cache.uid
    /\ pc # "idle" => vm.owner <= inst.uid
    /\ \A v \in feed : /\ v.rv > cache.rv
                       /\ cache.uid <= v.uid /\ v.uid <= ws.uid
                       /\ \A u \in feed : u.rv <= v.rv => u.uid <= v.uid

(* The generation is handed out, and dropped, only while the cache is up   *)
(* to date, so nothing on its way to the cache disagrees with the server.  *)
GenerationsAgree ==
    /\ ws.gen <= lastGen /\ vm.gen <= lastGen /\ cache.gen <= lastGen
    /\ \A v \in feed : v.gen <= lastGen /\ (v.uid = ws.uid => v.gen = ws.gen)
    /\ cache.uid = ws.uid => cache.reset \/ cache.gen \in {0, ws.gen}
    /\ vm.owner > 0 => vm.gen > 0
    /\ vm.live /\ vm.owner = ws.uid => vm.gen = ws.gen

(* Every version a later pass can start from still asks for the reset.     *)
ResetPending ==
    /\ ws.reset
    /\ cache.uid = ws.uid /\ cache.reset
    /\ \A v \in feed : v.reset

Building == {"ensureAgentGeneration", "reconcileVM"}

(* A request the cache shows is pending, or was consumed and no VM has     *)
(* been made since; a root that is going while its generation is in force  *)
(* goes because of a pending request.                                      *)
ResetsAgree ==
    /\ \A v \in feed : v.uid = ws.uid /\ v.reset =>
          ws.reset /\ \A u \in feed : u.rv >= v.rv => u.reset
    /\ cache.uid = ws.uid /\ cache.reset =>
          ResetPending \/ (~vm.live /\ pc \notin Building)
    /\ (/\ vm.owner = ws.uid /\ ws.phase = "live" /\ vm.gen = ws.gen
        /\ ~vm.live \/ vm.deleting)
          => ResetPending /\ pc \notin Building

(* What the first steps of a pass hold.                                    *)
PassBuilds ==
    /\ pc \in {"handleReset", "clearReset", "ensureAgentGeneration"} =>
          SameVersion(inst) /\ inst.rv <= cache.rv
    /\ pc = "handleReset" /\ inst.uid = ws.uid /\ vm.live => ResetPending
    /\ pc \in {"handleReset", "clearReset"} => inst.reset
    /\ pc = "clearReset" => ~vm.live
    /\ pc \in Building =>
          /\ inst.gen <= lastGen
          /\ inst.uid = ws.uid /\ inst.gen # 0 => inst.gen = ws.gen
    /\ pc = "reconcileVM" => inst.gen # 0

GenerationInvariant ==
    Incarnations /\ GenerationsAgree /\ ResetsAgree /\ PassBuilds

Early == {"handleReset", "clearReset"} \cup Building

LEMMA InitGeneration == Init => GenerationInvariant
BY DEF Init, GenerationInvariant, Incarnations, GenerationsAgree, ResetsAgree,
   PassBuilds, ResetPending, SameVersion, Building, Blank, NewWorkspace

Numbered(v) == v.rv \in Nat /\ v.uid \in Nat /\ v.gen \in Nat

Counted ==
    /\ Numbered(ws) /\ Numbered(cache) /\ Numbered(inst)
    /\ \A v \in feed : Numbered(v)
    /\ vm.uid \in Nat /\ vm.owner \in Nat /\ vm.gen \in Nat
    /\ lastGen \in Nat

LEMMA Numbers == (TypeOK => Counted) /\ (TypeOK' => Counted')
BY DEF TypeOK, Workspace, VirtualMachine, Numbered, Counted

(* A step that keeps the generation and any reset request, revives nothing *)
(* and lets no VM of a live Workspace go: a status write, a user's         *)
(* request, the later steps of a pass and its end, the cluster's steps.    *)
VMQuiet ==
    /\ vm'.owner = vm.owner /\ vm'.gen = vm.gen
    /\ vm'.live => vm.live
    /\ vm.owner = ws.uid /\ ws.phase = "live" /\ (~vm'.live \/ vm'.deleting)
          => ~vm.live \/ vm.deleting

PassQuiet ==
    \/ UNCHANGED <<pc, inst>>
    \/ /\ pc' \notin Early
       /\ inst'.uid <= inst.uid
       /\ pc' # "idle" => pc # "idle" /\ inst'.uid = inst.uid

ObjectQuiet ==
    /\ Written
    /\ ws'.uid = ws.uid /\ ws'.gen = ws.gen
    /\ ws.reset => ws'.reset
    /\ ws'.phase = "live" => ws.phase = "live"

LEMMA QuietStep ==
  ASSUME TypeOK, TypeOK', VersionsAgree, GenerationInvariant,
         ObjectQuiet, VMQuiet, PassQuiet, UNCHANGED <<cache, lastGen>>
  PROVE  GenerationInvariant'
<1>n. Counted /\ Counted'
  BY Numbers
<1> USE <1>n DEF Counted, Numbered, ObjectQuiet, Written
<1>1. Incarnations'
  BY DEF GenerationInvariant, Incarnations, VersionsAgree, SameVersion, VMQuiet,
     PassQuiet
<1>2. GenerationsAgree'
  BY DEF GenerationInvariant, GenerationsAgree, VMQuiet
<1>3. ResetPending => ResetPending'
  BY DEF ResetPending
<1>4. pc' \in Early => UNCHANGED <<pc, inst>>
  BY DEF PassQuiet
<1>5. ResetsAgree'
  <2>1. \A v \in feed' : v.uid = ws'.uid /\ v.reset =>
          ws'.reset /\ \A u \in feed' : u.rv >= v.rv => u.reset
    BY DEF GenerationInvariant, ResetsAgree, VersionsAgree, SameVersion
  <2>2. cache.uid = ws.uid /\ cache.reset =>
          ResetPending' \/ (~vm'.live /\ pc' \notin Building)
    BY <1>3, <1>4 DEF GenerationInvariant, ResetsAgree, VMQuiet, Early
  <2>3. (/\ vm'.owner = ws'.uid /\ ws'.phase = "live" /\ vm'.gen = ws'.gen
         /\ ~vm'.live \/ vm'.deleting)
          => ResetPending' /\ pc' \notin Building
    BY <1>3, <1>4 DEF GenerationInvariant, ResetsAgree, VMQuiet, Early
  <2> QED BY <2>1, <2>2, <2>3 DEF ResetsAgree
<1>6. PassBuilds'
  <2>1. CASE pc' \notin Early
    BY <2>1 DEF PassBuilds, Early, Building
  <2>2. CASE UNCHANGED <<pc, inst>>
    <3>1. SameVersion(inst) => SameVersion(inst)'
      BY <2>2 DEF SameVersion
    <3> QED BY <1>3, <2>2, <3>1 DEF GenerationInvariant, PassBuilds, VMQuiet
  <2> QED BY <1>4, <2>1, <2>2
<1> QED BY <1>1, <1>2, <1>5, <1>6 DEF GenerationInvariant

(* An accepted write of the first steps finds the cache up to date.        *)
LEMMA UpToDate ==
  ASSUME TypeOK, VersionsAgree, GenerationInvariant, Accepted(inst),
         pc \in {"handleReset", "clearReset", "ensureAgentGeneration"}
  PROVE  inst = ws /\ cache = ws /\ feed = {}
<1>n. Counted
  BY Numbers
<1> USE <1>n DEF Counted, Numbered
<1>1. inst.rv = ws.rv /\ SameVersion(inst) /\ inst.rv <= cache.rv
  BY DEF Accepted, GenerationInvariant, PassBuilds
<1>2. inst = ws /\ cache = ws
  BY <1>1 DEF SameVersion, VersionsAgree
<1>3. feed = {}
  BY <1>2 DEF GenerationInvariant, Incarnations, VersionsAgree, SameVersion
<1> QED BY <1>2, <1>3

LEMMA DeliverGeneration ==
  ASSUME TypeOK, TypeOK', VersionsAgree, GenerationInvariant, DeliverWorkspace
  PROVE  GenerationInvariant'
<1>n. Counted /\ Counted'
  BY Numbers
<1> USE <1>n DEF Counted, Numbered
<1>1. PICK v \in feed : cache' = v /\ feed' = {u \in feed : u.rv > v.rv}
  BY DEF DeliverWorkspace
<1>2. UNCHANGED <<ws, vm, lastGen, pc, inst>>
  BY DEF DeliverWorkspace, counters, local
<1>3. Incarnations'
  BY <1>1, <1>2 DEF GenerationInvariant, Incarnations
<1>4. GenerationsAgree'
  BY <1>1, <1>2 DEF GenerationInvariant, GenerationsAgree
<1>5. ResetPending => ResetPending'
  <2>1. cache.uid = ws.uid => v.uid = ws.uid
    BY DEF GenerationInvariant, Incarnations
  <2> QED BY <1>1, <1>2, <2>1 DEF ResetPending
<1>6. ResetsAgree'
  <2>1. \A w \in feed' : w.uid = ws'.uid /\ w.reset =>
          ws'.reset /\ \A u \in feed' : u.rv >= w.rv => u.reset
    BY <1>1, <1>2 DEF GenerationInvariant, ResetsAgree
  <2>2. v.uid = ws.uid /\ v.reset => ResetPending'
    BY <1>1, <1>2 DEF GenerationInvariant, ResetsAgree, ResetPending
  <2> QED BY <1>1, <1>2, <1>5, <2>1, <2>2 DEF GenerationInvariant, ResetsAgree
<1>7. PassBuilds'
  <2>1. cache'.rv > cache.rv
    BY <1>1 DEF GenerationInvariant, Incarnations
  <2>2. inst.rv <= cache.rv => inst.rv <= cache'.rv
    BY <1>1, <2>1
  <2>3. SameVersion(inst) => SameVersion(inst)'
    BY <1>2 DEF SameVersion
  <2> QED BY <1>2, <1>5, <2>2, <2>3 DEF GenerationInvariant, PassBuilds
<1> QED BY <1>3, <1>4, <1>6, <1>7 DEF GenerationInvariant

LEMMA CreateGeneration ==
  ASSUME TypeOK, TypeOK', VersionsAgree, GenerationInvariant, CreateWorkspace
  PROVE  GenerationInvariant'
<1>n. Counted /\ Counted'
  BY Numbers
<1> USE <1>n DEF Counted, Numbered
<1>1. PICK e \in 0..MaxEpoch : UserWrites(NewWorkspace(ws.uid + 1, ws.rv, e))
  BY DEF CreateWorkspace
<1>2. feed' = feed \cup {ws'} /\ UNCHANGED <<cache, vm, lastGen, pc, inst>>
  BY <1>1 DEF UserWrites, rest, local
<1>3. /\ ws'.uid = ws.uid + 1 /\ ws'.rv = ws.rv + 1 /\ ws'.gen = 0
      /\ ws'.reset = FALSE
  BY <1>1 DEF UserWrites, NewWorkspace
<1>4. /\ cache.uid < ws'.uid /\ inst.uid < ws'.uid /\ vm.owner < ws'.uid
      /\ \A v \in feed : v.uid < ws'.uid
  BY <1>3 DEF GenerationInvariant, Incarnations
<1>5. Incarnations'
  BY <1>2, <1>3, <1>4 DEF GenerationInvariant, Incarnations, VersionsAgree,
     SameVersion
<1>6. GenerationsAgree'
  BY <1>2, <1>3, <1>4 DEF GenerationInvariant, GenerationsAgree
<1>7. ResetsAgree'
  BY <1>2, <1>3, <1>4 DEF ResetsAgree
<1>8. PassBuilds'
  <2>1. SameVersion(inst) => SameVersion(inst)'
    BY <1>2, <1>3 DEF SameVersion
  <2> QED BY <1>2, <1>4, <2>1 DEF GenerationInvariant, PassBuilds
<1> QED BY <1>5, <1>6, <1>7, <1>8 DEF GenerationInvariant

LEMMA ReconcileGeneration ==
  ASSUME TypeOK, TypeOK', VersionsAgree, GenerationInvariant, Reconcile
  PROVE  GenerationInvariant'
<1>n. Counted /\ Counted'
  BY Numbers
<1> USE <1>n DEF Counted, Numbered
<1>1. /\ pc = "idle" /\ inst' = cache
      /\ pc' = IF cache.reset THEN "handleReset" ELSE "ensureAgentGeneration"
      /\ UNCHANGED <<ws, feed, cache, vm, lastGen>>
  BY DEF Reconcile, Goto, object, counters
<1>2. Incarnations' /\ GenerationsAgree'
  BY <1>1 DEF GenerationInvariant, Incarnations, GenerationsAgree
<1>3. ResetPending' <=> ResetPending
  BY <1>1 DEF ResetPending
<1>4. ResetsAgree'
  <2>1. cache.reset => pc' \notin Building
    BY <1>1 DEF Building
  <2>2. ResetPending => pc' \notin Building
    BY <2>1 DEF ResetPending
  <2> QED BY <1>1, <1>3, <2>1, <2>2 DEF GenerationInvariant, ResetsAgree
<1>5. PassBuilds'
  <2>1. SameVersion(inst)' /\ inst'.rv <= cache'.rv
    BY <1>1 DEF SameVersion, VersionsAgree
  <2>2. CASE cache.reset
    <3>1. inst'.uid = ws'.uid /\ vm'.live => ResetPending'
      BY <1>1, <1>3, <2>2 DEF GenerationInvariant, ResetsAgree
    <3> QED BY <1>1, <2>1, <2>2, <3>1 DEF PassBuilds, Building
  <2>3. CASE ~cache.reset
    <3>1. inst'.gen <= lastGen' /\ (inst'.uid = ws'.uid /\ inst'.gen # 0 => inst'.gen = ws'.gen)
      BY <1>1, <2>3 DEF GenerationInvariant, GenerationsAgree
    <3> QED BY <1>1, <2>1, <2>3, <3>1 DEF PassBuilds, Building
  <2> QED BY <2>2, <2>3
<1> QED BY <1>2, <1>4, <1>5 DEF GenerationInvariant

(* A VM is only marked for deletion when the request is still pending.     *)
LEMMA handleResetGeneration ==
  ASSUME TypeOK, TypeOK', VersionsAgree, GenerationInvariant, handleReset
  PROVE  GenerationInvariant'
<1>n. Counted /\ Counted'
  BY Numbers
<1> USE <1>n DEF Counted, Numbered
<1>1. pc = "handleReset" /\ UNCHANGED <<ws, feed, cache, lastGen>>
  BY DEF handleReset, object, counters
<1>2. ResetPending' <=> ResetPending
  BY <1>1 DEF ResetPending
<1>3. CASE vm.live
  <2>1. /\ vm'.owner = vm.owner /\ vm'.gen = vm.gen /\ vm'.live = vm.live
        /\ pc' = "idle" /\ inst'.uid = 0
    BY <1>3 DEF handleReset, EndPass, Blank, NewWorkspace, TypeOK, VirtualMachine
  <2>2. Incarnations' /\ GenerationsAgree'
    BY <1>1, <2>1 DEF GenerationInvariant, Incarnations, GenerationsAgree
  <2>3. vm.owner = ws.uid => inst.uid = ws.uid
    BY <1>1 DEF GenerationInvariant, Incarnations
  <2>4. vm.owner = ws.uid => ResetPending
    BY <1>1, <1>3, <2>3 DEF GenerationInvariant, PassBuilds
  <2>5. ResetsAgree'
    BY <1>1, <1>2, <1>3, <2>1, <2>4 DEF GenerationInvariant, ResetsAgree, Building
  <2>6. PassBuilds'
    BY <2>1 DEF PassBuilds, Building
  <2> QED BY <2>2, <2>5, <2>6 DEF GenerationInvariant
<1>4. CASE ~vm.live
  <2>1. pc' = "clearReset" /\ UNCHANGED <<vm, inst>>
    BY <1>4 DEF handleReset, Goto, local
  <2>2. Incarnations' /\ GenerationsAgree'
    BY <1>1, <2>1 DEF GenerationInvariant, Incarnations, GenerationsAgree
  <2>3. ResetsAgree'
    BY <1>1, <1>2, <2>1 DEF GenerationInvariant, ResetsAgree, Building
  <2>4. PassBuilds'
    BY <1>1, <1>4, <2>1 DEF GenerationInvariant, PassBuilds, SameVersion, Building
  <2> QED BY <2>2, <2>3, <2>4 DEF GenerationInvariant
<1> QED BY <1>3, <1>4

LEMMA PutObjectParts ==
  ASSUME TypeOK, NEW o \in Workspace, PutObject(o)
  PROVE  /\ Written
         /\ ws'.uid = o.uid /\ ws'.gen = o.gen /\ ws'.reset = o.reset
         /\ ws'.phase = ws.phase
<1> DEFINE n == [o EXCEPT !.phase = ws.phase, !.mgmt = ws.mgmt,
                          !.ready = ws.ready, !.cond = ws.cond]
<1>1. /\ n \in Workspace /\ n.uid = o.uid /\ n.gen = o.gen /\ n.reset = o.reset
      /\ n.phase = ws.phase
  BY DEF TypeOK, Workspace
<1>2. Store(n)
  BY DEF PutObject
<1> HIDE DEF n
<1> QED BY <1>1, <1>2 DEF Store, Written, object, TypeOK, Workspace

LEMMA PutStatusParts ==
  ASSUME TypeOK, NEW o \in Workspace, PutStatus(o)
  PROVE  ObjectQuiet
<1> DEFINE n == [ws EXCEPT !.mgmt = o.mgmt, !.ready = o.ready, !.cond = o.cond]
<1>1. /\ n \in Workspace /\ n.uid = ws.uid /\ n.gen = ws.gen
      /\ n.reset = ws.reset /\ n.phase = ws.phase
  BY DEF TypeOK, Workspace
<1>2. Store(n)
  BY DEF PutStatus
<1> HIDE DEF n
<1> QED BY <1>1, <1>2 DEF ObjectQuiet, Store, Written, object, TypeOK, Workspace

(* The reset is consumed when there is no VM and the cache shows what is   *)
(* consumed: a pass that starts from it again makes no VM either.          *)
LEMMA clearResetGeneration ==
  ASSUME TypeOK, TypeOK', VersionsAgree, GenerationInvariant, clearReset
  PROVE  GenerationInvariant'
<1>n. Counted /\ Counted'
  BY Numbers
<1> USE <1>n DEF Counted, Numbered
<1>1. /\ pc = "clearReset" /\ UNCHANGED <<cache, vm, lastGen>>
      /\ pc' = "idle" /\ inst'.uid = 0
  BY DEF clearReset, counters, EndPass, Blank, NewWorkspace
<1>2. CASE ~Accepted(inst)
  <2>1. ObjectQuiet /\ VMQuiet /\ PassQuiet
    BY <1>1, <1>2 DEF clearReset, object, ObjectQuiet, Written, VMQuiet, PassQuiet,
       Early, Building
  <2> QED BY <1>1, <2>1, QuietStep
<1>3. CASE Accepted(inst)
  <2>1. inst = ws /\ cache = ws /\ feed = {}
    BY <1>1, <1>3, UpToDate
  <2>2. cache.reset /\ ~vm.live
    BY <1>1, <2>1 DEF GenerationInvariant, PassBuilds
  <2>3. /\ ResetConsumed(inst) \in Workspace
        /\ ResetConsumed(inst).uid = inst.uid /\ ResetConsumed(inst).gen = 0
        /\ ResetConsumed(inst).reset = FALSE
    BY DEF ResetConsumed, TypeOK, Workspace
  <2>4. /\ Written /\ ws'.uid = ws.uid /\ ws'.gen = 0 /\ ws'.reset = FALSE
    BY <1>3, <2>1, <2>3, PutObjectParts DEF clearReset
  <2>5. ws'.rv = ws.rv + 1 /\ feed' = {ws'}
    BY <2>1, <2>2, <2>4 DEF Written
  <2>6. Incarnations'
    BY <1>1, <2>1, <2>4, <2>5 DEF GenerationInvariant, Incarnations
  <2>7. GenerationsAgree'
    BY <1>1, <2>1, <2>2, <2>4, <2>5 DEF GenerationInvariant, GenerationsAgree
  <2>8. vm'.owner = ws'.uid => vm'.gen # ws'.gen
    BY <1>1, <2>4 DEF GenerationInvariant, GenerationsAgree, Incarnations
  <2>9. ResetsAgree'
    BY <1>1, <2>2, <2>4, <2>5, <2>8 DEF ResetsAgree, Building
  <2>10. PassBuilds'
    BY <1>1 DEF PassBuilds, Building
  <2> QED BY <2>6, <2>7, <2>9, <2>10 DEF GenerationInvariant
<1> QED BY <1>2, <1>3

LEMMA ensureGeneration ==
  ASSUME TypeOK, TypeOK', VersionsAgree, GenerationInvariant,
         ensureLinuxAgentGeneration
  PROVE  GenerationInvariant'
<1>n. Counted /\ Counted'
  BY Numbers
<1> USE <1>n DEF Counted, Numbered
<1>1. pc = "ensureAgentGeneration" /\ UNCHANGED <<cache, vm>>
  BY DEF ensureLinuxAgentGeneration
<1>2. CASE inst.gen # 0
  <2>1. pc' = "reconcileVM" /\ UNCHANGED <<ws, feed, inst, lastGen>>
    BY <1>2 DEF ensureLinuxAgentGeneration, Goto, object, local
  <2>2. Incarnations' /\ GenerationsAgree'
    BY <1>1, <2>1 DEF GenerationInvariant, Incarnations, GenerationsAgree
  <2>3. ResetPending' <=> ResetPending
    BY <1>1, <2>1 DEF ResetPending
  <2>4. ResetsAgree'
    BY <1>1, <2>1, <2>3 DEF GenerationInvariant, ResetsAgree, Building
  <2>5. PassBuilds'
    BY <1>1, <1>2, <2>1 DEF GenerationInvariant, PassBuilds, Building
  <2> QED BY <2>2, <2>4, <2>5 DEF GenerationInvariant
<1>3. CASE inst.gen = 0 /\ ~Accepted(inst)
  <2>1. UNCHANGED <<ws, feed, inst, lastGen>> /\ pc' = "setNotReady"
    BY <1>3 DEF ensureLinuxAgentGeneration, object, Fail
  <2>2. ObjectQuiet /\ VMQuiet /\ PassQuiet
    BY <1>1, <2>1 DEF ObjectQuiet, Written, VMQuiet, PassQuiet, Early, Building
  <2> QED BY <1>1, <2>1, <2>2, QuietStep
<1>4. CASE inst.gen = 0 /\ Accepted(inst)
  <2>1. inst = ws /\ cache = ws /\ feed = {}
    BY <1>1, <1>4, UpToDate
  <2>2. /\ PutObject([inst EXCEPT !.gen = lastGen + 1])
        /\ lastGen' = lastGen + 1 /\ inst' = ws' /\ pc' = "reconcileVM"
    BY <1>4 DEF ensureLinuxAgentGeneration, Goto
  <2> DEFINE o == [inst EXCEPT !.gen = lastGen + 1]
  <2>3. /\ o \in Workspace /\ o.uid = inst.uid /\ o.gen = lastGen + 1
        /\ o.reset = inst.reset
    BY DEF TypeOK, Workspace
  <2>p. PutObject(o)
    BY <2>2
  <2> HIDE DEF o
  <2>4. /\ Written /\ ws'.uid = ws.uid /\ ws'.gen = lastGen + 1
        /\ ws'.reset = ws.reset /\ ws'.phase = ws.phase
    BY <2>1, <2>p, <2>3, PutObjectParts
  <2>5. ws'.rv = ws.rv + 1 /\ feed' = {ws'}
    BY <1>4, <2>1, <2>4 DEF Written
  <2>6. Incarnations'
    BY <1>1, <2>1, <2>2, <2>4, <2>5 DEF GenerationInvariant, Incarnations
  <2>7. ~(vm.live /\ vm.owner = ws.uid)
    BY <1>4, <2>1 DEF GenerationInvariant, GenerationsAgree, Incarnations
  <2>8. GenerationsAgree'
    BY <1>1, <1>4, <2>1, <2>2, <2>4, <2>5, <2>7
       DEF GenerationInvariant, GenerationsAgree
  <2>9. vm.gen # ws'.gen
    BY <2>4 DEF GenerationInvariant, GenerationsAgree
  <2>10. cache.reset => ResetPending'
    BY <1>1, <2>1, <2>4, <2>5 DEF ResetPending
  <2>11. ResetsAgree'
    BY <1>1, <2>1, <2>4, <2>5, <2>9, <2>10 DEF ResetsAgree
  <2>12. PassBuilds'
    BY <1>1, <2>2, <2>4 DEF PassBuilds, Building
  <2> QED BY <2>6, <2>8, <2>11, <2>12 DEF GenerationInvariant
<1> QED BY <1>2, <1>3, <1>4

(* The VM is made, or brought up to date, from the generation in force.    *)
LEMMA reconcileVMGeneration ==
  ASSUME TypeOK, TypeOK', VersionsAgree, GenerationInvariant,
         reconcileVirtualMachine
  PROVE  GenerationInvariant'
<1>n. Counted /\ Counted'
  BY Numbers
<1> USE <1>n DEF Counted, Numbered
<1>1. pc = "reconcileVM" /\ UNCHANGED <<ws, feed, cache, lastGen>>
  BY DEF reconcileVirtualMachine, object, counters
<1>2. CASE UNCHANGED vm /\ pc' \in {"observeGuest", "setNotReady"} /\ UNCHANGED inst
  <2>1. ObjectQuiet /\ VMQuiet /\ PassQuiet
    BY <1>1, <1>2 DEF ObjectQuiet, Written, VMQuiet, PassQuiet, Early, Building
  <2> QED BY <1>1, <2>1, QuietStep
<1>3. CASE /\ vm'.live /\ ~vm'.deleting /\ vm'.gen = inst.gen
           /\ vm'.owner \in {vm.owner, inst.uid}
           /\ pc' = "observeGuest" /\ UNCHANGED inst
  <2>1. /\ inst.gen <= lastGen /\ inst.gen > 0
        /\ inst.uid = ws.uid => inst.gen = ws.gen
    BY <1>1 DEF GenerationInvariant, PassBuilds, Building
  <2>2. vm.owner <= inst.uid /\ inst.uid <= ws.uid
    BY <1>1 DEF GenerationInvariant, Incarnations
  <2>3. vm'.owner <= inst.uid /\ (vm'.owner = ws.uid => inst.uid = ws.uid)
    BY <1>3, <2>2
  <2>4. Incarnations'
    BY <1>1, <1>3, <2>3 DEF GenerationInvariant, Incarnations
  <2>5. GenerationsAgree'
    BY <1>1, <1>3, <2>1, <2>3 DEF GenerationInvariant, GenerationsAgree
  <2>6. ResetPending' <=> ResetPending
    BY <1>1 DEF ResetPending
  <2>7. ResetsAgree'
    BY <1>1, <1>3, <2>6 DEF GenerationInvariant, ResetsAgree, Building
  <2>8. PassBuilds'
    BY <1>3 DEF PassBuilds, Building
  <2> QED BY <2>4, <2>5, <2>7, <2>8 DEF GenerationInvariant
<1>4. CASE createVirtualMachine
  BY <1>3, <1>4 DEF createVirtualMachine, DesiredVM, Goto
<1>5. CASE updateVirtualMachine
  <2>1. CASE ~virtualMachineNeedsUpdate(inst) \/ vm.deleting
    BY <1>2, <1>5, <2>1 DEF updateVirtualMachine, Goto, Fail
  <2>2. CASE virtualMachineNeedsUpdate(inst) /\ ~vm.deleting
    <3>1. /\ vm.live /\ pc' = "observeGuest" /\ UNCHANGED inst
          /\ vm' = [vm EXCEPT !.gen = inst.gen, !.running = ~inst.stopped]
      BY <1>5, <2>2 DEF updateVirtualMachine, DesiredVM, Goto
    <3>2. /\ vm'.live = vm.live /\ vm'.deleting = vm.deleting
          /\ vm'.gen = inst.gen /\ vm'.owner = vm.owner
      BY <3>1 DEF TypeOK, VirtualMachine
    <3> QED BY <1>3, <2>2, <3>1, <3>2
  <2> QED BY <2>1, <2>2
<1>6. CASE Fail("reconcileVM") /\ UNCHANGED vm
  BY <1>2, <1>6 DEF Fail
<1> QED BY <1>4, <1>5, <1>6 DEF reconcileVirtualMachine

(* The later steps of a pass are quiet.                                    *)
LEMMA PassGeneration ==
  ASSUME TypeOK, TypeOK', IdentityInvariant, GenerationInvariant, Pass
  PROVE  GenerationInvariant'
<1> USE DEF IdentityInvariant
<1>n. Counted /\ Counted'
  BY Numbers
<1>1. CASE Reconcile \/ handleReset \/ clearReset \/ ensureLinuxAgentGeneration
           \/ reconcileVirtualMachine
  BY <1>1, ReconcileGeneration, handleResetGeneration, clearResetGeneration,
     ensureGeneration, reconcileVMGeneration
<1>2. ASSUME ObjectQuiet, UNCHANGED <<cache, vm, lastGen>>, pc # "idle",
             EndPass \/ (pc' \notin Early /\ inst'.uid = inst.uid)
      PROVE  GenerationInvariant'
  <2>1. PassQuiet
    BY <1>n, <1>2 DEF PassQuiet, Counted, Numbered, EndPass, Early, Building, Blank,
       NewWorkspace
  <2>2. VMQuiet
    BY <1>2 DEF VMQuiet
  <2> QED BY <1>2, <2>1, <2>2, QuietStep
<1>3. UNCHANGED object => ObjectQuiet
  BY DEF object, ObjectQuiet, Written
<1>4. \A d : AfterReadiness(inst, d) \notin Early /\ AfterEpoch(d) \notin Early
  BY DEF AfterReadiness, AfterEpoch, Early, Building
<1>5. CASE observeGuest
  BY <1>2, <1>3, <1>4, <1>5 DEF observeGuest, Goto, counters, Early, Building
<1>6. CASE epochRead
  <2>1. UNCHANGED inst /\ pc' \notin Early
    BY <1>6 DEF epochRead, Fail, Goto, Early, Building
  <2> QED BY <1>2, <1>3, <1>6, <2>1 DEF epochRead, counters
<1>7. CASE epochWrite
  <2>0. \A m, r : [inst EXCEPT !.mgmt = m, !.rv = r].uid = inst.uid
    BY DEF TypeOK, Workspace
  <2>1. inst'.uid = inst.uid /\ pc' \notin Early
    <3>1. CASE Fail("epochWrite")
      BY <3>1 DEF Fail, Early, Building
    <3>2. CASE ~Fail("epochWrite")
      <4>1. AfterEpoch(derived') \notin Early
        BY DEF AfterEpoch, AfterReadiness, Early, Building
      <4>2. \E m, r : inst' = [inst EXCEPT !.mgmt = m, !.rv = r]
        BY <1>7, <3>2 DEF epochWrite
      <4>3. pc' = AfterEpoch(derived')
        BY <1>7, <3>2 DEF epochWrite, Goto
      <4> QED BY <2>0, <4>1, <4>2, <4>3
    <3> QED BY <3>1, <3>2
  <2>2. ObjectQuiet
    <3>1. IdentityToRecord(fresh) \in Identity
      BY DEF IdentityToRecord, EpochToRecord, Identity, TypeOK, Workspace
    <3>2. [fresh EXCEPT !.mgmt = IdentityToRecord(fresh)] \in Workspace
      BY <3>1 DEF TypeOK, Workspace
    <3> QED BY <1>3, <1>7, <3>2, PutStatusParts DEF epochWrite
  <2> QED BY <1>2, <1>7, <2>1, <2>2 DEF epochWrite, counters
<1>8. CASE bootstrapRead
  <2>1. UNCHANGED inst /\ pc' \notin Early
    BY <1>4, <1>8 DEF bootstrapRead, Fail, Goto, Early, Building
  <2> QED BY <1>2, <1>3, <1>8, <2>1 DEF bootstrapRead, counters
<1>9. CASE bootstrapCreate
  BY <1>2, <1>3, <1>4, <1>9 DEF bootstrapCreate, Goto, counters
<1>10. CASE statusWrite
  <2>1. StatusToWrite(cache) \in Workspace
    BY DEF StatusToWrite, TypeOK, Workspace, Conditions
  <2>2. ObjectQuiet
    BY <1>3, <1>10, <2>1, PutStatusParts DEF statusWrite
  <2>3. EndPass \/ (pc' \notin Early /\ UNCHANGED inst)
    BY <1>10 DEF statusWrite, Goto, local, Early, Building
  <2> QED BY <1>2, <1>10, <2>2, <2>3 DEF statusWrite, counters
<1>11. CASE readyTime
  <2> DEFINE o == [cache EXCEPT !.timed = TRUE]
  <2>1. /\ o \in Workspace /\ o.uid = cache.uid /\ o.gen = cache.gen
        /\ o.reset = cache.reset
    BY DEF TypeOK, Workspace
  <2>2. UNCHANGED object \/ (Accepted(cache) /\ PutObject(o))
    BY <1>11 DEF readyTime
  <2> HIDE DEF o
  <2>3. Accepted(cache) => cache = ws
    BY DEF Accepted, VersionsAgree, SameVersion
  <2>4. ObjectQuiet
    BY <1>3, <2>1, <2>2, <2>3, PutObjectParts DEF ObjectQuiet
  <2> QED BY <1>2, <1>11, <2>4 DEF readyTime, counters
<1>12. CASE setNotReadyCondition
  <2>1. why \in Conditions
    BY DEF TypeOK, Conditions
  <2>2. [inst EXCEPT !.cond = why] \in Workspace
    BY <2>1 DEF TypeOK, Workspace
  <2>3. ObjectQuiet
    BY <1>3, <1>12, <2>2, PutStatusParts DEF setNotReadyCondition
  <2> QED BY <1>2, <1>12, <2>3 DEF setNotReadyCondition, counters
<1> QED BY <1>1, <1>5, <1>6, <1>7, <1>8, <1>9, <1>10, <1>11, <1>12 DEF Pass

LEMMA NextGeneration ==
  ASSUME TypeOK, TypeOK', IdentityInvariant, GenerationInvariant, [Next]_vars
  PROVE  GenerationInvariant'
<1> USE DEF IdentityInvariant
<1>n. Counted /\ Counted'
  BY Numbers
<1>1. CASE Pass
  BY <1>1, PassGeneration
<1>2. CASE DeliverWorkspace
  BY <1>2, DeliverGeneration
<1>3. CASE CreateWorkspace
  BY <1>3, CreateGeneration
<1>4. ASSUME ObjectQuiet, UNCHANGED <<cache, vm, lastGen, pc, inst>>
      PROVE  GenerationInvariant'
  BY <1>4, QuietStep DEF VMQuiet, PassQuiet
<1>5. CASE RequestEpoch \/ RequestReset \/ StopOrStart \/ DeleteWorkspace
  <2>1. ws.phase = "live"
    BY <1>5 DEF RequestEpoch, RequestReset, StopOrStart, DeleteWorkspace
  <2>2. ASSUME NEW o \in Workspace, UserWrites(o), o.uid = ws.uid, o.gen = ws.gen,
               ws.reset => o.reset
        PROVE  GenerationInvariant'
    <3>1. /\ ws' = [o EXCEPT !.rv = ws.rv + 1] /\ feed' = feed \cup {ws'}
          /\ UNCHANGED <<cache, vm, lastGen, pc, inst>>
      BY <2>2 DEF UserWrites, rest, local
    <3>2. /\ ws'.rv = ws.rv + 1 /\ ws'.uid = o.uid /\ ws'.gen = o.gen
          /\ ws'.reset = o.reset
      BY <3>1 DEF Workspace
    <3>3. ObjectQuiet
      BY <2>1, <2>2, <3>1, <3>2 DEF ObjectQuiet, Written
    <3> QED BY <1>4, <3>1, <3>3
  <2>3. ws \in Workspace
    BY DEF TypeOK
  <2>4. CASE RequestEpoch
    <3>1. PICK e \in 0..MaxEpoch : UserWrites([ws EXCEPT !.epoch = e])
      BY <2>4 DEF RequestEpoch
    <3> DEFINE o == [ws EXCEPT !.epoch = e]
    <3>2. o \in Workspace /\ o.uid = ws.uid /\ o.gen = ws.gen /\ o.reset = ws.reset
      BY <2>3 DEF Workspace
    <3> QED BY <2>2, <3>1, <3>2
  <2>5. CASE RequestReset
    <3> DEFINE o == [ws EXCEPT !.reset = TRUE]
    <3>2. o \in Workspace /\ o.uid = ws.uid /\ o.gen = ws.gen /\ o.reset
      BY <2>3 DEF Workspace
    <3> QED BY <2>2, <2>5, <3>2 DEF RequestReset
  <2>6. CASE StopOrStart
    <3>1. PICK b \in BOOLEAN : UserWrites([ws EXCEPT !.stopped = b])
      BY <2>6, Zenon DEF StopOrStart
    <3> DEFINE o == [ws EXCEPT !.stopped = b]
    <3>2. o \in Workspace /\ o.uid = ws.uid /\ o.gen = ws.gen /\ o.reset = ws.reset
      BY <2>3 DEF Workspace
    <3> QED BY <2>2, <3>1, <3>2
  <2>7. CASE DeleteWorkspace
    <3>1. PICK p \in {"terminating", "gone"} : UserWrites([ws EXCEPT !.phase = p])
      BY <2>7 DEF DeleteWorkspace
    <3> DEFINE o == [ws EXCEPT !.phase = p]
    <3>2. o \in Workspace /\ o.uid = ws.uid /\ o.gen = ws.gen /\ o.reset = ws.reset
      BY <2>3 DEF Workspace
    <3> QED BY <2>2, <3>1, <3>2
  <2> QED BY <1>5, <2>4, <2>5, <2>6, <2>7
<1>6. CASE RemoveWorkspace
  <2>1. /\ ws' = [ws EXCEPT !.phase = "gone", !.rv = ws.rv + 1]
        /\ feed' = feed \cup {ws'} /\ UNCHANGED <<cache, vm, lastGen, pc, inst>>
    BY <1>6 DEF RemoveWorkspace, rest, local
  <2>2. /\ ws'.rv = ws.rv + 1 /\ ws'.uid = ws.uid /\ ws'.gen = ws.gen
        /\ ws'.reset = ws.reset /\ ws'.phase = "gone"
    BY <2>1 DEF TypeOK, Workspace
  <2>3. ObjectQuiet
    BY <2>1, <2>2 DEF ObjectQuiet, Written
  <2> QED BY <1>4, <2>1, <2>3
<1>7. CASE ApiError \/ Crash
  <2>1. UNCHANGED <<ws, feed, cache, vm, lastGen>>
    BY <1>7 DEF ApiError, Crash, object
  <2>2. EndPass \/ (pc \in Steps /\ pc' = "setNotReady" /\ UNCHANGED inst)
    BY <1>7 DEF ApiError, Crash, Fail
  <2>3. PassQuiet
    BY <1>n, <2>2 DEF PassQuiet, Counted, Numbered, EndPass, Early, Building, Blank,
       NewWorkspace, Steps
  <2> QED BY <2>1, <2>3, QuietStep DEF ObjectQuiet, Written, VMQuiet
<1>8. CASE CollectGarbage \/ RemoveVM
  <2>1. UNCHANGED <<ws, feed, cache, lastGen, pc, inst>>
    BY <1>8 DEF CollectGarbage, RemoveVM, object, counters, local
  <2>2. VMQuiet
    BY <1>8 DEF CollectGarbage, RemoveVM, VMQuiet, TypeOK, VirtualMachine
  <2> QED BY <2>1, <2>2, QuietStep DEF ObjectQuiet, Written, PassQuiet
<1>9. CASE RetireSecret \/ DeliverPod \/ StartGuest \/ GuestRuns \/ StopGuest
           \/ CrashGuest \/ UNCHANGED vars
  <2>1. UNCHANGED <<ws, feed, cache, vm, lastGen, pc, inst>>
    BY <1>9 DEF RetireSecret, DeliverPod, StartGuest, GuestRuns, StopGuest,
       CrashGuest, vars, object, counters, local
  <2> QED BY <1>4, <2>1 DEF ObjectQuiet, Written
<1> QED
  BY <1>1, <1>2, <1>3, <1>5, <1>6, <1>7, <1>8, <1>9 DEF Next, User

(* A reset and the generation agree about every root, from whatever        *)
(* version a pass starts (handleReset, ensureLinuxAgentGeneration).        *)
THEOREM GenerationInvariantHolds == Spec => []GenerationInvariant
<1>1. Init => GenerationInvariant
  BY InitGeneration
<1>2. TypeOK /\ TypeOK' /\ IdentityInvariant /\ GenerationInvariant /\ [Next]_vars
        => GenerationInvariant'
  BY NextGeneration
<1> QED BY <1>1, <1>2, IdentityHolds, PTL DEF Spec

(* A living VM carries the agent generation of its Workspace.              *)
THEOREM AgentGenerationBoundHolds == Spec => []AgentGenerationBound
<1>1. GenerationInvariant => AgentGenerationBound
  BY DEF GenerationInvariant, GenerationsAgree, AgentGenerationBound
<1> QED BY <1>1, GenerationInvariantHolds, PTL

(* Only the step that consumes it drops a reset request.                   *)
LEMMA RequestKept ==
  ASSUME TypeOK, TypeOK', IdentityInvariant, GenerationInvariant, [Next]_vars,
         ~clearReset, ws'.uid = ws.uid, ws.reset
  PROVE  ws'.reset
<1> USE DEF IdentityInvariant
<1>1. UNCHANGED ws => ws'.reset
  OBVIOUS
<1>2. ASSUME NEW o \in Workspace, PutStatus(o)
      PROVE  ws'.reset
  BY <1>2, PutStatusParts DEF ObjectQuiet
<1>3. CASE Reconcile \/ handleReset \/ reconcileVirtualMachine \/ observeGuest
           \/ epochRead \/ bootstrapRead \/ bootstrapCreate
  BY <1>1, <1>3 DEF Reconcile, handleReset, reconcileVirtualMachine, observeGuest,
     epochRead, bootstrapRead, bootstrapCreate, object
<1>4. CASE ensureLinuxAgentGeneration
  <2>1. CASE UNCHANGED object
    BY <1>1, <2>1 DEF object
  <2>2. CASE Accepted(inst) /\ PutObject([inst EXCEPT !.gen = lastGen + 1])
    <3> DEFINE o == [inst EXCEPT !.gen = lastGen + 1]
    <3>1. inst = ws
      BY <1>4, <2>2, UpToDate DEF ensureLinuxAgentGeneration
    <3>2. o \in Workspace /\ o.reset = inst.reset
      BY DEF TypeOK, Workspace
    <3>3. PutObject(o)
      BY <2>2
    <3> HIDE DEF o
    <3> QED BY <3>1, <3>2, <3>3, PutObjectParts
  <2> QED BY <1>4, <2>1, <2>2 DEF ensureLinuxAgentGeneration
<1>5. CASE epochWrite
  <2>1. IdentityToRecord(fresh) \in Identity
    BY DEF IdentityToRecord, EpochToRecord, Identity, TypeOK, Workspace
  <2>2. [fresh EXCEPT !.mgmt = IdentityToRecord(fresh)] \in Workspace
    BY <2>1 DEF TypeOK, Workspace
  <2> QED BY <1>1, <1>2, <1>5, <2>2 DEF epochWrite, object
<1>6. CASE statusWrite
  <2>1. StatusToWrite(cache) \in Workspace
    BY DEF StatusToWrite, TypeOK, Workspace, Conditions
  <2> QED BY <1>1, <1>2, <1>6, <2>1 DEF statusWrite, object
<1>7. CASE readyTime
  <2> DEFINE o == [cache EXCEPT !.timed = TRUE]
  <2>1. o \in Workspace /\ o.reset = cache.reset
    BY DEF TypeOK, Workspace
  <2>2. UNCHANGED object \/ (Accepted(cache) /\ PutObject(o))
    BY <1>7 DEF readyTime
  <2> HIDE DEF o
  <2>3. Accepted(cache) => cache = ws
    BY DEF Accepted, VersionsAgree, SameVersion
  <2> QED BY <1>1, <2>1, <2>2, <2>3, PutObjectParts DEF object
<1>8. CASE setNotReadyCondition
  <2>1. why \in Conditions
    BY DEF TypeOK, Conditions
  <2>2. [inst EXCEPT !.cond = why] \in Workspace
    BY <2>1 DEF TypeOK, Workspace
  <2> QED BY <1>1, <1>2, <1>8, <2>2 DEF setNotReadyCondition, object
<1>9. CASE User
  <2>1. CASE RetireSecret
    BY <1>1, <2>1 DEF RetireSecret, object
  <2>2. CASE CreateWorkspace
    <3>1. ws'.uid = ws.uid + 1
      BY <2>2 DEF CreateWorkspace, UserWrites, NewWorkspace
    <3> QED BY <3>1 DEF TypeOK, Workspace
  <2>3. CASE RequestEpoch
    BY <2>3 DEF RequestEpoch, UserWrites, TypeOK, Workspace
  <2>4. CASE RequestReset
    BY <2>4 DEF RequestReset, UserWrites, TypeOK, Workspace
  <2>5. CASE StopOrStart
    <3>1. PICK b \in BOOLEAN : UserWrites([ws EXCEPT !.stopped = b])
      BY <2>5, Zenon DEF StopOrStart
    <3> QED BY <3>1 DEF UserWrites, TypeOK, Workspace
  <2>6. CASE DeleteWorkspace
    BY <2>6 DEF DeleteWorkspace, UserWrites, TypeOK, Workspace
  <2> QED BY <1>9, <2>1, <2>2, <2>3, <2>4, <2>5, <2>6 DEF User
<1>10. CASE RemoveWorkspace
  BY <1>10 DEF RemoveWorkspace, TypeOK, Workspace
<1>11. CASE ApiError \/ Crash \/ DeliverWorkspace \/ DeliverPod \/ CollectGarbage
            \/ StartGuest \/ GuestRuns \/ StopGuest \/ CrashGuest \/ RemoveVM
            \/ UNCHANGED vars
  BY <1>1, <1>11 DEF ApiError, Crash, DeliverWorkspace, DeliverPod, CollectGarbage,
     StartGuest, GuestRuns, StopGuest, CrashGuest, RemoveVM, vars, object
<1> QED
  BY <1>3, <1>4, <1>5, <1>6, <1>7, <1>8, <1>9, <1>10, <1>11 DEF Next, Pass

(* A reset request is dropped only when no VM is left (handleReset).       *)
THEOREM ResetOutlivesVMHolds == Spec => ResetOutlivesVM
<1> DEFINE A == ws.reset /\ ~ws'.reset /\ ws'.uid = ws.uid => ~vm.live
<1>1. ASSUME TypeOK, TypeOK', IdentityInvariant, GenerationInvariant, [Next]_vars
      PROVE  A
  <2>1. CASE clearReset
    BY <1>1, <2>1 DEF clearReset, GenerationInvariant, PassBuilds
  <2>2. CASE ~clearReset
    BY <1>1, <2>2, RequestKept
  <2> QED BY <2>1, <2>2
<1>2. TypeOK /\ TypeOK' /\ IdentityInvariant /\ GenerationInvariant /\ [Next]_vars
        => [A]_vars
  BY <1>1
<1> HIDE DEF A
<1>3. Spec => [][A]_vars
  BY <1>2, IdentityHolds, GenerationInvariantHolds, PTL DEF Spec
<1> QED BY <1>3 DEF A, ResetOutlivesVM

(* A Workspace's new root never carries the generation of its previous     *)
(* one, however late the watch and however often a pass is repeated.       *)
THEOREM AgentGenerationFreshHolds == Spec => AgentGenerationFresh
<1> DEFINE A == (/\ vm'.uid # vm.uid
                 /\ vm'.owner = vm.owner
                 /\ vm.owner = ws.uid
                 /\ ws.phase = "live")
                   => vm'.gen # vm.gen
<1>1. ASSUME TypeOK, GenerationInvariant, [Next]_vars
      PROVE  A
  <2> USE <1>1
  <2>1. CASE reconcileVirtualMachine /\ createVirtualMachine
    <3>1. /\ pc = "reconcileVM" /\ ~vm.live
          /\ vm'.owner = inst.uid /\ vm'.gen = inst.gen
      BY <2>1 DEF reconcileVirtualMachine, createVirtualMachine, DesiredVM
    <3>2. inst.uid = ws.uid => inst.gen = ws.gen
      BY <3>1 DEF GenerationInvariant, PassBuilds, Building
    <3>3. vm.owner = ws.uid /\ ws.phase = "live" => vm.gen # ws.gen
      BY <3>1 DEF GenerationInvariant, ResetsAgree, Building
    <3> QED BY <3>1, <3>2, <3>3
  <2>2. CASE ~(reconcileVirtualMachine /\ createVirtualMachine)
    <3>1. vm'.uid = vm.uid
      <4>1. CASE reconcileVirtualMachine
        BY <2>2, <4>1 DEF reconcileVirtualMachine, updateVirtualMachine, TypeOK,
           VirtualMachine
      <4>2. CASE handleReset \/ CollectGarbage \/ RemoveVM
        BY <4>2 DEF handleReset, CollectGarbage, RemoveVM, TypeOK, VirtualMachine
      <4>3. CASE Reconcile \/ clearReset \/ ensureLinuxAgentGeneration
                 \/ observeGuest \/ epochRead \/ epochWrite \/ bootstrapRead
                 \/ bootstrapCreate \/ statusWrite \/ readyTime
                 \/ setNotReadyCondition
        BY <4>3 DEF Reconcile, clearReset, ensureLinuxAgentGeneration,
           observeGuest, epochRead, epochWrite, bootstrapRead, bootstrapCreate,
           statusWrite, readyTime, setNotReadyCondition
      <4>4. CASE ApiError \/ Crash \/ User \/ DeliverWorkspace \/ DeliverPod
                 \/ RemoveWorkspace \/ StartGuest \/ GuestRuns \/ StopGuest
                 \/ CrashGuest \/ UNCHANGED vars
        BY <4>4 DEF ApiError, Crash, User, RequestEpoch, RequestReset, StopOrStart,
           DeleteWorkspace, CreateWorkspace, RetireSecret, UserWrites,
           DeliverWorkspace, DeliverPod, RemoveWorkspace, StartGuest, GuestRuns,
           StopGuest, CrashGuest, vars, rest
      <4> QED BY <4>1, <4>2, <4>3, <4>4 DEF Next, Pass
    <3> QED BY <3>1
  <2> QED BY <2>1, <2>2
<1>2. TypeOK /\ GenerationInvariant /\ [Next]_vars => [A]_vars
  BY <1>1
<1> HIDE DEF A
<1>3. Spec => [][A]_vars
  BY <1>2, IdentityHolds, GenerationInvariantHolds, PTL DEF Spec
<1> QED BY <1>3 DEF A, AgentGenerationFresh

=============================================================================
