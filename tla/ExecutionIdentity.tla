-------------------------- MODULE ExecutionIdentity --------------------------
(***************************************************************************)
(* One reconciled Linux VM Workspace, from the informer cache the pass     *)
(* starts from to the status it leaves behind: reset, the guest agent      *)
(* generation, the KubeVirt VirtualMachine, the execution epoch and the    *)
(* management bootstrap Secret.                                            *)
(*                                                                         *)
(* The API server keeps the Workspace under optimistic concurrency: an     *)
(* update carries the resourceVersion it was read at and is refused when   *)
(* the object has moved on.  The reconciler reads the Workspace through a  *)
(* cache fed by a watch, which lags but never goes back, and live where    *)
(* the code uses APIReader or an unstructured object.  One worker runs one *)
(* pass at a time; users, KubeVirt, garbage collection and the watch       *)
(* interleave with its steps.                                              *)
(***************************************************************************)
EXTENDS Integers

CONSTANTS
    NoIdentity,       \* status.managementExecution when absent
    BootstrapOptIn,   \* a ManagementBootstrapNamespace is configured
    RequestRatchets,  \* the CRD rule "request cannot decrease" is enforced
    MaxEpoch,         \* largest revocation epoch a user asks for
    MaxDeletes,       \* deletions of the Workspace
    MaxVMs,           \* VirtualMachine objects created
    MaxEdits,         \* writes by users
    MaxFaults         \* crashes, failed API calls and guest crashes

Identity == [vm : Nat, epoch : Nat]

ASSUME ConstantsAssumption ==
    /\ NoIdentity \notin Identity
    /\ BootstrapOptIn \in BOOLEAN
    /\ RequestRatchets \in BOOLEAN
    /\ MaxEpoch \in Nat
    /\ MaxDeletes \in Nat
    /\ MaxVMs \in Nat
    /\ MaxEdits \in Nat
    /\ MaxFaults \in Nat

VARIABLES
    ws,        \* the Workspace object in the API server
    cache,     \* the version of it the informer cache holds
    feed,      \* later versions the watch has still to deliver
    vm,        \* the VirtualMachine object (the last one, when none exists)
    guest,     \* its VMI and launcher pod: "none", "starting", "running"
    podSeen,   \* the launcher pod in the informer cache
    secrets,   \* management bootstrap Secrets
    lastGen,   \* agent generations handed out so far
    edits,     \* writes by users so far
    faults,    \* faults so far
    pc,        \* the step the pass is at, "idle" between passes
    inst,      \* the pass's in-memory Workspace
    fresh,     \* the Workspace read live inside the identity steps
    seenVM,    \* UID of the VM this pass found or created
    derived,   \* the readiness and conditions the pass has derived
    why        \* the step that failed, for the Ready=False condition

vars == <<ws, cache, feed, vm, guest, podSeen, secrets, lastGen, edits,
          faults, pc, inst, fresh, seenVM, derived, why>>

object == <<ws, feed>>
counters == <<lastGen, edits, faults>>
local == <<inst, fresh, seenVM, derived, why>>

Steps == {"handleReset", "clearReset", "ensureAgentGeneration",
          "reconcileVM", "observeGuest", "epochRead", "epochWrite",
          "bootstrapRead", "bootstrapCreate", "statusWrite", "readyTime"}

(* Conditions of the status: none, those mirrored from the pod, or the     *)
(* Ready=False left by the step that failed.                               *)
Conditions == {"none", "pod"} \cup Steps

Workspace ==
    [phase : {"live", "terminating", "gone"}, uid : Nat, rv : Nat,
     epoch : Nat, reset : BOOLEAN, stopped : BOOLEAN, gen : Nat,
     timed : BOOLEAN,
     mgmt : Identity \cup {NoIdentity}, ready : BOOLEAN, cond : Conditions]

VirtualMachine ==
    [live : BOOLEAN, uid : Nat, owner : Nat, gen : Nat, running : BOOLEAN,
     deleting : BOOLEAN]

Secret == [ws : Nat, vm : Nat, epoch : Nat]

TypeOK ==
    /\ ws \in Workspace
    /\ cache \in Workspace
    /\ feed \subseteq Workspace
    /\ vm \in VirtualMachine
    /\ guest \in {"none", "starting", "running"}
    /\ podSeen \in {"none", "starting", "running"}
    /\ secrets \subseteq Secret
    /\ lastGen \in Nat
    /\ edits \in Nat
    /\ faults \in Nat
    /\ pc \in {"idle", "setNotReady"} \cup Steps
    /\ inst \in Workspace
    /\ fresh \in Workspace
    /\ seenVM \in Nat
    /\ derived \in [ready : BOOLEAN, cond : {"none", "pod"}]
    /\ why \in {"none"} \cup Steps

NewWorkspace(uid, rv, epoch) ==
    [phase |-> "live", uid |-> uid, rv |-> rv, epoch |-> epoch,
     reset |-> FALSE, stopped |-> FALSE, gen |-> 0, timed |-> FALSE,
     mgmt |-> NoIdentity, ready |-> FALSE, cond |-> "none"]

Blank == [NewWorkspace(0, 0, 0) EXCEPT !.phase = "gone"]

Init ==
    /\ ws = NewWorkspace(1, 1, 0)
    /\ cache = Blank
    /\ feed = {ws}
    /\ vm = [live |-> FALSE, uid |-> 0, owner |-> 0, gen |-> 0,
             running |-> FALSE, deleting |-> FALSE]
    /\ guest = "none"
    /\ podSeen = "none"
    /\ secrets = {}
    /\ lastGen = 0
    /\ edits = 0
    /\ faults = 0
    /\ pc = "idle"
    /\ inst = Blank
    /\ fresh = Blank
    /\ seenVM = 0
    /\ derived = [ready |-> FALSE, cond |-> "none"]
    /\ why = "none"

-----------------------------------------------------------------------------
(* The API server's side of a write.                                       *)

(* An update is accepted when it carries the current resourceVersion.      *)
Accepted(o) == ws.phase # "gone" /\ o.rv = ws.rv

(* A version is only made when something changes, and then announced.      *)
Store(o) ==
    IF o = ws
    THEN UNCHANGED object
    ELSE /\ ws' = [o EXCEPT !.rv = ws.rv + 1]
         /\ feed' = feed \cup {ws'}

(* The main resource takes spec and metadata and keeps the status.         *)
PutObject(o) ==
    Store([o EXCEPT !.phase = ws.phase, !.mgmt = ws.mgmt,
                    !.ready = ws.ready, !.cond = ws.cond])

(* The status subresource takes the status and keeps the rest.             *)
PutStatus(o) ==
    Store([ws EXCEPT !.mgmt = o.mgmt, !.ready = o.ready, !.cond = o.cond])

-----------------------------------------------------------------------------
(* The pass.                                                               *)

EndPass ==
    /\ pc' = "idle"
    /\ inst' = Blank
    /\ fresh' = Blank
    /\ seenVM' = 0
    /\ derived' = [ready |-> FALSE, cond |-> "none"]
    /\ why' = "none"

Fail(step) ==
    /\ pc' = "setNotReady"
    /\ why' = step
    /\ UNCHANGED <<inst, fresh, seenVM, derived>>

Goto(step) == pc' = step

(* Reconcile: the cached Workspace decides between reset and workload.     *)
Reconcile ==
    /\ pc = "idle"
    /\ cache.phase = "live"
    /\ inst' = cache
    /\ Goto(IF cache.reset THEN "handleReset" ELSE "ensureAgentGeneration")
    /\ UNCHANGED <<object, cache, vm, guest, podSeen, secrets, counters, fresh, seenVM, derived, why>>

(* Mutant: a VM that is already being deleted counts as gone.              *)
handleResetEarly ==
    /\ pc = "handleReset"
    /\ IF vm.live /\ ~vm.deleting
       THEN /\ vm' = [vm EXCEPT !.deleting = TRUE]
            /\ EndPass
       ELSE /\ Goto("clearReset")
            /\ UNCHANGED <<vm, local>>
    /\ UNCHANGED <<object, cache, guest, podSeen, secrets, counters>>

(* handleReset: delete the VM if it is there and wait for it to be gone;   *)
(* the annotation is kept meanwhile and the pass ends.                     *)
handleReset ==
    /\ pc = "handleReset"
    /\ IF vm.live
       THEN /\ vm' = [vm EXCEPT !.deleting = TRUE]
            /\ EndPass
       ELSE /\ Goto("clearReset")
            /\ UNCHANGED <<vm, local>>
    /\ UNCHANGED <<object, cache, guest, podSeen, secrets, counters>>

(* Mutants: the agent generation, or the reset request itself, survives.   *)
ResetKeepsGeneration(o) == [o EXCEPT !.reset = FALSE, !.timed = FALSE]
ResetKeepsRequest(o) == [o EXCEPT !.gen = 0, !.timed = FALSE]

(* What handleReset writes back once the VM is gone.                       *)
ResetConsumed(o) ==
    [o EXCEPT !.reset = FALSE, !.gen = 0, !.timed = FALSE]

clearReset ==
    /\ pc = "clearReset"
    /\ IF Accepted(inst)
       THEN PutObject(ResetConsumed(inst))
       ELSE UNCHANGED object
    /\ EndPass
    /\ UNCHANGED <<cache, vm, guest, podSeen, secrets, counters>>

(* Mutant: a new generation on every pass.                                 *)
ensureLinuxAgentGenerationAlways ==
    /\ pc = "ensureAgentGeneration"
    /\ IF Accepted(inst)
       THEN /\ PutObject([inst EXCEPT !.gen = lastGen + 1])
            /\ lastGen' = lastGen + 1
            /\ inst' = ws'
            /\ Goto("reconcileVM")
            /\ UNCHANGED <<fresh, seenVM, derived, why>>
       ELSE /\ Fail("ensureAgentGeneration")
            /\ UNCHANGED <<object, lastGen>>
    /\ UNCHANGED <<cache, vm, guest, podSeen, secrets, edits, faults>>

(* ensureLinuxAgentGeneration: one generation per root incarnation, fresh  *)
(* when the Workspace has none.                                            *)
ensureLinuxAgentGeneration ==
    /\ pc = "ensureAgentGeneration"
    /\ IF inst.gen # 0
       THEN /\ Goto("reconcileVM")
            /\ UNCHANGED <<object, lastGen, local>>
       ELSE /\ IF Accepted(inst)
               THEN /\ PutObject([inst EXCEPT !.gen = lastGen + 1])
                    /\ lastGen' = lastGen + 1
                    /\ inst' = ws'
                    /\ Goto("reconcileVM")
                    /\ UNCHANGED <<fresh, seenVM, derived, why>>
               ELSE /\ Fail("ensureAgentGeneration")
                    /\ UNCHANGED <<object, lastGen>>
    /\ UNCHANGED <<cache, vm, guest, podSeen, secrets, edits, faults>>

(* generateVirtualMachine: the parts of the spec this model tells apart.   *)
DesiredVM(o) == [gen |-> o.gen, running |-> ~o.stopped]

virtualMachineNeedsUpdate(o) ==
    vm.gen # DesiredVM(o).gen \/ vm.running # DesiredVM(o).running

createVirtualMachine ==
    /\ ~vm.live
    /\ vm.uid < MaxVMs
    /\ vm' = [live |-> TRUE, uid |-> vm.uid + 1, owner |-> inst.uid,
              gen |-> DesiredVM(inst).gen,
              running |-> DesiredVM(inst).running, deleting |-> FALSE]
    /\ seenVM' = vm.uid + 1
    /\ Goto("observeGuest")
    /\ UNCHANGED <<inst, fresh, derived, why>>

(* updateVirtualMachine re-reads the VM and replaces its spec, unless it   *)
(* is being deleted.                                                       *)
updateVirtualMachine ==
    /\ vm.live
    /\ \/ /\ ~virtualMachineNeedsUpdate(inst)
          /\ seenVM' = vm.uid
          /\ Goto("observeGuest")
          /\ UNCHANGED <<vm, inst, fresh, derived, why>>
       \/ /\ virtualMachineNeedsUpdate(inst)
          /\ ~vm.deleting
          /\ vm' = [vm EXCEPT !.gen = DesiredVM(inst).gen,
                              !.running = DesiredVM(inst).running]
          /\ seenVM' = vm.uid
          /\ Goto("observeGuest")
          /\ UNCHANGED <<inst, fresh, derived, why>>
       \/ /\ virtualMachineNeedsUpdate(inst)
          /\ vm.deleting
          /\ Fail("reconcileVM")
          /\ UNCHANGED vm

(* The Workspace is looked up once more just before, and must be there.    *)
reconcileVirtualMachine ==
    /\ pc = "reconcileVM"
    /\ \/ createVirtualMachine
       \/ updateVirtualMachine
       \/ ws.phase = "gone" /\ Fail("reconcileVM") /\ UNCHANGED vm
    /\ UNCHANGED <<object, cache, guest, podSeen, secrets, counters>>

(* updateWorkspaceStatus writes only when the derived status differs from  *)
(* the one the pass holds.                                                 *)
AfterReadiness(o, d) ==
    IF o.ready # d.ready \/ o.cond # d.cond THEN "statusWrite" ELSE "readyTime"

(* The launcher pod comes from the cache, the VMI phase from the API.      *)
observeGuest ==
    /\ pc = "observeGuest"
    /\ LET cond == IF podSeen = "none" THEN "none" ELSE "pod"
           up == podSeen = "running" /\ guest = "running"
       IN /\ derived' = [ready |-> FALSE, cond |-> cond]
          /\ Goto(IF up THEN "epochRead" ELSE AfterReadiness(inst, derived'))
    /\ UNCHANGED <<object, cache, vm, guest, podSeen, secrets, counters, inst, fresh, seenVM, why>>

managementVMCurrent(o) ==
    /\ vm.live
    /\ vm.running
    /\ vm.uid = seenVM
    /\ ~vm.deleting
    /\ vm.owner = o.uid

(* reconcileExecutionEpoch, first half: Workspace and VM are read live.    *)
epochRead ==
    /\ pc = "epochRead"
    /\ IF ws.phase = "live" /\ ws.uid = inst.uid /\ managementVMCurrent(ws)
       THEN /\ fresh' = ws
            /\ Goto("epochWrite")
            /\ UNCHANGED <<inst, seenVM, derived, why>>
       ELSE Fail("epochRead")
    /\ UNCHANGED <<object, cache, vm, guest, podSeen, secrets, counters>>

(* Mutants: the request alone decides; a bound VM keeps its epoch.         *)
EpochRequested(o) == o.epoch
EpochOfFirstBinding(o) ==
    IF o.mgmt # NoIdentity THEN o.mgmt.epoch ELSE o.epoch

(* The request, never below the epoch the status already holds.            *)
EpochToRecord(o) ==
    IF o.mgmt # NoIdentity /\ o.mgmt.epoch > o.epoch
    THEN o.mgmt.epoch
    ELSE o.epoch

IdentityToRecord(o) == [vm |-> seenVM, epoch |-> EpochToRecord(o)]

AfterEpoch(d) ==
    IF BootstrapOptIn THEN "bootstrapRead" ELSE AfterReadiness(inst, d)

(* Second half: a guarded status update, and the result copied into the    *)
(* pass's Workspace together with its resourceVersion.                     *)
epochWrite ==
    /\ pc = "epochWrite"
    /\ \/ /\ fresh.mgmt = IdentityToRecord(fresh)
          /\ inst' = [inst EXCEPT !.mgmt = fresh.mgmt, !.rv = fresh.rv]
          /\ derived' = [derived EXCEPT !.ready = ~BootstrapOptIn]
          /\ Goto(AfterEpoch(derived'))
          /\ UNCHANGED <<object, fresh, seenVM, why>>
       \/ /\ fresh.mgmt # IdentityToRecord(fresh)
          /\ Accepted(fresh)
          /\ PutStatus([fresh EXCEPT !.mgmt = IdentityToRecord(fresh)])
          /\ inst' = [inst EXCEPT !.mgmt = ws'.mgmt, !.rv = ws'.rv]
          /\ derived' = [derived EXCEPT !.ready = ~BootstrapOptIn]
          /\ Goto(AfterEpoch(derived'))
          /\ UNCHANGED <<fresh, seenVM, why>>
       \/ /\ fresh.mgmt # IdentityToRecord(fresh)
          /\ ~Accepted(fresh)
          /\ Fail("epochWrite")
          /\ UNCHANGED object
    /\ UNCHANGED <<cache, vm, guest, podSeen, secrets, counters>>

managementLifecyclePending(o) == o.reset \/ o.stopped

(* The live identity must be settled: this Workspace, this VM, no reset or *)
(* stop pending, and no epoch requested beyond the recorded one.           *)
BootstrapAllowed(o) ==
    /\ o.phase = "live"
    /\ o.uid = inst.uid
    /\ ~managementLifecyclePending(o)
    /\ managementVMCurrent(o)
    /\ o.mgmt # NoIdentity
    /\ o.mgmt.vm = vm.uid
    /\ o.epoch <= o.mgmt.epoch

(* Mutant: the Secret carries the requested epoch.                         *)
BootstrapSecretRequested(o) == [ws |-> o.uid, vm |-> seenVM, epoch |-> o.epoch]

BootstrapSecret(o) == [ws |-> o.uid, vm |-> seenVM, epoch |-> o.mgmt.epoch]

(* reconcileManagementBootstrap up to the lookup of the Secret.            *)
bootstrapRead ==
    /\ pc = "bootstrapRead"
    /\ \/ /\ BootstrapAllowed(ws)
          /\ BootstrapSecret(ws) \in secrets
          /\ derived' = [derived EXCEPT !.ready = TRUE]
          /\ Goto(AfterReadiness(inst, derived'))
          /\ UNCHANGED <<inst, fresh, seenVM, why>>
       \/ /\ BootstrapAllowed(ws)
          /\ BootstrapSecret(ws) \notin secrets
          /\ fresh' = ws
          /\ Goto("bootstrapCreate")
          /\ UNCHANGED <<inst, seenVM, derived, why>>
       \/ /\ ~BootstrapAllowed(ws)
          /\ Fail("bootstrapRead")
    /\ UNCHANGED <<object, cache, vm, guest, podSeen, secrets, counters>>

bootstrapCreate ==
    /\ pc = "bootstrapCreate"
    /\ secrets' = secrets \cup {BootstrapSecret(fresh)}
    /\ derived' = [derived EXCEPT !.ready = TRUE]
    /\ Goto(AfterReadiness(inst, derived'))
    /\ UNCHANGED <<object, cache, vm, guest, podSeen, counters,
                   inst, fresh, seenVM, why>>

(* Mutant: the identity the pass started from is written back.             *)
StatusFromPass(latest) ==
    [latest EXCEPT !.ready = derived.ready, !.cond = derived.cond,
                   !.mgmt = inst.mgmt]

(* The status a pass writes: what it derived, and the execution identity   *)
(* of the version it is about to replace.                                  *)
StatusToWrite(latest) ==
    [latest EXCEPT !.ready = derived.ready, !.cond = derived.cond]

(* updateWorkspaceStatus: the latest version is re-read from the cache on  *)
(* every try; a conflict is retried (no step) until the retries run out.   *)
statusWrite ==
    /\ pc = "statusWrite"
    /\ LET new == StatusToWrite(cache)
       IN \/ /\ Accepted(cache)
             /\ PutStatus(new)
             /\ Goto("readyTime")
             /\ UNCHANGED local
          \/ /\ ~Accepted(cache)
             /\ EndPass
             /\ UNCHANGED object
    /\ UNCHANGED <<cache, vm, guest, podSeen, secrets, counters>>

(* The ready-time marker: a guarded update of the cached version, skipped  *)
(* once recorded or half an hour after creation.                           *)
readyTime ==
    /\ pc = "readyTime"
    /\ \/ /\ derived.ready
          /\ ~inst.timed
          /\ Accepted(cache)
          /\ ~cache.timed
          /\ PutObject([cache EXCEPT !.timed = TRUE])
       \/ UNCHANGED object
    /\ EndPass
    /\ UNCHANGED <<cache, vm, guest, podSeen, secrets, counters>>

(* setNotReadyCondition: best effort, from the pass's own Workspace.       *)
setNotReadyCondition ==
    /\ pc = "setNotReady"
    /\ IF inst.cond # why /\ Accepted(inst)
       THEN PutStatus([inst EXCEPT !.cond = why])
       ELSE UNCHANGED object
    /\ EndPass
    /\ UNCHANGED <<cache, vm, guest, podSeen, secrets, counters>>

Pass ==
    \/ Reconcile
    \/ handleReset
    \/ clearReset
    \/ ensureLinuxAgentGeneration
    \/ reconcileVirtualMachine
    \/ observeGuest
    \/ epochRead
    \/ epochWrite
    \/ bootstrapRead
    \/ bootstrapCreate
    \/ statusWrite
    \/ readyTime
    \/ setNotReadyCondition

-----------------------------------------------------------------------------
(* Faults: an API call of the pass fails, or the process restarts.         *)

ApiError ==
    /\ faults < MaxFaults
    /\ faults' = faults + 1
    /\ \/ /\ pc \in {"handleReset", "clearReset", "statusWrite", "readyTime"}
          /\ EndPass
       \/ /\ pc \in Steps \ {"handleReset", "clearReset", "statusWrite",
                              "readyTime"}
          /\ Fail(pc)
    /\ UNCHANGED <<object, cache, vm, guest, podSeen, secrets, lastGen, edits>>

Crash ==
    /\ faults < MaxFaults
    /\ pc # "idle"
    /\ faults' = faults + 1
    /\ EndPass
    /\ UNCHANGED <<object, cache, vm, guest, podSeen, secrets, lastGen, edits>>

-----------------------------------------------------------------------------
(* Users, through the API.                                                 *)

rest == <<cache, vm, guest, podSeen, secrets, lastGen, faults, pc, local>>

UserWrites(o) ==
    /\ edits < MaxEdits
    /\ edits' = edits + 1
    /\ ws' = [o EXCEPT !.rv = ws.rv + 1]
    /\ feed' = feed \cup {ws'}
    /\ UNCHANGED rest

RequestEpoch ==
    /\ ws.phase = "live"
    /\ \E e \in 0..MaxEpoch :
          /\ e # ws.epoch
          /\ RequestRatchets => e > ws.epoch
          /\ UserWrites([ws EXCEPT !.epoch = e])

RequestReset ==
    /\ ws.phase = "live"
    /\ UserWrites([ws EXCEPT !.reset = TRUE])

StopOrStart ==
    /\ ws.phase = "live"
    /\ UserWrites([ws EXCEPT !.stopped = ~@])

(* Background deletion removes the object, foreground marks it first.      *)
DeleteWorkspace ==
    /\ ws.phase = "live"
    /\ ws.uid <= MaxDeletes
    /\ \E p \in {"terminating", "gone"} : UserWrites([ws EXCEPT !.phase = p])

CreateWorkspace ==
    /\ ws.phase = "gone"
    /\ \E e \in 0..MaxEpoch : UserWrites(NewWorkspace(ws.uid + 1, ws.rv, e))

(* The control plane may clean up a management Secret.                     *)
RetireSecret ==
    /\ edits < MaxEdits
    /\ edits' = edits + 1
    /\ \E s \in secrets : secrets' = secrets \ {s}
    /\ UNCHANGED <<object, cache, vm, guest, podSeen, lastGen, faults, pc, local>>

User == RequestEpoch \/ RequestReset \/ StopOrStart \/ DeleteWorkspace
        \/ CreateWorkspace \/ RetireSecret

-----------------------------------------------------------------------------
(* Kubernetes and KubeVirt.                                                *)

(* The watch delivers versions in order; the pass may not look at each.    *)
DeliverWorkspace ==
    /\ \E v \in feed :
          /\ cache' = v
          /\ feed' = {u \in feed : u.rv > v.rv}
    /\ UNCHANGED <<ws, vm, guest, podSeen, secrets, counters, pc, local>>

DeliverPod ==
    /\ podSeen # guest
    /\ podSeen' = guest
    /\ UNCHANGED <<object, cache, vm, guest, secrets, counters, pc, local>>

(* A foreground-deleted Workspace goes once its dependents have gone.      *)
RemoveWorkspace ==
    /\ ws.phase = "terminating"
    /\ ~(vm.live /\ vm.owner = ws.uid)
    /\ ws' = [ws EXCEPT !.phase = "gone", !.rv = @ + 1]
    /\ feed' = feed \cup {ws'}
    /\ UNCHANGED <<rest, edits>>

CollectGarbage ==
    /\ vm.live
    /\ ~vm.deleting
    /\ vm.owner # ws.uid \/ ws.phase # "live"
    /\ vm' = [vm EXCEPT !.deleting = TRUE]
    /\ UNCHANGED <<object, cache, guest, podSeen, secrets, counters, pc,
                   local>>

StartGuest ==
    /\ guest = "none"
    /\ vm.live /\ vm.running /\ ~vm.deleting
    /\ guest' = "starting"
    /\ UNCHANGED <<object, cache, vm, podSeen, secrets, counters, pc, local>>

GuestRuns ==
    /\ guest = "starting"
    /\ guest' = "running"
    /\ UNCHANGED <<object, cache, vm, podSeen, secrets, counters, pc, local>>

StopGuest ==
    /\ guest # "none"
    /\ ~vm.running \/ vm.deleting
    /\ guest' = "none"
    /\ UNCHANGED <<object, cache, vm, podSeen, secrets, counters, pc, local>>

CrashGuest ==
    /\ guest # "none"
    /\ faults < MaxFaults
    /\ faults' = faults + 1
    /\ guest' = "none"
    /\ UNCHANGED <<object, cache, vm, podSeen, secrets, lastGen, edits, pc, local>>

RemoveVM ==
    /\ vm.live
    /\ vm.deleting
    /\ guest = "none"
    /\ vm' = [vm EXCEPT !.live = FALSE]
    /\ UNCHANGED <<object, cache, guest, podSeen, secrets, counters, pc,
                   local>>

Next ==
    \/ Pass
    \/ ApiError
    \/ Crash
    \/ User
    \/ DeliverWorkspace
    \/ DeliverPod
    \/ RemoveWorkspace
    \/ CollectGarbage
    \/ StartGuest
    \/ GuestRuns
    \/ StopGuest
    \/ CrashGuest
    \/ RemoveVM

Spec == Init /\ [][Next]_vars

(* The work queue keeps running passes (watches, requeues and a two-minute *)
(* resync), the watch keeps delivering, KubeVirt and the garbage collector *)
(* keep working.  Users and faults are under no obligation.                *)
Fairness ==
    /\ WF_vars(Pass)
    /\ WF_vars(DeliverWorkspace)
    /\ WF_vars(DeliverPod)
    /\ WF_vars(RemoveWorkspace)
    /\ WF_vars(CollectGarbage)
    /\ WF_vars(StartGuest)
    /\ WF_vars(GuestRuns)
    /\ WF_vars(StopGuest)
    /\ WF_vars(RemoveVM)

FairSpec == Spec /\ Fairness

-----------------------------------------------------------------------------
(* Properties.                                                             *)

(* The recorded epoch is never lowered and the identity never removed      *)
(* while the same Workspace object lives, whichever of the three status    *)
(* writers of a pass runs, from however old a version                      *)
(* (updateWorkspaceStatus, setNotReadyCondition, reconcileExecutionEpoch). *)
EpochNeverRollsBack ==
    [][ws'.uid = ws.uid /\ ws.mgmt # NoIdentity =>
          /\ ws'.mgmt # NoIdentity
          /\ ws'.mgmt.epoch >= ws.mgmt.epoch]_vars

(* The VM bound in status is one this Workspace object owns: a Workspace   *)
(* re-created under the name of a deleted one never binds the VM its       *)
(* predecessor left behind (managementVMCurrent).                          *)
BoundVMIsOwn ==
    ws.mgmt # NoIdentity /\ ws.mgmt.vm = vm.uid => vm.owner = ws.uid

(* A management Secret appears only for the VM and epoch in status at that *)
(* very moment, although the Secret is created some calls after the        *)
(* identity was read (reconcileManagementBootstrap); a pass overtaken by a *)
(* re-created Workspace leaves a Secret of the old UID.                    *)
SecretNamesBinding ==
    [][\A s \in secrets' \ secrets :
          s.ws = ws.uid =>
             /\ ws.mgmt # NoIdentity
             /\ s.vm = ws.mgmt.vm
             /\ s.epoch = ws.mgmt.epoch]_vars

(* No Secret of this Workspace is ahead of the acknowledged epoch, so      *)
(* raising the epoch in status outdates every Secret made before.          *)
SecretsWithinEpoch ==
    \A s \in secrets :
        s.ws = ws.uid => ws.mgmt # NoIdentity /\ s.epoch <= ws.mgmt.epoch

(* A reset request is dropped only when no VM is left: handleReset keeps   *)
(* the annotation while the VM is being deleted.                           *)
ResetOutlivesVM ==
    [][ws.reset /\ ~ws'.reset /\ ws'.uid = ws.uid => ~vm.live]_vars

(* A living VM carries the agent generation its Workspace names: the       *)
(* binding made at first boot is stable until a reset removes both         *)
(* (ensureLinuxAgentGeneration, handleReset).                              *)
AgentGenerationBound ==
    vm.live /\ vm.owner = ws.uid /\ ws.phase = "live" => vm.gen = ws.gen

(* A Workspace's new root never reuses the generation of its previous one. *)
AgentGenerationFresh ==
    [][(/\ vm'.uid # vm.uid
        /\ vm'.owner = vm.owner
        /\ vm.owner = ws.uid
        /\ ws.phase = "live")
          => vm'.gen # vm.gen]_vars

(* The cluster's register of execution identities behaves as the abstract  *)
(* one: requests, recordings, issues, retirements and replacements.        *)
Register == INSTANCE RevocationRegister
    WITH incarnation <- ws.uid, requested <- ws.epoch,
         recorded <- ws.mgmt, issued <- secrets

RefinesRegister == Register!Spec

(* The inductive invariant behind the safety properties.  Equal resource   *)
(* versions mean equal objects for what the cache and the watch hold       *)
(* (VersionsAgree); what the pass holds agrees with the server as long as  *)
(* its writes would be accepted, although reconcileExecutionEpoch gives an *)
(* older in-memory Workspace a newer resourceVersion (PassAgrees); and a   *)
(* Secret about to be created names the binding in force (CreateAgrees).   *)
SameVersion(o) == o.rv <= ws.rv /\ (o.rv = ws.rv => o = ws)

VersionsAgree ==
    /\ ws.rv > 0
    /\ SameVersion(cache)
    /\ \A v \in feed : SameVersion(v)

PassAgrees ==
    /\ inst.rv <= ws.rv
    /\ inst.rv = ws.rv => inst.uid = ws.uid /\ inst.mgmt = ws.mgmt
    /\ seenVM <= vm.uid
    /\ pc = "epochWrite" =>
          /\ SameVersion(fresh)
          /\ fresh.uid = inst.uid
          /\ vm.uid = seenVM => vm.owner = fresh.uid

CreateAgrees ==
    pc = "bootstrapCreate" =>
        /\ fresh.uid <= ws.uid
        /\ fresh.mgmt # NoIdentity
        /\ fresh.mgmt.vm = seenVM
        /\ fresh.uid = ws.uid => fresh.mgmt = ws.mgmt

SecretsAreKnown == \A s \in secrets : s.ws <= ws.uid

BoundVMExisted == ws.mgmt # NoIdentity => ws.mgmt.vm <= vm.uid

IdentityInvariant ==
    /\ VersionsAgree
    /\ PassAgrees
    /\ CreateAgrees
    /\ SecretsAreKnown
    /\ BoundVMExisted
    /\ SecretsWithinEpoch
    /\ BoundVMIsOwn

(* Once users leave a Workspace running, its guest is reported ready and   *)
(* bound to its VM at an epoch no lower than the one requested: a          *)
(* revocation is acknowledged and conflicts do not starve it.              *)
RevocationAcknowledged ==
    <>[](ws.phase = "live" /\ ~ws.reset /\ ~ws.stopped)
        => <>[](/\ ws.ready
                /\ ws.mgmt # NoIdentity
                /\ ws.mgmt.vm = vm.uid
                /\ ws.mgmt.epoch >= ws.epoch)

(* A requested reset completes, or the Workspace is deleted first.         *)
ResetCompletes == ws.reset ~> (~ws.reset \/ ws.phase # "live")

=============================================================================
