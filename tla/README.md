# A TLA+ verification of the kube-workspaces controller

The repository is a Kubernetes operator. It turns `Workspace` objects into pods
or KubeVirt virtual machines, `User` objects into namespaces and RoleBindings,
`ImageRepository` objects into a catalog of `Image`s synchronised from Git, and
`AuthConfig` into a first local administrator. This directory models the parts
of it whose correctness depends on the order of steps: TLC checks small
instances, TLAPS proves the safety properties of seven modules for all values of
the constants.

## 1. Inventory

### What all controllers share

* Each controller has one worker (`MaxConcurrentReconciles` is 1) and one
  leader, so passes of one controller never overlap. Everything else does:
  users, KubeVirt, the garbage collector, the other controllers and the watches
  act between any two API calls of a pass.
* Typed reads come from an informer cache that is fed by a watch: they may be
  outdated but never go back. Unstructured objects and `APIReader` reads are
  live.
* An update carries the resourceVersion the object was read at and is refused
  when the object has moved on; status and object share that version.
* A pass can end after any call: by an error, a conflict, or a restart of the
  process. It is run again, by a requeue, a watch event or the resync every two
  minutes, and starts from the cache with nothing remembered.

### Components

| component | state it keeps | operations | what makes it correct |
| --- | --- | --- | --- |
| VM Workspace reconciliation (`workspace_controller.go`, `vm_execution_epoch.go`, `vm_management_bootstrap.go`, `vm_linux_agent.go`) | Workspace spec, annotations and status; the VirtualMachine; management bootstrap Secrets | reset, agent generation, VM create and update, readiness, execution epoch, Secret, three status writers | a revocation is never undone; credentials only for the binding in force; one agent generation per root; resets and revocations complete |
| disk claims (`vm_disks.go`) | owner annotation on each DataVolume | claim, reclaim from a deleted Workspace, retry | a claim is never stolen, guests of two Workspaces never share a disk, no circular wait, disks of deleted Workspaces become available |
| Windows guest (`vm_windows_guest.go`) | generation, provisioned and detaching marks, reboot request, bootstrap Secret | bootstrap, provision, detach the CD, reboot, stop, reset | root, media and credentials belong to one generation; the answer file goes; the guest becomes ready |
| Windows GPU guard (`vm_windows_gpu.go`) | none of its own | preflight, transition guard | the GPU of a guest changes only while it is down |
| Windows agent transport (`vm_windows_agent.go`) | none | commands in the guest | outcome only |
| container and scratch Workspaces (`workspace_controller.go`, `container_init.go`) | StatefulSet, Deployment, Service, initialisation Secret, status | prepare the initialisation, create and update, observe the pod, report | workload, pod and status end up as the specification says; a Secret of somebody else is not taken over; a deletion ends |
| guest bootstrap (`workspace_controller.go`, `vm_disks.go`) | cloud-init Secret, SSH key Secret, the VirtualMachine's memory, power and volumes | collect keys, choose inline data or Secret, generate and update the VM | VM and Secrets agree; a managed guest has exactly the present keys; memory is what is declared |
| User controller (`user_controller.go`) | finalizer, personal namespace, RoleBindings, quota, status | grant, change role, revoke, disable, delete | grants follow the specification; nobody's namespace is taken over |
| ImageRepository controller (`imagerepository_controller.go`) | Images and their source labels, sync request, status | clone, import, adopt, prune, suspend | prunes only its own; a sync request is not lost; converges to Git |
| AuthConfig controller (`authconfig_controller.go`, `localauth.go`) | the bootstrap User, its password Secret, status | bootstrap transaction, issuer check, readiness | no access before credentials, no password replaced, no account promoted |
| other VM generators, metrics, manager wiring, API types | | construction, counters, start-up | |

The parts meet in shared objects rather than in calls. A pass of the Workspace
controller runs disk claims, Windows steps, VM reconciliation, epoch, Secret and
status one after the other on one in-memory Workspace; two Workspaces meet at a
DataVolume; the User and the AuthConfig controllers write the same User; two
ImageRepositories write the same Image. KubeVirt starts and stops guests on its
own when a VirtualMachine says `running: true`.

The hard behaviours are therefore: outdated reads used after several calls;
three writers of one status; objects deleted and re-created under the same name
during a pass; transactions of several writes cut short; a lookup by name where
an identity was meant; cleanup from a cached list; and the progress of resets,
revocations, reclaims and syncs in spite of conflicts; and objects that must
agree in the end although a pass writes them one by one. `PROJECT.json` lists them
line by line under `hazards`.

## 2. Modules

Every module has the same shape. The API server's objects are variables, with a
`uid` and, where a guarded write depends on it, an `rv` (resourceVersion). The
versions a cache may still show are a set (`known`, `feed`, `users`) or a lagging
copy (`seen`, `cache`). The pass is a program counter `pc`, its in-memory object
`inst`, and one action per stretch of code between two API calls that others can
tell apart. `EndPass` drops everything the pass remembers. Operators whose
comment begins with "Mutant" are faulty variants of the definition that follows;
nothing uses them, they serve to show that the properties notice such a fault.
Most modules state their types in `TypeOK`; it is proved together with the
inductive invariant of the module. A module's theorems and proofs are in the
module of the same name with `Proofs` appended.

### RevocationRegister (abstract) and ExecutionIdentity

`RevocationRegister` says what the execution identity promises with no mention
of caches or passes: a register that binds a VM to a revocation epoch, whose
epoch never falls while the same Workspace object lives, and credentials issued
only for the binding in force.

`ExecutionIdentity` is the pass of a Linux VM Workspace:

| action | code |
| --- | --- |
| `Reconcile` | the cached Get at the head of `Reconcile` |
| `handleReset`, `clearReset` | `handleReset`, and the Update that consumes the annotation |
| `ensureLinuxAgentGeneration` | the generation stored before the VM is made |
| `reconcileVirtualMachine` (`createVirtualMachine`, `updateVirtualMachine`) | live Get, then Create, or Update when `virtualMachineNeedsUpdate` |
| `observeGuest` | readiness from the launcher pod and the VMI |
| `epochRead`, `epochWrite` | `reconcileExecutionEpoch`: live read, checks, guarded status write; then the in-memory Workspace takes over the new resourceVersion |
| `bootstrapRead`, `bootstrapCreate` | `reconcileManagementBootstrap`: live read, checks, creation of the Secret |
| `statusWrite`, `readyTime`, `setNotReadyCondition` | the status writers at the end of the pass and on its error path |
| `ApiError`, `Crash` | a failed call; a restart |
| user, watch, garbage collector, KubeVirt | `RequestEpoch`, `RequestReset`, `StopOrStart`, `DeleteWorkspace`, `CreateWorkspace`, `RetireSecret`, `DeliverWorkspace`, `DeliverPod`, `RemoveWorkspace`, `CollectGarbage`, `StartGuest`, `GuestRuns`, `StopGuest`, `CrashGuest`, `RemoveVM` |

UIDs, resourceVersions, generations and epochs are natural numbers; conditions
are the step that set them. The rules the CRD enforces are guards of the API
server's side: the recorded epoch cannot fall or disappear, and the requested
epoch cannot fall. `RequestRatchets = FALSE` takes the last rule away, for
clusters that were installed before it existed: the controller must not rely on
it. A guest agent image is assumed, so `ensureLinuxAgentGeneration` applies.

### DiskClaims

Several Workspaces of one namespace and several DataVolumes. `readDisk`,
`readOwner`, `readVMI` and `updateDisk` are the four calls of
`claimVMDataVolume`; `dirty` says that the DataVolume was written since it was
read, which is all a resourceVersion decides here. `NextDisk` is the sorted
order of `claimVMDisks`. `reconcileVirtualMachine` writes the VM once all disks
are claimed. `handleReset` may delete the VM in a pass of its own. A DataVolume
is not re-created under the same name. The names are interchangeable: the first
Workspace (`First`) is there from the start. Everything that users do, failed
calls, restarts, concurrent writes to a DataVolume, deleted disks and guest
crashes draw on one budget (`Event`, `MaxEvents`). `edited` holds the names whose
Workspace had its mounts edited since it was created.

### WindowsGuest

One Windows Workspace. `ws` holds the generation of the root and the annotations
`provisioned`, `detaching`, `stopped`, `reset`, `reboot`; `credentials` and
`answers` are the generations that have a bootstrap Secret and those whose
Secret still holds the answer file; `guest.sysprep` says whether the running
guest was started with the CD. The actions follow the order of the pass: reset
(`handleReset`, `dropSecret`, `clearReset`), detachment (`finishWindowsDetach`,
`stripAnswer`, `clearDetach`), reboot (`finishWindowsReboot`, `clearReboot`),
`reconcileWindowsBootstrap`, `reconcileVirtualMachine`, `windowsReady`,
`provision`, `statusWrite`. What the guest's setup does is the action
`SetupFinishes`; `CompleteBootstrap` asks whether it has. Deletion of the
Workspace is not modelled here, and the Secret is read up to date.
`guardWindowsGPUTransition` is part of the VM's update: the user may change the
GPU of the profile at any time, and the guard, which has read the VM and asked
for the VMI, decides whether the update goes through.

### UserAccess

One user name, its personal namespace `Home` and shared namespaces `Teams`. A
grant has two kinds, `Personal` and `Shared(n)`, as the RoleBindings have two
name suffixes; `grants` and `seen` are the RoleBindings and their cached copies,
with a version, because the code deletes with UID and resourceVersion
preconditions. `config` stands for the template and the quota that AuthConfig
gives: personal namespaces off, on, or on with a quota that does not parse.
`TakeHomeName` is a stranger who creates a namespace of the personal namespace's
name while there is none.

### ImageCatalog

Repositories, each with a Git tree and a head commit, and one cluster-wide set
of Images. An Image has the label of the repository it is assigned to (`owner`)
and the origin of its contents (`by`, `commit`). A pass clones, imports file by
file (`readImage`, `writeImage`), lists and prunes (`listImages`, `pruneImage`),
clears the sync request and writes the status. `changed` holds the Images
written since the pass read them: the preconditions of its writes. The cached
ImageRepository lags and then jumps to the newest version.

### AuthBootstrap

The bootstrap account and the AuthConfig. `pending` is the annotation that marks
an account as made by a given AuthConfig, `ref` the reference to its password
Secret, which is named after the User's UID. `listUsers`, `getUser`,
`createUser`, `createLocalAuthSecret`, `enableUser` are the transaction;
`verifyIssuer` and `writeStatus` the readiness. `other` stands for some other
usable administrator, `legacy` for a Secret retained from an earlier release.
A password is 1 or 2: enough to tell that it was replaced.

### ContainerWorkspace

One Workspace name of type container or scratch. `live` holds the objects in the
API server: Workspace, StatefulSet, Deployment, their pods, Service, the
controller's initialisation Secret and the Secret the user may name. The
Workspace and one other object have a lagging copy in `cache`: the initialisation
Secret, the user's Secret or the workload, as the starting point says (`slow`).
The Service and the pods never lag. A delivery is the event that queues a pass
(`Wakes`, `Maps`). A pass has three steps:

| action | code |
| --- | --- |
| `Reconcile` with `prepareContainerInit` (`Preflight`, `referencedInitData`, `inlineInitData`, `removeContainerInitSecret`, `setNotReadyCondition`) | the cached Get, the early return for a deleted Workspace, and the initialisation up to the mounted Secret and the hash of its data |
| `reconcileWorkload` (`generateWorkload`, `workloadNeedsUpdate`, `reconcileService`, `servingPods`, `observedStatus`) | `reconcileStatefulSet` or `reconcileDeployment`, then the pod's state and `reconcileService` |
| `updateWorkspaceStatus` | the status writers, with the mark of the first readiness |

The name may be new, its Secret name taken by somebody else, or used before by a
Workspace whose Secret is still there and which the cache still shows
(`Starts`). Data of an initialisation is a number, so that two edits differ. A
failed initialisation is run again when the container restarts and need not ever
succeed; while it fails a StatefulSet does not replace the pod. The
several things `prepareContainerInit` refuses before it looks for data are one
predicate, `Preflight`. Commands, mounts and the wrapped argument list are the
record `Mounts`; the hash of the data is the data. A template counts as changed
when it differs, which is what comparing the stored hash amounts to.

### GuestBootstrap

What `reconcileVMGuestBootstrap` and the generators prepare for a Linux guest.
`live` and `cache` hold the keys of the namespace, the Image and the two
Secrets; the VirtualMachine is read live. User data is a record of its base, the
keys merged in and the mounts, and its length a small number compared with
`InlineMax`: the length alone decides between inline data and the Secret.
`vmDomainResources` and `applyDomainMemoryAndCPU` are operators on declarations
of memory in units; a generator that panics ends the pass as an error does,
because controller-runtime recovers it, and so does KubeVirt's rejection of a
request above the limit (`Admitted`). An Image may be capable of cloud-init and
bring no data along, which is enough to mount disks. Boot and key delivery are `BootGuest` and
`PropagateKeys`. Every combination of requests, limits and mounts is started
from; events are spent on one of them (`Usual`).

`MCDiskClaims` adds the sets of disks that are mounted, `MCContainerWorkspace` and
`MCGuestBootstrap` the Workspaces and Images that their runs start from.

## 3. Runs

| run | instance | shows |
| --- | --- | --- |
| `identity` | 2 user writes, 1 deletion, epoch 0..1, 2 VMs, requests may fall | identity, Secrets and generation under every interleaving with outdated passes; refinement of the register |
| `identity_live` | 1 user write, 1 fault, fair | `RevocationAcknowledged`, `ResetCompletes` |
| `claims` | 2 names, 2 disks, edited mounts, 3 events, fair | claims stand; consumers are exclusive; no circular wait; reclaim completes |
| `single_consumer` | violation | see below |
| `windows` | 2 requests, 1 interruption, 1 guest crash, 2 GPUs, fair | generation and media in step; no GPU changes under a guest; ready in the end |
| `access` | 2 objects of the name, 1 team, 2 roles, 2 writes, 1 interruption, fair | personal namespaces kept and granted to nobody else; grants follow specification and disablement |
| `shared_grant_stays` | violation | see below |
| `catalog` | 1 repository, 2 Images, 1 push, 2 edits, 1 fault, fair | prunes only its own, from a complete inventory; sync requests honoured; converges |
| `workload` | 8 starting points, 1 or 2 events, fair | workload, pod, Service and status end up as specified; foreign Secret not adopted; deletion ends |
| `foreign_secret_deleted` | violation | see below |
| `guest_bootstrap` | 2 keys, 5 Images, 18 declarations, 2 events, fair | VM, Secrets and memory settle; keys follow |
| `bootstrap` | 4 settings, 2 Users, 2 AuthConfigs, 1 edit, 1 fault, fair | the transaction is safe, completed, and reported |

### Bounds

All bounds are constants named `Max...` and appear in guards. A hazard here
needs one pass and one or two foreign writes between its steps: a deletion with
a re-creation is two, an edit that makes a guarded write conflict is one. Two
names, two User objects and two VMs are enough for "the other one", and a second
disk is needed for a circular wait. In `claims` three events let a deleted
Workspace's name be used again while its disk is wanted (deletion, a new claimant,
a namesake), or a fault fall into the reclaim. In `workload` an event (an edit, a
deletion, a failed call, a restart, a failing pod) falls on a pass that already
starts from a stale cache or a used name; where the user's Secret lags, or the
name of the controller's Secret is taken, there are two, which is what a change of
type followed by a stop, or a change of Secret and specification delivered in
either order, takes. In `guest_bootstrap` two events are what replacing an Image
and deleting the last key takes; a Secret that an earlier Workspace of the name
left behind counts as one. Epochs 0 and 1 suffice for a comparison of two; with requests
that may fall, 1 then 0 is the case that matters. The theorems of section 5 have no such bound.

The violation runs use the smallest bounds that show their behaviour.
`CHECK_DEADLOCK FALSE` stands only where the instance really may stop: everything
deleted, or everything settled, and no write left, or the bound on VM objects
reached.

### Fairness

* Passes (`WF` on `Pass` or `Steps`): the work queue runs what was enqueued by
  watches, by `RequeueAfter`, and by the two-minute resync. The AuthConfig
  controller filters events by generation, but every pass of it asks to be run
  again after thirty seconds or five minutes.
* `SF` on `Reconcile(n)` in `DiskClaims` and `ImageCatalog`: several names share
  one worker, which is busy with another name again and again; the queue is first
  in, first out, so no name is passed over for ever.
* Watches, the garbage collector, the namespace controller, the workload
  controllers and KubeVirt keep working (`WF` on their actions). In
  `GuestBootstrap` the delivery of an Image queues a pass although no watch
  covers Images: it stands for the resync every two minutes (`cmd/main.go`).
* Users, administrators, guest crashes and faults are under no obligation, and
  are bounded. `IntervalElapses` is fair because time passes.

### Disagreements between the code and its documentation

Three are checked as runs that end in a counterexample:

* `single_consumer`: "must not permit two writable consumers"
  (`vm_disks_test.go:33`). A reclaim checks that no VMI of the former owner
  exists at that moment; its VirtualMachine may still be there with
  `running: true`, and KubeVirt starts its guest, in the run for the first time,
  after the claim has changed hands. Among Workspaces that exist the promise
  holds, and is proved (`LiveConsumersExclusive`).
* `foreign_secret_deleted`: "foreign Secret changed or deleted"
  (`container_init_test.go:244`) is what must not happen.
  `removeContainerInitSecret` deletes by name, without a precondition, what the
  cache showed it to own; if that Secret is collected meanwhile and a user creates
  one of the same name, the user's is deleted. That it is never overwritten or
  taken over is checked, and proved (`ForeignSecretNotAdopted`).
* `shared_grant_stays`: stale RoleBindings are found by namespace alone, so a
  shared grant to the personal namespace stays after it was withdrawn.

Others came up while modelling and are visible in the statement of a property
or in a bound:

* "Remove all RoleBindings managed by this user" (`user_controller.go:413`):
  `cleanupUser` lists RoleBindings from the cache, and one that an earlier pass has
  just created, which the cache does not show yet, outlives the User. The model
  does the same; no property claims that a deleted User's grants are gone.
* A User deleted between the creation of its namespace and the status write that
  records it leaves the namespace behind, because `cleanupUser` finds it through
  the status. `PersonalNamespaceKept` shows that nobody else is given it.
* `ReadyWithoutCD` holds as long as nobody stops the guest and it does not crash:
  `finishWindowsDetach` takes any absence of the VMI for the restart without the
  CD, so a guest that goes down by itself at that point starts again with it.
* "A deleted Workspace's claim can be reclaimed once its VMI is gone"
  (`vm_disks.go:44`). The VMI is looked up by name. When the name of the deleted
  Workspace is used again, the guest of the namesake, which need not use the disk,
  blocks the reclaim for as long as it runs. `ReclaimCompletes` names this case
  (`Blocked`); the run reaches it.
* `updateWorkspaceStatus` reads the Workspace again by name and does not compare
  UIDs: a pass that outlives its Workspace writes its readiness into the one
  re-created under the name, until the next pass corrects it.
* With mounts edited in place claims are never released, so two Workspaces can
  end up waiting for each other; `NoCircularWait` is therefore stated for
  Workspaces whose mounts were not edited since they were created.
* "A root incarnation has one stable binding" (`vm_linux_agent.go:21`) holds for
  one Workspace object. A Linux VM is updated in place without comparing its
  owner, so a Workspace re-created under the name of a deleted one writes its
  generation into the VM its predecessor left behind, before that is collected.
  Such a VM is never bound to the new Workspace's identity (`BoundVMIsOwn`).
* `VMSettles` exempts declarations for which `vmDomainResources` panics
  (`Generated`): with no memory limit in the Image and no limits, or no requests,
  in the template, the fallback looks the memory up in a list that is absent,
  although the comment above it (`workspace_controller.go:1661`) says that it "is
  applied so the workspace still boots". It also exempts those for which the
  fallback puts a limit below the request, which KubeVirt rejects.
* "MemoryRequest overrides the virt-launcher pod memory request and limit"
  (`image_types.go:169`) is broader than the code: a `memoryRequest` without a
  `memoryLimit` is ignored (`workspace_controller.go:1680`). The same comment asks
  to use the two together. `DeclaredMemory` follows the code, and one Image of the
  run has a request alone.
* `WorkloadSettles` exempts a refused initialisation (`InitRefused`): the pass
  ends before replicas are compared, so a Workspace that is stopped while its
  Secret is missing, taken or its command empty keeps its pod, although the
  repository's README says that the annotation scales it to zero. It also speaks
  only of the workload of the present type: after a change between container
  and scratch the other workload stays, with its pod.
* Of a scratch Workspace that was a container before, `podByLabel` may return the
  pod left over, which carries the same label. Its condition is then reported in
  place of the Deployment's, for ever, and even when the Workspace is stopped.
  `StatusTruthful` names this case; the run reaches it.
* A pod may be initialised with data that is edited away and back between the
  hash and its start: the hash is the old one again, and nothing replaces the pod.
  In the model no two edits write the same data; with data that can repeat,
  `WorkloadSettles` is violated in this way.
* A GPU edited while the VM runs makes the guard refuse the VM's whole update, the
  stop or reboot that would allow the change included. `RequestsServed` and
  `EventuallyReady` exempt it (`GPUBlocked`).
* `reconcileCloudInitSecret` deletes the Secret before the VM stops referring to
  it. The VM settles (`VMSettles`), but a guest that was started in between waits
  for a Secret that does not come back; `KeysFollow` speaks of guests that are up.
* An enabled User whose namespace is retained for another UID, or whose quota does
  not parse, keeps shared grants that were withdrawn: `GrantsConverge` has it as a
  premise (`Settled`).
* The mark of the first readiness is an annotation that the template copies, so
  a new Workspace's pod is rolled out once more after it became ready; the model
  does the same (`recorded`).
* The repository's README speaks of one management Secret per VM; the code makes
  one per VM and epoch, as the model does.

## 4. What each property is about

The comment above each property names the code it concerns; `hazards` in
`PROJECT.json` connects the properties to lines. The central ones:

* `EpochNeverRollsBack`, `SecretsWithinEpoch`, `SecretNamesBinding`,
  `BoundVMIsOwn`: the security promise of the execution identity, under three
  status writers and an in-memory Workspace that is given a newer
  resourceVersion than it was read at.
* `AgentGenerationBound`, `AgentGenerationFresh`, `ResetOutlivesVM`: a root disk
  and its generation are replaced together.
* `ClaimNeverStolen`, `LiveConsumersExclusive`: three reads lie between looking
  at a claim and replacing it.
* `VMGenerationCurrent`, `SetupHasInstaller`, `AnswerFileRemoved`: two objects
  that are written separately stay in step; `GPUStable`: a guard that rests on two
  reads holds when the write is made.
* `WorkloadSettles`, `StatusTruthful`, `VMSettles`, `KeysFollow`: four or five
  objects, written one by one from reads of different age, agree in the end with
  each other and with the specification, through conflicts, restarts, re-used
  names and a cache that delivers in any order.
* `DeletionCompletes`: the controller does not race the garbage collector for ever.
* `PersonalNamespaceKept`, `PersonalGrantOwn`, `PrunesOnlyOwn`,
  `AccountsNotPromoted`, `ForeignSecretNotAdopted`: a cached or listed object is not
  the one that is written to.
* `PasswordKept`, `CredentialsBeforeAccess`, `SyncRequestHonoured`: retries and
  requests that arrive in the middle of a pass.

## 5. Proofs

Seven modules, from `ExecutionIdentityProofs` to `ContainerWorkspaceProofs`,
extend their component's module and TLAPS. They assume only the module's
`ConstantsAssumption`: bounds are natural numbers, switches Boolean, the null
values no members of the sets they are distinguished from. Nothing is assumed of
the size of `Names`, `Disks`, `Teams`, `Repos` or `Images`. Faults, conflicts and
restarts are part of the proved specifications, in any number. Every safety
invariant and every action property of the passing runs is a theorem.

One idea recurs. A property of the objects in the cluster is seldom inductive,
because a pass holds what it read some steps ago. Each inductive invariant
therefore says what a resourceVersion determines (`VersionsAgree`), what the pass
still knows at each of its steps, and how what is on its way to the cache relates
to what is there.

`ExecutionIdentityProofs`

* `IdentityHolds`: `TypeOK` and `IdentityInvariant` hold in every reachable
  state. `SecretsWithinEpoch` alone is not inductive: the pass may be about to
  create a Secret from what it read before. `CreateAgrees` says that such a
  Secret names the binding in force, or an earlier incarnation; that in turn
  needs `PassAgrees`, that a write carrying the present resourceVersion comes
  from an in-memory Workspace whose UID and identity are the present ones,
  although it may differ in everything else; and that rests on `VersionsAgree`,
  that a resourceVersion determines the object. `SecretsAreKnown` and
  `BoundVMExisted` keep UIDs from being reused.
* `TypeCorrect`, `NoSecretAhead`, `BindingIsOwn` are its parts, `EpochMonotone`
  and `SecretsNameBinding` the action properties that follow from it.
* `ImplementsRegister`: with `incarnation <- ws.uid`, `requested <- ws.epoch`,
  `recorded <- ws.mgmt`, `issued <- secrets`, the initial states are initial
  states of `RevocationRegister` and every step is one of its steps or leaves
  the four unchanged.
* `GenerationInvariantHolds`: a second invariant, on top of the first, for the
  generation of the root disk. `Incarnations` orders the UIDs of server, feed,
  cache, pass and VM; `GenerationsAgree` says that nothing on its way to the cache
  names another generation than the server; `ResetsAgree` that a reset the cache
  still shows is either pending in every version to come (`ResetPending`) or has
  been consumed with no VM made since; `PassBuilds` what the first steps of a pass
  hold. `AgentGenerationBoundHolds`, `ResetOutlivesVMHolds` and
  `AgentGenerationFreshHolds` follow.

`DiskClaimsProofs`

* `ClaimsHold`: `TypeOK` and `ClaimInvariant`. `DisksClaimed` (every disk in a
  VM, or open in its guest, is claimed by its Workspace object) is what one
  wants; a pass that is about to write the VM has to know that it still holds the
  claims of the disks it has worked through, and that the claim it is about to
  replace belongs to nobody who exists (`PassClaims`). That a claimant once gone
  does not come back is `VersionsOrdered` with `OwnersKnown`; `GuestHasVM` ties
  guests to VMs. `ConsumersExclusive` and `ClaimsStand` follow.
* `NoCircularWaitHolds`: nothing releases a claim when a mount is edited, so two
  edited Workspaces can hold each other's disk; the property is about the others.
  Of a Workspace object that was not edited every version has the same mounts
  (`MountsFixed`), and what it holds is an initial part of them in the order of
  claiming (`ClaimedInOrder`).

`WindowsGuestProofs`

* `GuestInvariantHolds`: a generation ends only by a reset, and a version that
  names an older generation asks for one (`VersionsAgree`, `ResetSticks`); a pass
  either resets, and then no version without the request is left to start from,
  or works on the present generation (`PassCurrent`). `MachineCurrent` ties the
  VM to the generation and its CD to setup. `SecretKept` is what
  `AnswerFileRemoved` needs: a provisioned generation that lost its Secret has no
  pass left that could make a new one with an answer file in it.
  `VMGenerationCurrentHolds`, `SetupHasInstallerHolds`, `AnswerFileRemovedHolds`
  and `GPUStableHolds` are its parts.
* `ReadyWithoutCDHolds` needs a second invariant about behaviours that nobody has
  disturbed yet (`Restarted`): there the absence of the VMI that ends the
  detachment is the restart the controller asked for.

`UserAccessProofs`

* `AccessInvariantHolds`: UIDs grow and a User that is going stays so
  (`VersionsAgree`), a cached namespace with the version of the live one is the
  live one (`HomeSeen`), and a pass that cleans up works for a User that is going
  (`UserGoing`). `PersonalNamespaceKeptHolds` follows.
* `PersonalGrantOwnHolds` needs a second invariant on top: versions of one User do
  not come back to life (`VersionsFollow`), a namespace the cache shows as a living
  User's own, and not on its way out, still is (`HomeCurrent`), so a pass that has
  got past its look-up still works in its own namespace when it makes the grant
  (`PassOwns`), and what it grants after that is shared only (`SharedOnly`).

`ImageCatalogProofs`

* `CatalogInvariantHolds`: what a pass has cloned covers the request it has read
  (`RequestsCovered`), and every valid manifest is imported or still to be, so
  that what is left to prune is declared no more and is the repository's own
  unless somebody has written it since (`InventoryComplete`).
  `PrunesOnlyOwnHolds` and `SyncRequestHonouredHolds` follow.

`AuthBootstrapProofs`

* `BootstrapInvariantHolds`: an account a pass resumes was made for an AuthConfig
  and not finished (`Resuming`); a Secret of the present User that the cache shows
  exists, and so does the one that is about to be referred to (`SecretsKept`).
  `CredentialsBeforeAccessHolds`, `AccountsNotPromotedHolds` and
  `PasswordKeptHolds` follow.

`ContainerWorkspaceProofs`

* `SecretInvariantHolds`: a cached copy that awaits no delivery is the live
  object (`CacheAgrees`), and no Workspace has the UID that stands for a foreign
  owner (`WorkspacesNumbered`, from the assumption that `Foreign` is no number).
  `ForeignSecretNotAdoptedHolds` follows: the controller overwrites only the live
  version of a Secret it has seen to be its own. That such a Secret is never
  deleted is not claimed, since it is false (`foreign_secret_deleted`).

Only model-checked: liveness, which is all that is left of the passing runs
(`RevocationAcknowledged`, `ResetCompletes`, `ReclaimCompletes`,
`EventuallyReady`, `RequestsServed`, `GrantsConverge`, `DisabledLosesGrants`,
`CatalogConverges`, `BootstrapCompletes`, `ReportsAdministrator`,
`WorkloadSettles`, `StatusTruthful`, `DeletionCompletes`, and `VMSettles` and
`KeysFollow` of `GuestBootstrap`).
Liveness under fairness and `ENABLED` are beyond the prover, as is induction over
data. `SingleConsumer`, `ForeignSecretKept` and the property of `shared_grant_stays` are
violated by the code and remain with TLC.

## 6. Assumptions and omissions

* A restarted controller does not see older versions than before (no time travel
  between API servers), and there is one leader.
* KubeVirt, CDI, the API server, the garbage collector, the namespace controller,
  Git and the OIDC issuer are modelled by how the code uses them.
* In `UserAccess` the access list is a map from namespace to role, and the
  template always yields the same name. In `AuthBootstrap` a re-created User has
  the same email; the time of the last verification and the list of administrator
  emails are left out.
* In `ContainerWorkspace` two objects lag at a time, and the passes that the
  controller's writes to the others would queue are left out: they find nothing
  to do. About ten refusals of `prepareContainerInit` (an unsupported mode, a volume
  or a mount that conflicts, an empty or oversized datum) are reduced to one, a
  missing command. Ports and labels of the Service are left out.
* Errors that only fail a pass on an object the model does not put there:
  `reconcileManagementBootstrap`'s conflict over a Secret that does not match
  (`vm_management_bootstrap.go:135`), `ensureRoleBinding`'s refusal to replace a
  RoleBinding that is not managed (`user_controller.go:312`), and
  `createLocalAuthSecret`'s mismatch of ownership or credentials
  (`localauth.go:123`).
* In `WindowsGuest` the error path's `setNotReadyCondition` and the mark of the
  first readiness (`workspace_controller.go:226` and `282`) are left out: they move
  only the resourceVersion, as `statusWrite` does.
* In `GuestBootstrap` the Workspace is read up to date and not deleted, and disks
  are claimed; both are the subject of other modules. What a guest agent image adds
  to the cloud-config (`linuxAgentCloudInit`) is left out, and so are its refusals.
* Not modelled: networks, scheduling, devices, video and root disks of VM
  specifications; validation of profiles and the operator's GPU allow list
  (`preflightWindowsGPU`), which are lookups without state; the commands sent to
  the Windows guest; metrics, which nothing reads back; start-up and the types.
  `PROJECT.json` gives the reason for each.

## 7. Plan

Done, in the order of importance: execution identity with its abstract register;
disk claims; Windows guest with the GPU guard; users; images; bootstrap; container
and scratch Workspaces; guest bootstrap with the resource arithmetic; and, except
for the last, their proofs.

Next:

1. `GuestBootstrap`: what a pass writes into the VM and the Secrets agrees with
   what it has read, as an invariant with a proof.
2. `ContainerWorkspace`: a type invariant, and the workload's template against
   the Secret it mounts.
3. An abstract specification of the disk claims, as a lock that only its holder
   gives up or that falls to another after its holder is gone, and its refinement.
