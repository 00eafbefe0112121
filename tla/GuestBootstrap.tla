--------------------------- MODULE GuestBootstrap ---------------------------
(***************************************************************************)
(* What the Workspace controller prepares for the guest of a Linux VM: the *)
(* cloud-init data, inlined in the VM or kept in a Secret when it is long, *)
(* the Secret from which KubeVirt delivers SSH keys to a managed guest,    *)
(* and the memory of the VM.                                               *)
(*                                                                         *)
(* SSH keys, the Image and both Secrets are read from a cache that follows *)
(* at its own pace; the VirtualMachine is read from the API server.  The   *)
(* Workspace, its status and its disks are left to the other modules.      *)
(***************************************************************************)
EXTENDS Integers, FiniteSets

CONSTANTS
    None,        \* no such object
    Keys,        \* SSH keys of the namespace
    InlineMax,   \* inlineCloudInitMaxBytes, in units of size
    Workspaces,  \* declarations of Workspaces: requests, limits, mounts
    Usual,       \* the one of them that sees events
    Images,      \* the Image as administrators may leave it
    MaxEvents    \* edits, failed calls, restarts and guests that go down

ASSUME ConstantsAssumption ==
    /\ InlineMax \in Nat /\ MaxEvents \in Nat
    /\ Usual \in Workspaces

VARIABLES
    ws,       \* the Workspace: its declaration and whether it is stopped
    live,     \* keys, Image and Secrets in the API server
    cache,    \* the same in the controller's cache
    pending,  \* objects with a version on its way to the cache
    vm,       \* the VirtualMachine
    guest,    \* its VMI
    queued,   \* a pass is due
    pc, loc,  \* the step of the pass and what it has prepared
    events

vars == <<ws, live, cache, pending, vm, guest, queued, pc, loc, events>>
objects == <<live, pending>>
pass == <<queued, pc, loc>>

Secrets == {"cloudinit", "sshkeys"}
Objects == Secrets \cup {"keys", "image"}

-----------------------------------------------------------------------------
(* The generators.  A list of resources says whether it has a CPU and how  *)
(* much memory, 0 for none; an empty one is not copied.                    *)

DefaultGuestMemory == 2
Empty(list) == ~list.cpu /\ list.memory = 0

(* Memory from the Image, else from the template, else the fallback; but   *)
(* the fallback looks into lists that may not be there, and panics.        *)
vmDomainResources(w, img) ==
    LET podMem == IF img.memoryRequest # 0 THEN img.memoryRequest ELSE img.memoryLimit
        Memory(list) == IF img.memoryLimit # 0 THEN podMem
                        ELSE IF list.memory # 0 THEN list.memory ELSE DefaultGuestMemory
    IN [panics |-> img.memoryLimit = 0 /\ (Empty(w.limits) \/ Empty(w.requests)),
        requests |-> Memory(w.requests), limits |-> Memory(w.limits)]

(* The guest's own memory is pinned when the pod's is set apart from it.   *)
applyDomainMemoryAndCPU(w, img) ==
    [guestMemory |-> IF img.memoryRequest # 0 THEN img.memoryLimit ELSE 0,
     cores |-> w.limits.cpu]

usesGuestAgentSSH(img) == img.managed

(* The Image's user data, "none", "small", "big" or a "script" that is not *)
(* YAML, with keys merged in and the mounts of data disks.                 *)
Size(d) == (CASE d.base = "none" -> 0 [] d.base = "big" -> InlineMax + 1 [] OTHER -> 1)
              + Cardinality(d.keys) + (IF d.mounts THEN 1 ELSE 0)

injectSSHAuthorizedKeys(base, keys) == IF base = "script" THEN {} ELSE keys

cloudInitUserData(w, img, keys) ==
    [base |-> img.base, keys |-> injectSSHAuthorizedKeys(img.base, keys), mounts |-> w.mounts]

(* Data disks are mounted by cloud-config, which an Image capable of       *)
(* cloud-init need not bring along, or not at all.                         *)
CloudInitRefused(w, img) ==
    w.mounts /\ (img.base = "script" \/ (img.base = "none" /\ ~img.cloudInit))

InSecret(d) == Size(d) > InlineMax

cloudInitVolume(d) ==
    IF InSecret(d) THEN [kind |-> "secret", data |-> None]
    ELSE [kind |-> IF Size(d) = 0 THEN "none" ELSE "inline", data |-> d]

(* Cloud-init must not bring back keys that were revoked in the guest.     *)
SeedKeys(img, keys) == IF usesGuestAgentSSH(img) THEN {} ELSE keys

generateVirtualMachine(w, img, d) ==
    [running |-> ~w.stopped, cloud |-> cloudInitVolume(d),
     credentials |-> usesGuestAgentSSH(img),
     resources |-> vmDomainResources(w, img), domain |-> applyDomainMemoryAndCPU(w, img)]

-----------------------------------------------------------------------------
(* A Secret of an earlier Workspace of this name, 0, may still be there,   *)
(* and counts as an event.                                                 *)
Init ==
    /\ \E w \in Workspaces, img \in Images, ks \in SUBSET Keys, left \in SUBSET Secrets :
          /\ ws = [requests |-> w.requests, limits |-> w.limits,
                   mounts |-> w.mounts, stopped |-> FALSE]
          /\ live = [o \in Objects |->
                CASE o = "keys" -> ks
                  [] o = "image" -> img
                  [] o \in left -> [owner |-> 0, data |-> None]
                  [] OTHER -> None]
          /\ events = IF w = Usual THEN Cardinality(left) ELSE MaxEvents
    /\ cache = live /\ pending = {}
    /\ vm = None /\ guest = None
    /\ queued = TRUE /\ pc = "idle" /\ loc = None

Event == events < MaxEvents /\ events' = events + 1

(* An update needs the version the cache has; a creation that there is no  *)
(* such object.                                                            *)
Current(o) == o \notin pending
Write(o, v) == live' = [live EXCEPT ![o] = v] /\ pending' = pending \cup {o}
Own(data) == [owner |-> 1, data |-> data]

Fail == pc' = "idle" /\ loc' = None /\ queued' = TRUE
ToVM == pc' = "vm" /\ UNCHANGED <<loc, queued>>

-----------------------------------------------------------------------------
(* The pass.                                                               *)

(* The image's defaults, the keys and the data, or an error.               *)
Prepare(img) ==
    LET d == cloudInitUserData(ws, img, SeedKeys(img, cache["keys"])) IN
    IF CloudInitRefused(ws, img) THEN Fail
    ELSE /\ pc' = "cloudinit" /\ queued' = FALSE
         /\ loc' = [img |-> img, data |-> d]

(* Mutant: without keys there is nothing to do.                            *)
reconcileSSHKeySecretIfAny(img) ==
    LET wanted == Own(cache["keys"]) IN
    \/ /\ cache["keys"] # {} /\ Current("sshkeys") /\ live["sshkeys"] # wanted
       /\ Write("sshkeys", wanted)
       /\ Prepare(img)
    \/ /\ cache["keys"] = {} \/ cache["sshkeys"] = wanted
       /\ UNCHANGED objects
       /\ Prepare(img)
    \/ ~Current("sshkeys") /\ UNCHANGED objects /\ Fail

(* A Secret left by an earlier Workspace of this name is taken over: the   *)
(* reference to an owner is compared by kind and name, not by UID.         *)
reconcileSSHKeySecret(img) ==
    LET found == cache["sshkeys"]
        wanted == Own(cache["keys"])
    IN \/ /\ found = wanted
          /\ UNCHANGED objects
          /\ Prepare(img)
       \/ /\ found # wanted /\ Current("sshkeys")
          /\ Write("sshkeys", wanted)
          /\ Prepare(img)
       \/ /\ found # wanted /\ ~Current("sshkeys")
          /\ UNCHANGED objects
          /\ Fail

reconcileVMGuestBootstrap ==
    LET img == cache["image"] IN
    /\ pc = "idle" /\ queued
    /\ IF usesGuestAgentSSH(img) THEN reconcileSSHKeySecret(img)
       ELSE UNCHANGED objects /\ Prepare(img)
    /\ UNCHANGED <<ws, cache, vm, guest, events>>

(* Mutant: a Secret that exists is left as it is.                          *)
reconcileCloudInitSecretOnce ==
    /\ pc = "cloudinit"
    /\ IF InSecret(loc.data) /\ cache["cloudinit"] = None /\ Current("cloudinit")
       THEN Write("cloudinit", Own(loc.data)) ELSE UNCHANGED objects
    /\ ToVM
    /\ UNCHANGED <<ws, cache, vm, guest, events>>

(* The Secret of this name, whoever owns it, gets the data, or is deleted  *)
(* when the data fits in the VM again.                                     *)
reconcileCloudInitSecret ==
    LET found == cache["cloudinit"]
        wanted == IF ~InSecret(loc.data) THEN None
                  ELSE IF found = None THEN Own(loc.data)
                  ELSE [found EXCEPT !.data = loc.data]
        accepted == IF wanted = None THEN live["cloudinit"] # None ELSE Current("cloudinit")
    IN /\ pc = "cloudinit"
       /\ \/ /\ found = wanted
             /\ UNCHANGED objects
             /\ ToVM
          \/ /\ found # wanted /\ accepted
             /\ Write("cloudinit", wanted)
             /\ ToVM
          \/ /\ found # wanted /\ ~accepted
             /\ UNCHANGED objects
             /\ Fail
       /\ UNCHANGED <<ws, cache, vm, guest, events>>

(* What the VM has and the desired one does not mention may stay.          *)
virtualMachineNeedsUpdate(desired) ==
    \/ vm.running # desired.running
    \/ vm.cloud # desired.cloud
    \/ vm.credentials # desired.credentials
    \/ vm.resources # desired.resources
    \/ desired.domain.guestMemory \notin {0, vm.domain.guestMemory}
    \/ desired.domain.cores /\ ~vm.domain.cores

(* The admission webhook of KubeVirt.                                      *)
Admitted(desired) == desired.resources.requests <= desired.resources.limits

(* The generator may panic, or KubeVirt reject the VM, which fails the     *)
(* pass.                                                                   *)
reconcileVirtualMachine ==
    LET desired == generateVirtualMachine(ws, loc.img, loc.data)
        write == vm = None \/ virtualMachineNeedsUpdate(desired)
    IN /\ pc = "vm"
       /\ IF desired.resources.panics \/ (write /\ ~Admitted(desired))
          THEN Fail /\ UNCHANGED vm
          ELSE /\ pc' = "idle" /\ loc' = None
               /\ IF write THEN vm' = desired /\ queued' = TRUE
                  ELSE UNCHANGED <<vm, queued>>
       /\ UNCHANGED <<ws, objects, cache, guest, events>>

Pass == reconcileVMGuestBootstrap \/ reconcileCloudInitSecret \/ reconcileVirtualMachine

-----------------------------------------------------------------------------
(* The watches, failing calls and restarts.                                *)

(* The event of a key wakes every VM of the namespace, the event of an     *)
(* owned Secret its owner; there is no watch on Images, whose changes are  *)
(* met by the resync.                                                      *)
workspacesForSSHKey == TRUE

Deliver(o) ==
    /\ o \in pending
    /\ cache' = [cache EXCEPT ![o] = live[o]]
    /\ pending' = pending \ {o}
    /\ queued' = (queued \/ (o = "keys" => workspacesForSSHKey))
    /\ UNCHANGED <<ws, live, vm, guest, pc, loc, events>>

CallFails ==
    /\ Event /\ pc # "idle"
    /\ Fail
    /\ UNCHANGED <<ws, objects, cache, vm, guest>>

Restart ==
    /\ Event
    /\ cache' = live /\ pending' = {}
    /\ Fail
    /\ UNCHANGED <<ws, live, vm, guest>>

-----------------------------------------------------------------------------
(* Users and administrators.                                               *)

Edit(o, v) ==
    /\ Event
    /\ live[o] # v
    /\ Write(o, v)
    /\ UNCHANGED <<ws, cache, vm, guest, pass>>

Users ==
    \/ \E k \in Keys : Edit("keys", live["keys"] \cup {k}) \/ Edit("keys", live["keys"] \ {k})
    \/ \E img \in Images : Edit("image", img)
    \/ \E o \in Secrets : Edit(o, None)
    \/ /\ Event
       /\ ws' = [ws EXCEPT !.stopped = ~@]
       /\ queued' = TRUE
       /\ UNCHANGED <<objects, cache, vm, guest, pc, loc>>

-----------------------------------------------------------------------------
(* Kubernetes and KubeVirt.                                                *)

CollectGarbage(o) ==
    /\ live[o] # None /\ live[o].owner = 0
    /\ Write(o, None)
    /\ UNCHANGED <<ws, cache, vm, guest, pass, events>>

PutGuest(g) ==
    /\ guest' = g
    /\ queued' = TRUE
    /\ UNCHANGED <<ws, objects, cache, vm, pc, loc>>

StartGuest ==
    /\ vm # None /\ vm.running /\ guest = None
    /\ PutGuest([phase |-> "waiting", vm |-> vm, keys |-> {}])
    /\ UNCHANGED events

(* The launcher of a guest waits for the Secrets that it mounts.           *)
BootGuest ==
    LET source == guest.vm.cloud IN
    /\ guest # None /\ guest.phase = "waiting"
    /\ source.kind = "secret" => live["cloudinit"] # None /\ live["cloudinit"].data # None
    /\ PutGuest([guest EXCEPT !.phase = "up",
                              !.keys = IF source.kind = "secret" THEN live["cloudinit"].data.keys
                                       ELSE source.data.keys])
    /\ UNCHANGED events

(* KubeVirt replaces the keys in a managed guest by those of the Secret.   *)
PropagateKeys ==
    /\ guest # None /\ guest.phase = "up" /\ guest.vm.credentials
    /\ live["sshkeys"] # None /\ live["sshkeys"].data \notin {None, guest.keys}
    /\ PutGuest([guest EXCEPT !.keys = live["sshkeys"].data])
    /\ UNCHANGED events

StopGuest ==
    /\ guest # None /\ ~vm.running
    /\ PutGuest(None)
    /\ UNCHANGED events

CrashGuest == guest # None /\ Event /\ PutGuest(None)

KubeVirt == StartGuest \/ BootGuest \/ PropagateKeys \/ StopGuest

-----------------------------------------------------------------------------
Next ==
    \/ Pass
    \/ \E o \in Objects : Deliver(o)
    \/ CallFails \/ Restart \/ Users
    \/ \E o \in Secrets : CollectGarbage(o)
    \/ KubeVirt \/ CrashGuest

(* The queue is served, events arrive, and Kubernetes does its work.       *)
Fairness ==
    /\ WF_vars(Pass)
    /\ \A o \in Objects : WF_vars(Deliver(o))
    /\ \A o \in Secrets : WF_vars(CollectGarbage(o))
    /\ WF_vars(StartGuest) /\ WF_vars(BootGuest)
    /\ WF_vars(PropagateKeys) /\ WF_vars(StopGuest)

Spec == Init /\ [][Next]_vars /\ Fairness

-----------------------------------------------------------------------------
(* Properties.                                                             *)

(* An Image that sets the guest's memory decides, by its request if it has *)
(* one; without such an Image the template does, else the fallback.        *)
DeclaredMemory(img, declared) ==
    CASE img.memoryLimit # 0 /\ img.memoryRequest # 0 -> img.memoryRequest
      [] img.memoryLimit # 0 /\ img.memoryRequest = 0 -> img.memoryLimit
      [] img.memoryLimit = 0 /\ declared # 0 -> declared
      [] OTHER -> DefaultGuestMemory

(* The generator panics without this.                                      *)
Generated(img) == img.memoryLimit # 0 \/ (~Empty(ws.requests) /\ ~Empty(ws.limits))

(* Once left alone, the VM is the one its Workspace, Image and keys ask    *)
(* for; where it refers to the cloud-init Secret, that is there, is the    *)
(* Workspace's own and holds the present data; elsewhere no Secret is left *)
(* over; and the memory is what is declared; unless the generator panics,  *)
(* cannot mount the disks, or ends with a request above the limit          *)
(* (reconcileCloudInitSecret, vmDomainResources, cloudInitVolume).         *)
VMSettles ==
    <>[](LET img == live["image"]
             requests == DeclaredMemory(img, ws.requests.memory)
             limits == DeclaredMemory(img, ws.limits.memory)
             seeded == IF img.managed \/ img.base = "script" THEN {} ELSE live["keys"]
             d == [base |-> img.base, keys |-> seeded, mounts |-> ws.mounts]
         IN Generated(img) /\ requests <= limits /\ ~CloudInitRefused(ws, img) =>
              /\ vm # None
              /\ vm.running = ~ws.stopped
              /\ vm.credentials = img.managed
              /\ vm.cloud = cloudInitVolume(d)
              /\ live["cloudinit"] = IF InSecret(d) THEN Own(d) ELSE None
              /\ vm.resources.requests = requests
              /\ vm.resources.limits = limits)

(* In the end a managed guest has exactly the keys of the namespace: a key *)
(* that was deleted, the last one too, is gone from it, and cloud-init     *)
(* does not bring it back (reconcileSSHKeySecret).                         *)
KeysFollow ==
    <>[](live["image"].managed /\ guest # None /\ guest.phase = "up"
            /\ guest.vm.credentials
          => guest.keys = live["keys"])

=============================================================================
