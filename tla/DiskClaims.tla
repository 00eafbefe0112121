----------------------------- MODULE DiskClaims -----------------------------
(***************************************************************************)
(* Writable data disks shared between VM Workspaces of one namespace: the  *)
(* claim a pass writes on a DataVolume, the VirtualMachine it then writes, *)
(* and the guests KubeVirt runs from it.                                   *)
(*                                                                         *)
(* One worker runs one pass at a time, for any Workspace, from a version   *)
(* the watch has delivered.  Claims, Workspaces and guests are read live   *)
(* (APIReader), each with a call of its own, so users, KubeVirt and the    *)
(* garbage collector act between the checks and the claim.                 *)
(***************************************************************************)
EXTENDS Integers

CONSTANTS
    Names,           \* Workspace names; VM and VMI carry the same name
    Disks,           \* DataVolume names, in the order they sort
    MountSets,       \* the sets of disks a new Workspace may mount
    EditSets,        \* the sets of disks an edit may have it mount
    NoClaim,         \* a DataVolume without the owner annotation
    MaxEvents        \* what users do, failing calls, restarts and crashes

Claim == [name : Names, uid : Nat]

ASSUME ConstantsAssumption ==
    /\ Names # {}
    /\ Disks \subseteq Nat
    /\ NoClaim \notin Claim
    /\ MountSets \subseteq SUBSET Disks
    /\ EditSets \subseteq SUBSET Disks
    /\ MaxEvents \in Nat

VARIABLES
    ws,        \* Workspace objects in the API server
    known,     \* the version the cache holds and those still to come
    claim,     \* the owner annotation of each DataVolume
    doomed,    \* DataVolumes being deleted
    vm,        \* VirtualMachine objects
    vmi,       \* guests: whether one exists and the disks it has open
    pc,        \* the step of the pass, "idle" between passes
    me,        \* the name the pass reconciles
    inst,      \* the version it started from
    todo,      \* mounted disks it has still to claim
    held,      \* the claim it read on the disk at hand
    dirty,     \* that disk has been written since
    events,    \* events so far
    edited     \* names whose Workspace had its mounts edited since creation

vars == <<ws, known, claim, doomed, vm, vmi, pc, me, inst, todo, held, dirty,
          events, edited>>
objects == <<ws, known>>
machines == <<vm, vmi>>
pass == <<pc, me, inst, todo, held, dirty>>
history == <<events, edited>>

Workspace == [phase : {"live", "terminating", "gone"}, uid : Nat, rv : Nat,
              mounts : SUBSET Disks, stopped : BOOLEAN]
VirtualMachine == [live : BOOLEAN, owner : Nat, disks : SUBSET Disks,
                   running : BOOLEAN, deleting : BOOLEAN]
Guest == [live : BOOLEAN, disks : SUBSET Disks]

TypeOK ==
    /\ ws \in [Names -> Workspace]
    /\ known \in [Names -> SUBSET Workspace]
    /\ claim \in [Disks -> Claim \cup {NoClaim}]
    /\ doomed \subseteq Disks
    /\ vm \in [Names -> VirtualMachine]
    /\ vmi \in [Names -> Guest]
    /\ pc \in {"idle", "claim", "readOwner", "readVMI", "update"}
    /\ me \in Names
    /\ inst \in Workspace
    /\ todo \subseteq Disks
    /\ held \in Claim \cup {NoClaim}
    /\ dirty \in BOOLEAN
    /\ events \in Nat
    /\ edited \subseteq Names

(* The first Workspace to be created; the names are interchangeable.       *)
First == CHOOSE n \in Names : TRUE

Absent == [phase |-> "gone", uid |-> 0, rv |-> 0, mounts |-> {},
           stopped |-> FALSE]

Created(m) == [phase |-> "live", uid |-> 1, rv |-> 1, mounts |-> m,
               stopped |-> FALSE]

Init ==
    /\ \E m \in MountSets :
          ws = [n \in Names |-> IF n = First THEN Created(m) ELSE Absent]
    /\ known = [n \in Names |-> {ws[n]}]
    /\ claim = [d \in Disks |-> NoClaim]
    /\ doomed = {}
    /\ vm = [n \in Names |-> [live |-> FALSE, owner |-> 0, disks |-> {},
                              running |-> FALSE, deleting |-> FALSE]]
    /\ vmi = [n \in Names |-> [live |-> FALSE, disks |-> {}]]
    /\ pc = "idle"
    /\ me = First
    /\ inst = Absent
    /\ todo = {}
    /\ held = NoClaim
    /\ dirty = FALSE
    /\ events = 0
    /\ edited = {}

Event ==
    /\ events < MaxEvents
    /\ events' = events + 1

-----------------------------------------------------------------------------
(* The pass.                                                               *)

EndPass ==
    /\ pc' = "idle"
    /\ inst' = Absent
    /\ todo' = {}
    /\ held' = NoClaim
    /\ dirty' = FALSE
    /\ me' = First

Reconcile(n) ==
    /\ pc = "idle"
    /\ \E v \in known[n] :
          /\ v.phase = "live"
          /\ known' = [known EXCEPT ![n] = {u \in @ : u.rv >= v.rv}]
          /\ inst' = v
          /\ todo' = v.mounts
    /\ me' = n
    /\ pc' = "claim"
    /\ UNCHANGED <<ws, claim, doomed, machines, held, dirty, history>>

(* The annotation: the Workspace's name and UID.                           *)
Mine == [name |-> me, uid |-> inst.uid]

(* Mutant: the order in which the mounts happen to be declared.            *)
NextDiskDeclared(d) == d \in todo

(* claimVMDisks sorts the mount names.                                     *)
NextDisk(d) == d \in todo /\ \A e \in todo : d <= e

Claimed(d) ==
    /\ todo' = todo \ {d}
    /\ held' = NoClaim
    /\ dirty' = FALSE
    /\ pc' = "claim"
    /\ UNCHANGED <<me, inst>>

(* claimVMDataVolume reads the disk: a terminating one is refused, its own *)
(* claim is enough, a foreign one is looked into, a free one is taken.     *)
readDisk ==
    /\ pc = "claim"
    /\ \E d \in Disks :
          /\ NextDisk(d)
          /\ \/ /\ d \in doomed
                /\ EndPass
             \/ /\ d \notin doomed
                /\ claim[d] = Mine
                /\ Claimed(d)
             \/ /\ d \notin doomed
                /\ claim[d] # Mine
                /\ held' = claim[d]
                /\ dirty' = FALSE
                /\ pc' = IF claim[d] = NoClaim THEN "update" ELSE "readOwner"
                /\ UNCHANGED <<me, inst, todo>>
    /\ UNCHANGED <<objects, claim, doomed, machines, history>>

(* Mutants: a Workspace being deleted counts as gone; every claim stands.  *)
OwnerServing(c) == ws[c.name].uid = c.uid /\ ws[c.name].phase = "live"
OwnerAssumed(c) == c # NoClaim

(* The Workspace the claim names still exists, being deleted or not.       *)
OwnerExists(c) == ws[c.name].phase # "gone" /\ ws[c.name].uid = c.uid

readOwner ==
    /\ pc = "readOwner"
    /\ \/ OwnerExists(held) /\ EndPass
       \/ /\ ~OwnerExists(held)
          /\ pc' = "readVMI"
          /\ UNCHANGED <<me, inst, todo, held, dirty>>
    /\ UNCHANGED <<objects, claim, doomed, machines, history>>

(* The guest is looked up under the name alone.                            *)
GuestExists(c) == vmi[c.name].live

readVMI ==
    /\ pc = "readVMI"
    /\ \/ GuestExists(held) /\ EndPass
       \/ /\ ~GuestExists(held)
          /\ pc' = "update"
          /\ UNCHANGED <<me, inst, todo, held, dirty>>
    /\ UNCHANGED <<objects, claim, doomed, machines, history>>

(* The update is refused when the disk was written since it was read; the  *)
(* whole claim is then tried again, until the retries run out.             *)
updateDisk ==
    /\ pc = "update"
    /\ \E d \in Disks :
          /\ NextDisk(d)
          /\ \/ /\ ~dirty
                /\ claim' = [claim EXCEPT ![d] = Mine]
                /\ Claimed(d)
             \/ /\ dirty
                /\ pc' = "claim"
                /\ UNCHANGED <<claim, me, inst, todo, held, dirty>>
             \/ /\ dirty
                /\ EndPass
                /\ UNCHANGED claim
    /\ UNCHANGED <<objects, doomed, machines, history>>

DesiredVM(v) == [disks |-> v.mounts, running |-> ~v.stopped]

(* Mutant: the VM is written before every mount has been claimed.          *)
reconcileVirtualMachineEarly ==
    /\ pc = "claim"
    /\ vm' = [vm EXCEPT ![me] =
                 IF ~@.live
                 THEN [live |-> TRUE, owner |-> inst.uid,
                       disks |-> DesiredVM(inst).disks,
                       running |-> DesiredVM(inst).running,
                       deleting |-> FALSE]
                 ELSE IF @.deleting
                 THEN @
                 ELSE [@ EXCEPT !.disks = DesiredVM(inst).disks,
                                !.running = DesiredVM(inst).running]]
    /\ EndPass
    /\ UNCHANGED <<objects, claim, doomed, vmi, history>>

(* With every mount claimed, the VM is created, or updated in place unless *)
(* it is being deleted.  Who owns an existing VM is not compared.  The     *)
(* Workspace is looked up once more just before, and must be there.        *)
reconcileVirtualMachine ==
    /\ pc = "claim"
    /\ todo = {}
    /\ \/ vm' = [vm EXCEPT ![me] =
                    IF ~@.live
                    THEN [live |-> TRUE, owner |-> inst.uid,
                          disks |-> DesiredVM(inst).disks,
                          running |-> DesiredVM(inst).running,
                          deleting |-> FALSE]
                    ELSE IF @.deleting
                    THEN @
                    ELSE [@ EXCEPT !.disks = DesiredVM(inst).disks,
                                   !.running = DesiredVM(inst).running]]
       \/ ws[me].phase = "gone" /\ UNCHANGED vm
    /\ EndPass
    /\ UNCHANGED <<objects, claim, doomed, vmi, history>>

(* A pass that finds a user's reset request deletes the VM and claims      *)
(* nothing.                                                                *)
handleReset(n) ==
    /\ pc = "idle"
    /\ Event
    /\ \E v \in known[n] : v.phase = "live"
    /\ vm[n].live
    /\ ~vm[n].deleting
    /\ vm' = [vm EXCEPT ![n].deleting = TRUE]
    /\ UNCHANGED <<objects, claim, doomed, vmi, pass, edited>>

(* An API call fails or the process restarts: the claims made so far stay. *)
Interrupt ==
    /\ pc # "idle"
    /\ EndPass
    /\ Event
    /\ UNCHANGED <<objects, claim, doomed, machines, edited>>

Steps == readDisk \/ readOwner \/ readVMI \/ updateDisk \/ reconcileVirtualMachine

-----------------------------------------------------------------------------
(* Users.                                                                  *)

Write(n, v) ==
    /\ ws' = [ws EXCEPT ![n] = [v EXCEPT !.rv = ws[n].rv + 1]]
    /\ known' = [known EXCEPT ![n] = @ \cup {ws'[n]}]
    /\ UNCHANGED <<claim, doomed, machines, pass>>

UserWrites(n, v) ==
    /\ Event
    /\ Write(n, v)

CreateWorkspace(n) ==
    /\ ws[n].phase = "gone"
    /\ edited' = edited \ {n}
    /\ \E m \in MountSets :
          UserWrites(n, [ws[n] EXCEPT !.phase = "live", !.uid = @ + 1,
                                      !.mounts = m, !.stopped = FALSE])

EditWorkspace(n) ==
    /\ ws[n].phase = "live"
    /\ \/ /\ UserWrites(n, [ws[n] EXCEPT !.stopped = ~@])
          /\ UNCHANGED edited
       \/ /\ edited' = edited \cup {n}
          /\ \E m \in EditSets \ {ws[n].mounts} :
                UserWrites(n, [ws[n] EXCEPT !.mounts = m])

DeleteWorkspace(n) ==
    /\ ws[n].phase = "live"
    /\ \E p \in {"terminating", "gone"} :
          UserWrites(n, [ws[n] EXCEPT !.phase = p])
    /\ UNCHANGED edited

DeleteDisk(d) ==
    /\ Event
    /\ d \notin doomed
    /\ doomed' = doomed \cup {d}
    /\ dirty' = (dirty \/ NextDisk(d))
    /\ UNCHANGED <<objects, claim, machines, pc, me, inst, todo, held, edited>>

(* CDI reports progress on the DataVolume the pass is looking at.          *)
TouchDisk ==
    /\ pc \in {"readOwner", "readVMI", "update"}
    /\ ~dirty
    /\ dirty' = TRUE
    /\ Event
    /\ UNCHANGED <<objects, claim, doomed, machines, pc, me, inst, todo, held,
                   edited>>

-----------------------------------------------------------------------------
(* Kubernetes and KubeVirt.                                                *)

DeliverWorkspace(n) ==
    /\ \E v \in known[n] :
          /\ \E u \in known[n] : u.rv < v.rv
          /\ known' = [known EXCEPT ![n] = {u \in @ : u.rv >= v.rv}]
    /\ UNCHANGED <<ws, claim, doomed, machines, pass, history>>

Owned(n) == vm[n].owner = ws[n].uid

RemoveWorkspace(n) ==
    /\ ws[n].phase = "terminating"
    /\ ~(vm[n].live /\ Owned(n))
    /\ Write(n, [ws[n] EXCEPT !.phase = "gone"])
    /\ UNCHANGED history

CollectGarbage(n) ==
    /\ vm[n].live
    /\ ~vm[n].deleting
    /\ ~Owned(n) \/ ws[n].phase # "live"
    /\ vm' = [vm EXCEPT ![n].deleting = TRUE]
    /\ UNCHANGED <<objects, claim, doomed, vmi, pass, history>>

RemoveVM(n) ==
    /\ vm[n].live
    /\ vm[n].deleting
    /\ ~vmi[n].live
    /\ vm' = [vm EXCEPT ![n].live = FALSE]
    /\ UNCHANGED <<objects, claim, doomed, vmi, pass, history>>

StartGuest(n) ==
    /\ vm[n].live /\ vm[n].running /\ ~vm[n].deleting
    /\ ~vmi[n].live
    /\ vmi' = [vmi EXCEPT ![n] = [live |-> TRUE, disks |-> vm[n].disks]]
    /\ UNCHANGED <<objects, claim, doomed, vm, pass, history>>

StopGuest(n) ==
    /\ vmi[n].live
    /\ ~vm[n].running \/ vm[n].deleting
    /\ vmi' = [vmi EXCEPT ![n] = [live |-> FALSE, disks |-> {}]]
    /\ UNCHANGED <<objects, claim, doomed, vm, pass, history>>

CrashGuest(n) ==
    /\ vmi[n].live
    /\ vmi' = [vmi EXCEPT ![n] = [live |-> FALSE, disks |-> {}]]
    /\ Event
    /\ UNCHANGED <<objects, claim, doomed, vm, pass, edited>>

Cluster(n) ==
    \/ DeliverWorkspace(n)
    \/ RemoveWorkspace(n)
    \/ CollectGarbage(n)
    \/ RemoveVM(n)
    \/ StartGuest(n)
    \/ StopGuest(n)

User(n) == CreateWorkspace(n) \/ EditWorkspace(n) \/ DeleteWorkspace(n)

Next ==
    \/ Steps
    \/ Interrupt
    \/ TouchDisk
    \/ \E d \in Disks : DeleteDisk(d)
    \/ \E n \in Names :
          \/ Reconcile(n)
          \/ handleReset(n)
          \/ User(n)
          \/ Cluster(n)
          \/ CrashGuest(n)

Spec == Init /\ [][Next]_vars

(* The work queue is first in, first out and never drops a name for good,  *)
(* so no Workspace is passed over for ever; a pass ends; the watch, the    *)
(* garbage collector and KubeVirt keep working.                            *)
FairSpec ==
    /\ Spec
    /\ WF_vars(Steps)
    /\ \A n \in Names :
          /\ SF_vars(Reconcile(n))
          /\ WF_vars(DeliverWorkspace(n))
          /\ WF_vars(RemoveWorkspace(n))
          /\ WF_vars(CollectGarbage(n))
          /\ WF_vars(RemoveVM(n))
          /\ WF_vars(StartGuest(n))
          /\ WF_vars(StopGuest(n))

-----------------------------------------------------------------------------
(* Properties.                                                             *)

HeldBy(d, n) == claim[d] = [name |-> n, uid |-> ws[n].uid]

(* The claim of a Workspace that exists is never taken from it, although   *)
(* three reads lie between looking at the claim and replacing it, and the  *)
(* claimant may be deleted and re-created meanwhile (claimVMDataVolume).   *)
ClaimNeverStolen ==
    [][\A n \in Names, d \in Disks :
          ws[n].phase # "gone" /\ HeldBy(d, n) => claim'[d] = claim[d]]_vars

(* Every disk in the VM a Workspace owns, or open in its guest, is claimed *)
(* by that very Workspace object: through stops, resets, edited mounts,    *)
(* half-finished passes and passes started from an outdated version.       *)
DisksClaimed ==
    \A n \in Names :
        ws[n].phase # "gone" /\ vm[n].live /\ Owned(n) =>
            \A d \in vm[n].disks \cup vmi[n].disks : HeldBy(d, n)

(* Two Workspaces that exist never have a disk open at the same time, each *)
(* in a guest of its own.                                                  *)
Runs(n) == ws[n].phase # "gone" /\ vm[n].live /\ Owned(n)

LiveConsumersExclusive ==
    \A n, m \in Names :
        n # m /\ Runs(n) /\ Runs(m) => vmi[n].disks \cap vmi[m].disks = {}

(* The inductive invariant.  Versions are ordered and none is newer than   *)
(* the server's (VersionsOrdered); no VM or claim comes from a version     *)
(* still to be delivered (OwnersKnown); a guest belongs to a VM            *)
(* (GuestHasVM); a pass holds the claims it has worked through, and the    *)
(* claim it is about to replace is the one it read, whose owner is gone    *)
(* for good (PassClaims).                                                  *)
VersionsOrdered ==
    \A n \in Names :
        /\ ws[n] \in known[n]
        /\ \A v \in known[n] : v.rv <= ws[n].rv /\ v.uid <= ws[n].uid
        /\ \A u, v \in known[n] : u.rv <= v.rv => u.uid <= v.uid

OwnersKnown ==
    /\ \A n \in Names : \A v \in known[n] : vm[n].owner <= v.uid
    /\ \A d \in Disks : claim[d] # NoClaim => claim[d].uid <= ws[claim[d].name].uid
    /\ held # NoClaim => held.uid <= ws[held.name].uid

GuestHasVM ==
    \A n \in Names :
        /\ vmi[n].live => vm[n].live
        /\ ~vmi[n].live => vmi[n].disks = {}

PassClaims ==
    pc # "idle" =>
        /\ vm[me].owner <= inst.uid
        /\ \A v \in known[me] : inst.uid <= v.uid
        /\ \A d \in inst.mounts \ todo : claim[d] = Mine
        /\ pc # "claim" => \A d \in Disks : NextDisk(d) => claim[d] = held
        /\ pc \in {"readVMI", "update"} /\ held # NoClaim => ~OwnerExists(held)

ClaimInvariant ==
    /\ VersionsOrdered
    /\ OwnersKnown
    /\ GuestHasVM
    /\ PassClaims
    /\ DisksClaimed

(* Two Workspaces whose mounts were not edited since they were created do  *)
(* not end up waiting for each other's disk: claimVMDisks claims in sorted *)
(* order and stops at the first disk it cannot have.                       *)
NoCircularWait ==
    \A n, m \in Names, d, e \in Disks :
        ~(/\ n # m /\ d # e
          /\ n \notin edited /\ m \notin edited
          /\ ws[n].phase = "live" /\ ws[m].phase = "live"
          /\ {d, e} \subseteq ws[n].mounts /\ {d, e} \subseteq ws[m].mounts
          /\ HeldBy(d, n) /\ HeldBy(e, m))

(* "must not permit two writable consumers" (vm_disks_test.go): no two     *)
(* guests have the same disk open.                                         *)
SingleConsumer ==
    \A n, m \in Names : n # m => vmi[n].disks \cap vmi[m].disks = {}

(* "a deleted Workspace's claim can be reclaimed once its VMI is gone"     *)
(* (vm_disks.go): a disk whose claimant is gone does not stay out of reach *)
(* of a Workspace that mounts it alone, whatever fails on the way, unless  *)
(* a new Workspace of the claimant's name runs a guest: claimVMDataVolume  *)
(* looks the guest up by name, takes that one for the claimant's and       *)
(* refuses for as long as it lives (Blocked).                              *)
Orphaned(d) ==
    /\ claim[d] # NoClaim
    /\ d \notin doomed
    /\ \A n \in Names : ws[n].phase # "gone" => ~HeldBy(d, n)

Wanted(d) == \E n \in Names : ws[n].phase = "live" /\ ws[n].mounts = {d}

Blocked(d) ==
    /\ claim[d] # NoClaim
    /\ ws[claim[d].name].phase # "gone"
    /\ GuestExists(claim[d])

ReclaimCompletes ==
    \A d \in Disks :
        (Orphaned(d) /\ Wanted(d)) ~>
            (~(Orphaned(d) /\ Wanted(d)) \/ Blocked(d))

=============================================================================
