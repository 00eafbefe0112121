-------------------------- MODULE DiskClaimsProofs --------------------------
(***************************************************************************)
(* Proofs about DiskClaims for any number of Workspaces and disks.         *)
(***************************************************************************)
EXTENDS DiskClaims, TLAPS

USE ConstantsAssumption

LEMMA AbsentType == Absent \in Workspace
BY DEF Absent, Workspace

LEMMA FirstType == First \in Names
BY DEF First

LEMMA InitType == Init => TypeOK
<1> SUFFICES ASSUME Init PROVE TypeOK
  OBVIOUS
<1>0. ASSUME NEW m \in MountSets PROVE Created(m) \in Workspace
  BY DEF Created, Workspace
<1>1. ws \in [Names -> Workspace] /\ known \in [Names -> SUBSET Workspace]
  BY <1>0, AbsentType DEF Init
<1>2. vm \in [Names -> VirtualMachine]
  BY DEF Init, VirtualMachine
<1>3. vmi \in [Names -> Guest]
  BY DEF Init, Guest
<1> QED
  BY <1>1, <1>2, <1>3, AbsentType, FirstType DEF Init, TypeOK

LEMMA EndPassType ==
  ASSUME TypeOK, EndPass
  PROVE  /\ pc' = "idle" /\ me' \in Names /\ inst' \in Workspace
         /\ todo' \subseteq Disks /\ held' \in Claim \cup {NoClaim}
         /\ dirty' \in BOOLEAN
BY AbsentType, FirstType DEF EndPass, TypeOK

LEMMA MineType == TypeOK => Mine \in Claim
BY DEF TypeOK, Mine, Claim, Workspace

LEMMA WriteType ==
  ASSUME TypeOK, NEW n \in Names, NEW v \in Workspace, Write(n, v),
         events' \in Nat, edited' \subseteq Names
  PROVE  TypeOK'
<1>0. ws[n].rv + 1 \in Nat
  BY DEF TypeOK, Workspace
<1>1. [v EXCEPT !.rv = ws[n].rv + 1] \in Workspace
  BY <1>0 DEF Workspace
<1>2. ws' \in [Names -> Workspace]
  BY <1>1 DEF Write, TypeOK
<1>3. known' \in [Names -> SUBSET Workspace]
  <2>1. ws'[n] \in Workspace
    BY <1>2
  <2> QED
    BY <2>1 DEF Write, TypeOK
<1> QED
  BY <1>2, <1>3 DEF Write, TypeOK, machines, pass

LEMMA NextType ==
  ASSUME TypeOK, [Next]_vars
  PROVE  TypeOK'
<1>1. CASE readDisk
  <2>1. UNCHANGED <<objects, claim, doomed, machines, history>>
    BY <1>1 DEF readDisk
  <2>2. CASE EndPass
    BY <2>1, <2>2, EndPassType DEF TypeOK, objects, machines, history
  <2>3. CASE ~EndPass
    BY <1>1, <2>1, <2>3 DEF readDisk, Claimed, TypeOK, objects, machines, history
  <2> QED BY <2>2, <2>3
<1>2. CASE readOwner \/ readVMI
  <2>1. UNCHANGED <<objects, claim, doomed, machines, history>>
    BY <1>2 DEF readOwner, readVMI
  <2>2. CASE EndPass
    BY <2>1, <2>2, EndPassType DEF TypeOK, objects, machines, history
  <2>3. CASE ~EndPass
    BY <1>2, <2>1, <2>3 DEF readOwner, readVMI, TypeOK, objects, machines, history
  <2> QED BY <2>2, <2>3
<1>3. CASE updateDisk
  <2>1. UNCHANGED <<objects, doomed, machines, history>>
    BY <1>3 DEF updateDisk
  <2>2. claim' \in [Disks -> Claim \cup {NoClaim}]
    BY <1>3, MineType DEF updateDisk, TypeOK
  <2>3. CASE EndPass
    BY <2>1, <2>2, <2>3, EndPassType DEF TypeOK, objects, machines, history
  <2>4. CASE ~EndPass
    BY <1>3, <2>1, <2>2, <2>4 DEF updateDisk, Claimed, TypeOK, objects, machines,
       history
  <2> QED BY <2>3, <2>4
<1>4. CASE reconcileVirtualMachine
  <2> DEFINE fresh == [live |-> TRUE, owner |-> inst.uid,
                       disks |-> DesiredVM(inst).disks,
                       running |-> DesiredVM(inst).running, deleting |-> FALSE]
             changed == [vm[me] EXCEPT !.disks = DesiredVM(inst).disks,
                                       !.running = DesiredVM(inst).running]
  <2>a. inst.uid \in Nat /\ inst.mounts \in SUBSET Disks /\ me \in Names
    BY DEF TypeOK, Workspace
  <2>b. fresh \in VirtualMachine
    BY <2>a DEF DesiredVM, VirtualMachine
  <2>c. vm[me] \in VirtualMachine
    BY DEF TypeOK
  <2>d. changed \in VirtualMachine
    BY <2>a, <2>c DEF DesiredVM, VirtualMachine
  <2>e. \/ vm' = [vm EXCEPT ![me] = IF ~vm[me].live THEN fresh
                                    ELSE IF vm[me].deleting THEN vm[me] ELSE changed]
        \/ vm' = vm
    BY <1>4 DEF reconcileVirtualMachine
  <2> HIDE DEF fresh, changed
  <2>1. vm' \in [Names -> VirtualMachine]
    BY <2>b, <2>c, <2>d, <2>e DEF TypeOK
  <2> QED
    BY <1>4, <2>1, EndPassType DEF reconcileVirtualMachine, TypeOK, objects, history
<1>5. CASE Interrupt
  BY <1>5, EndPassType DEF Interrupt, Event, TypeOK, objects, machines
<1>6. CASE TouchDisk
  BY <1>6 DEF TouchDisk, Event, TypeOK, objects, machines
<1>7. ASSUME NEW d \in Disks, DeleteDisk(d) PROVE TypeOK'
  <2>1. dirty' \in BOOLEAN
    BY <1>7 DEF DeleteDisk
  <2> QED
    BY <1>7, <2>1 DEF DeleteDisk, Event, TypeOK, objects, machines
<1>8. ASSUME NEW n \in Names, Reconcile(n) PROVE TypeOK'
  <2>1. PICK v \in known[n] :
            /\ known' = [known EXCEPT ![n] = {u \in @ : u.rv >= v.rv}]
            /\ inst' = v
            /\ todo' = v.mounts
    BY <1>8 DEF Reconcile
  <2>2. v \in Workspace
    BY DEF TypeOK
  <2>3. v.mounts \subseteq Disks
    BY <2>2 DEF Workspace
  <2>4. known' \in [Names -> SUBSET Workspace]
    BY <2>1 DEF TypeOK
  <2> QED
    BY <1>8, <2>1, <2>2, <2>3, <2>4 DEF Reconcile, TypeOK, machines, history
<1>9. ASSUME NEW n \in Names, handleReset(n) PROVE TypeOK'
  <2>0. vm[n] \in VirtualMachine
    BY DEF TypeOK
  <2>1. [vm[n] EXCEPT !.deleting = TRUE] \in VirtualMachine
    BY <2>0 DEF VirtualMachine
  <2>2. vm' \in [Names -> VirtualMachine]
    BY <1>9, <2>1 DEF handleReset, TypeOK
  <2> QED
    BY <1>9, <2>2 DEF handleReset, Event, TypeOK, objects, pass
<1>10. ASSUME NEW n \in Names, NEW v \in Workspace, UserWrites(n, v),
              edited' \subseteq Names
       PROVE  TypeOK'
  BY <1>10, WriteType DEF UserWrites, Event, TypeOK
<1>11. ASSUME NEW n \in Names, CreateWorkspace(n) PROVE TypeOK'
  <2>1. PICK m \in SUBSET Disks :
            UserWrites(n, [ws[n] EXCEPT !.phase = "live", !.uid = @ + 1,
                                        !.mounts = m, !.stopped = FALSE])
    BY <1>11 DEF CreateWorkspace
  <2>2. ws[n] \in Workspace /\ ws[n].uid + 1 \in Nat
    BY DEF TypeOK, Workspace
  <2>3. ASSUME NEW u \in Nat
        PROVE  [ws[n] EXCEPT !.phase = "live", !.uid = u,
                             !.mounts = m, !.stopped = FALSE] \in Workspace
    BY <2>2 DEF Workspace
  <2>4. edited' \subseteq Names
    BY <1>11 DEF CreateWorkspace, TypeOK
  <2> QED BY <1>10, <2>1, <2>2, <2>3, <2>4
<1>12. ASSUME NEW n \in Names, EditWorkspace(n) PROVE TypeOK'
  <2>1. ws[n] \in Workspace
    BY DEF TypeOK
  <2>2. [ws[n] EXCEPT !.stopped = ~@] \in Workspace
    BY <2>1 DEF Workspace
  <2>3. \A m \in SUBSET Disks : [ws[n] EXCEPT !.mounts = m] \in Workspace
    BY <2>1 DEF Workspace
  <2>4. edited' \subseteq Names
    BY <1>12 DEF EditWorkspace, TypeOK
  <2> QED BY <1>10, <1>12, <2>2, <2>3, <2>4 DEF EditWorkspace
<1>13. ASSUME NEW n \in Names, DeleteWorkspace(n) PROVE TypeOK'
  <2>1. ws[n] \in Workspace
    BY DEF TypeOK
  <2>2. \A p \in {"terminating", "gone"} : [ws[n] EXCEPT !.phase = p] \in Workspace
    BY <2>1 DEF Workspace
  <2> QED BY <1>10, <1>13, <2>2 DEF DeleteWorkspace, TypeOK
<1>14. ASSUME NEW n \in Names, DeliverWorkspace(n) PROVE TypeOK'
  BY <1>14 DEF DeliverWorkspace, TypeOK, machines, pass, history
<1>15. ASSUME NEW n \in Names, RemoveWorkspace(n) PROVE TypeOK'
  <2>1. ws[n] \in Workspace
    BY DEF TypeOK
  <2>2. [ws[n] EXCEPT !.phase = "gone"] \in Workspace
    BY <2>1 DEF Workspace
  <2> QED BY <1>15, <2>2, WriteType DEF RemoveWorkspace, TypeOK, history
<1>16. ASSUME NEW n \in Names, CollectGarbage(n) \/ RemoveVM(n) PROVE TypeOK'
  <2>1. vm[n] \in VirtualMachine
    BY DEF TypeOK
  <2>2. /\ [vm[n] EXCEPT !.deleting = TRUE] \in VirtualMachine
        /\ [vm[n] EXCEPT !.live = FALSE] \in VirtualMachine
    BY <2>1 DEF VirtualMachine
  <2>3. vm' \in [Names -> VirtualMachine]
    BY <1>16, <2>2 DEF CollectGarbage, RemoveVM, TypeOK
  <2> QED
    BY <1>16, <2>3 DEF CollectGarbage, RemoveVM, TypeOK, objects, pass, history
<1>17. ASSUME NEW n \in Names, StartGuest(n) \/ StopGuest(n) \/ CrashGuest(n)
       PROVE  TypeOK'
  <2>1. vm[n].disks \in SUBSET Disks
    BY DEF TypeOK, VirtualMachine
  <2>2. /\ [live |-> TRUE, disks |-> vm[n].disks] \in Guest
        /\ [live |-> FALSE, disks |-> {}] \in Guest
    BY <2>1 DEF Guest
  <2>3. vmi' \in [Names -> Guest]
    BY <1>17, <2>2 DEF StartGuest, StopGuest, CrashGuest, TypeOK
  <2>4. /\ UNCHANGED <<ws, known, claim, doomed, vm, pc, me, inst, todo, held, dirty>>
        /\ edited' = edited /\ events' \in Nat
    BY <1>17 DEF StartGuest, StopGuest, CrashGuest, Event, TypeOK, objects, pass,
       history
  <2> QED
    BY <1>17, <2>3, <2>4 DEF TypeOK
<1>18. CASE UNCHANGED vars
  BY <1>18 DEF vars, TypeOK
<1> QED
  BY <1>1, <1>2, <1>3, <1>4, <1>5, <1>6, <1>7, <1>8, <1>9, <1>11, <1>12, <1>13,
     <1>14, <1>15, <1>16, <1>17, <1>18 DEF Next, Steps, User, Cluster

-----------------------------------------------------------------------------
(* The claim invariant.                                                    *)

LEMMA InitClaims == Init => ClaimInvariant
<1> SUFFICES ASSUME Init PROVE ClaimInvariant
  OBVIOUS
<1>1. \A n \in Names : ws[n].rv \in Nat /\ ws[n].uid \in Nat
  BY InitType DEF TypeOK, Workspace
<1>2. \A n \in Names : known[n] = {ws[n]}
  BY DEF Init
<1>3. VersionsOrdered
  <2> SUFFICES ASSUME NEW n \in Names
               PROVE  /\ ws[n] \in known[n]
                      /\ \A v \in known[n] : v.rv <= ws[n].rv /\ v.uid <= ws[n].uid
                      /\ \A u, v \in known[n] : u.rv <= v.rv => u.uid <= v.uid
    BY DEF VersionsOrdered
  <2>1. \A v \in known[n] : v = ws[n]
    BY <1>2
  <2>2. ws[n] \in known[n]
    BY <1>2
  <2> QED BY <1>1, <2>1, <2>2
<1>4. OwnersKnown
  BY <1>1, <1>2 DEF Init, OwnersKnown
<1> QED
  BY <1>3, <1>4 DEF Init, ClaimInvariant, GuestHasVM, PassClaims, DisksClaimed

(* A pass that ends holds nothing.                                         *)
LEMMA EndPassClaims ==
  ASSUME EndPass
  PROVE  PassClaims' /\ held' = NoClaim
BY DEF EndPass, PassClaims

(* A Workspace is only ever written with a UID at least as new, and a new  *)
(* UID comes only after the old object has gone.                           *)
LEMMA WriteClaims ==
  ASSUME TypeOK, TypeOK', ClaimInvariant, NEW n \in Names, NEW v \in Workspace,
         Write(n, v), v.uid >= ws[n].uid,
         v.uid = ws[n].uid /\ v.phase # "gone" => ws[n].phase # "gone"
  PROVE  ClaimInvariant'
<1>1. UNCHANGED <<claim, vm, vmi, pc, me, inst, todo, held>>
  BY DEF Write, machines, pass
<1>2. /\ ws'[n].uid = v.uid /\ ws'[n].rv = ws[n].rv + 1 /\ ws'[n].phase = v.phase
      /\ \A m \in Names : m # n => ws'[m] = ws[m]
  BY DEF Write, TypeOK, Workspace
<1>3. /\ known'[n] = known[n] \cup {ws'[n]}
      /\ \A m \in Names : m # n => known'[m] = known[m]
  BY DEF Write, TypeOK
<1>4. /\ v.uid \in Nat
      /\ \A m \in Names : ws[m].uid \in Nat /\ ws[m].rv \in Nat
      /\ \A m \in Names : \A u \in known[m] : u.uid \in Nat /\ u.rv \in Nat
      /\ \A m \in Names : vm[m].owner \in Nat
      /\ inst.uid \in Nat /\ me \in Names
  BY DEF TypeOK, Workspace, VirtualMachine
<1>5. VersionsOrdered'
  <2>1. ASSUME NEW m \in Names, m # n
        PROVE  /\ ws'[m] \in known'[m]
               /\ \A x \in known'[m] : x.rv <= ws'[m].rv /\ x.uid <= ws'[m].uid
               /\ \A x, y \in known'[m] : x.rv <= y.rv => x.uid <= y.uid
    BY <1>2, <1>3, <2>1 DEF ClaimInvariant, VersionsOrdered
  <2>2. \A x \in known'[n] : x.rv <= ws'[n].rv /\ x.uid <= ws'[n].uid
    BY <1>2, <1>3, <1>4 DEF ClaimInvariant, VersionsOrdered
  <2>3. \A x, y \in known'[n] : x.rv <= y.rv => x.uid <= y.uid
    BY <1>2, <1>3, <1>4, <2>2 DEF ClaimInvariant, VersionsOrdered
  <2> QED
    BY <1>3, <2>1, <2>2, <2>3 DEF VersionsOrdered
<1>6. \A m \in Names : ws[m].uid <= ws'[m].uid
  BY <1>2, <1>4
<1>7. OwnersKnown'
  <2>1. \A m \in Names : \A x \in known'[m] : vm'[m].owner <= x.uid
    <3>1. vm[n].owner <= ws[n].uid
      BY DEF ClaimInvariant, VersionsOrdered, OwnersKnown
    <3>2. vm[n].owner <= ws'[n].uid
      BY <1>2, <1>4, <3>1
    <3> QED
      BY <1>1, <1>3, <3>2 DEF ClaimInvariant, OwnersKnown
  <2>2. ASSUME NEW c \in Claim, c.uid <= ws[c.name].uid
        PROVE  c.uid <= ws'[c.name].uid
    <3>1. c.uid \in Nat /\ c.name \in Names
      BY DEF Claim
    <3>2. ws[c.name].uid \in Nat /\ ws'[c.name].uid \in Nat
      BY <1>2, <1>4, <3>1
    <3> QED
      BY <1>6, <2>2, <3>1, <3>2
  <2>3. \A d \in Disks : claim'[d] # NoClaim => claim'[d].uid <= ws'[claim'[d].name].uid
    BY <1>1, <2>2 DEF TypeOK, ClaimInvariant, OwnersKnown
  <2>4. held' # NoClaim => held'.uid <= ws'[held'.name].uid
    BY <1>1, <2>2 DEF TypeOK, ClaimInvariant, OwnersKnown
  <2> QED
    BY <2>1, <2>3, <2>4 DEF OwnersKnown
<1>8. GuestHasVM'
  BY <1>1 DEF ClaimInvariant, GuestHasVM
<1>9. PassClaims'
  <2> SUFFICES ASSUME pc # "idle" PROVE PassClaims'
    BY <1>1 DEF PassClaims
  <2>1. \A x \in known'[me] : inst.uid <= x.uid
    <3>1. inst.uid <= ws[me].uid
      BY <1>4 DEF ClaimInvariant, VersionsOrdered, PassClaims
    <3>2. inst.uid <= ws'[me].uid
      BY <1>2, <1>4, <1>6, <3>1
    <3> QED
      BY <1>3, <1>4, <3>2 DEF ClaimInvariant, PassClaims
  <2>2. ASSUME held # NoClaim, ~OwnerExists(held)
        PROVE  ~OwnerExists(held)'
    <3>1. /\ held.uid \in Nat /\ held.name \in Names
          /\ held.uid <= ws[held.name].uid
      BY <2>2 DEF TypeOK, Claim, ClaimInvariant, OwnersKnown
    <3> QED
      BY <1>1, <1>2, <1>4, <2>2, <3>1 DEF OwnerExists
  <2>3. \A d \in Disks : NextDisk(d)' <=> NextDisk(d)
    BY <1>1 DEF NextDisk
  <2>4. Mine' = Mine
    BY <1>1 DEF Mine
  <2> QED
    BY <1>1, <2>1, <2>2, <2>3, <2>4 DEF ClaimInvariant, PassClaims
<1>10. DisksClaimed'
  <2> SUFFICES ASSUME NEW m \in Names, ws'[m].phase # "gone", vm[m].live,
                      vm[m].owner = ws'[m].uid,
                      NEW d \in vm[m].disks \cup vmi[m].disks
               PROVE  claim[d] = [name |-> m, uid |-> ws'[m].uid]
    BY <1>1 DEF DisksClaimed, HeldBy, Owned
  <2>1. ws[m].phase # "gone" /\ vm[m].owner = ws[m].uid /\ ws'[m].uid = ws[m].uid
    <3>1. vm[m].owner <= ws[m].uid
      BY DEF ClaimInvariant, VersionsOrdered, OwnersKnown
    <3>2. ws'[m].uid = ws[m].uid
      BY <1>2, <1>4, <1>6, <3>1
    <3> QED
      BY <1>2, <3>2
  <2> QED
    BY <2>1 DEF ClaimInvariant, DisksClaimed, HeldBy, Owned
<1> QED
  BY <1>5, <1>7, <1>8, <1>9, <1>10 DEF ClaimInvariant

(* Dropping old versions of one Workspace keeps the order.                 *)
LEMMA TrimOrdered ==
  ASSUME TypeOK, VersionsOrdered, NEW n \in Names, NEW v \in known[n],
         known' = [known EXCEPT ![n] = {u \in @ : u.rv >= v.rv}], ws' = ws
  PROVE  /\ VersionsOrdered'
         /\ \A m \in Names : known'[m] \subseteq known[m]
         /\ \A u \in known'[n] : v.uid <= u.uid
<1>1. /\ known'[n] = {u \in known[n] : u.rv >= v.rv}
      /\ \A m \in Names : m # n => known'[m] = known[m]
  BY DEF TypeOK
<1>2. /\ ws[n].rv \in Nat /\ v.rv \in Nat
      /\ \A u \in known[n] : u.rv \in Nat
  BY DEF TypeOK, Workspace
<1>3. ws[n].rv >= v.rv
  BY <1>2 DEF VersionsOrdered
<1>4. \A u \in known'[n] : v.uid <= u.uid
  BY <1>1, <1>2 DEF VersionsOrdered
<1>5. \A m \in Names : known'[m] \subseteq known[m]
  BY <1>1
<1>6. \A m \in Names : ws'[m] \in known'[m]
  BY <1>1, <1>3 DEF VersionsOrdered
<1> QED
  BY <1>4, <1>5, <1>6 DEF VersionsOrdered

(* A step that touches neither Workspaces nor claims nor the pass keeps    *)
(* what is known about them.                                               *)
LEMMA Framed ==
  ASSUME TypeOK, ClaimInvariant, UNCHANGED <<objects, claim, pc, me, inst, todo, held>>,
         \A n \in Names : vm'[n].owner = vm[n].owner
  PROVE  VersionsOrdered' /\ OwnersKnown' /\ PassClaims'
<1>1. ws' = ws /\ known' = known
  BY DEF objects
<1>2. VersionsOrdered' /\ OwnersKnown'
  BY <1>1 DEF ClaimInvariant, VersionsOrdered, OwnersKnown
<1>3. me \in Names
  BY DEF TypeOK
<1>4. \A d \in Disks : NextDisk(d)' <=> NextDisk(d)
  BY DEF NextDisk
<1>5. Mine' = Mine /\ (OwnerExists(held)' <=> OwnerExists(held))
  BY <1>1 DEF Mine, OwnerExists
<1>6. PassClaims'
  BY <1>1, <1>3, <1>4, <1>5 DEF ClaimInvariant, PassClaims
<1> QED
  BY <1>2, <1>6

LEMMA MachineClaims ==
  ASSUME TypeOK, TypeOK', ClaimInvariant, NEW n \in Names,
         \/ handleReset(n) \/ CollectGarbage(n) \/ RemoveVM(n)
         \/ StartGuest(n) \/ StopGuest(n) \/ CrashGuest(n)
  PROVE  ClaimInvariant'
<1>1. UNCHANGED <<objects, claim, pc, me, inst, todo, held>>
  BY DEF handleReset, CollectGarbage, RemoveVM, StartGuest, StopGuest,
     CrashGuest, pass
<1>2. \A m \in Names : vm'[m].owner = vm[m].owner /\ vm'[m].disks = vm[m].disks
                       /\ (vm'[m].live => vm[m].live)
  BY DEF handleReset, CollectGarbage, RemoveVM, StartGuest, StopGuest,
     CrashGuest, TypeOK, VirtualMachine
<1>3. VersionsOrdered' /\ OwnersKnown' /\ PassClaims'
  BY <1>1, <1>2, Framed
<1>4. \A m \in Names : vmi'[m].disks \subseteq vmi[m].disks \cup vm[m].disks
  <2>1. CASE vmi' = vmi
    BY <2>1
  <2>2. CASE StartGuest(n)
    BY <2>2 DEF StartGuest, TypeOK
  <2>3. CASE StopGuest(n) \/ CrashGuest(n)
    BY <2>3 DEF StopGuest, CrashGuest, TypeOK
  <2> QED
    BY <2>1, <2>2, <2>3 DEF handleReset, CollectGarbage, RemoveVM
<1>5. GuestHasVM'
  <2>1. CASE handleReset(n) \/ CollectGarbage(n)
    BY <2>1 DEF handleReset, CollectGarbage, TypeOK, VirtualMachine,
       ClaimInvariant, GuestHasVM
  <2>2. CASE RemoveVM(n)
    <3>1. \A m \in Names : m # n => vm'[m] = vm[m]
      BY <2>2 DEF RemoveVM, TypeOK
    <3> QED
      BY <2>2, <3>1 DEF RemoveVM, ClaimInvariant, GuestHasVM
  <2>3. CASE StartGuest(n) \/ StopGuest(n) \/ CrashGuest(n)
    <3>1. vm' = vm /\ \A m \in Names : m # n => vmi'[m] = vmi[m]
      BY <2>3 DEF StartGuest, StopGuest, CrashGuest, TypeOK
    <3>2. vmi'[n] = IF StartGuest(n) THEN [live |-> TRUE, disks |-> vm[n].disks]
                                     ELSE [live |-> FALSE, disks |-> {}]
      BY <2>3 DEF StartGuest, StopGuest, CrashGuest, TypeOK
    <3>3. StartGuest(n) => vm[n].live
      BY DEF StartGuest
    <3> QED
      BY <3>1, <3>2, <3>3 DEF ClaimInvariant, GuestHasVM
  <2> QED BY <2>1, <2>2, <2>3
<1>6. DisksClaimed'
  BY <1>1, <1>2, <1>4 DEF objects, ClaimInvariant, DisksClaimed, HeldBy, Owned
<1> QED
  BY <1>3, <1>5, <1>6 DEF ClaimInvariant

(* The next disk to claim is unique: disks are ordered.                    *)
LEMMA NextDiskUnique ==
  ASSUME NEW d \in Disks, NEW e \in Disks, NextDisk(d), NextDisk(e)
  PROVE  d = e
BY DEF NextDisk

(* What a step of the pass that writes nothing has to show.                *)
LEMMA ReadingStep ==
  ASSUME TypeOK, ClaimInvariant, UNCHANGED <<objects, claim, machines>>, PassClaims',
         held' # NoClaim => held'.uid <= ws[held'.name].uid
  PROVE  ClaimInvariant'
<1>1. UNCHANGED <<ws, known, vm, vmi>>
  BY DEF objects, machines
<1> QED
  BY <1>1 DEF ClaimInvariant, VersionsOrdered, OwnersKnown, GuestHasVM,
     DisksClaimed, HeldBy, Owned

LEMMA StepsClaims ==
  ASSUME TypeOK, TypeOK', ClaimInvariant, Steps
  PROVE  ClaimInvariant'
<1>t. me \in Names /\ inst.uid \in Nat /\ inst.mounts \subseteq Disks
  BY DEF TypeOK, Workspace
<1>1. CASE readDisk
  <2>1. PICK d \in Disks :
          /\ NextDisk(d)
          /\ \/ EndPass
             \/ claim[d] = Mine /\ Claimed(d)
             \/ /\ claim[d] # Mine
                /\ held' = claim[d]
                /\ pc' = IF claim[d] = NoClaim THEN "update" ELSE "readOwner"
                /\ UNCHANGED <<me, inst, todo>>
    BY <1>1 DEF readDisk
  <2>2. UNCHANGED <<objects, claim, machines>> /\ pc = "claim"
    BY <1>1 DEF readDisk
  <2>3. UNCHANGED <<ws, known, vm, vmi>>
    BY <2>2 DEF objects, machines
  <2>4. CASE EndPass
    BY <2>2, <2>4, EndPassClaims, ReadingStep
  <2>5. CASE claim[d] = Mine /\ Claimed(d)
    <3>1. UNCHANGED <<me, inst>> /\ todo' = todo \ {d} /\ pc' = "claim" /\ held' = NoClaim
      BY <2>5 DEF Claimed
    <3>2. PassClaims'
      BY <2>2, <2>3, <2>5, <3>1 DEF ClaimInvariant, PassClaims, Mine
    <3> QED
      BY <2>2, <3>1, <3>2, ReadingStep
  <2>6. CASE /\ held' = claim[d]
             /\ pc' = IF claim[d] = NoClaim THEN "update" ELSE "readOwner"
             /\ UNCHANGED <<me, inst, todo>>
    <3>1. \A e \in Disks : NextDisk(e)' => claim'[e] = held'
      BY <2>1, <2>2, <2>6, NextDiskUnique DEF NextDisk
    <3>2. PassClaims'
      BY <2>2, <2>3, <2>6, <3>1 DEF ClaimInvariant, PassClaims, Mine
    <3> QED
      BY <2>2, <2>6, <3>2, ReadingStep DEF ClaimInvariant, OwnersKnown
  <2> QED BY <2>1, <2>4, <2>5, <2>6
<1>2. CASE readOwner \/ readVMI
  <2>1. UNCHANGED <<objects, claim, machines>>
    BY <1>2 DEF readOwner, readVMI
  <2>2. UNCHANGED <<ws, known, vm, vmi>>
    BY <2>1 DEF objects, machines
  <2>3. CASE EndPass
    BY <2>1, <2>3, EndPassClaims, ReadingStep
  <2>4. CASE ~EndPass
    <3>1. /\ UNCHANGED <<me, inst, todo, held>>
          /\ \/ pc = "readOwner" /\ pc' = "readVMI" /\ ~OwnerExists(held)
             \/ pc = "readVMI" /\ pc' = "update"
      BY <1>2, <2>4 DEF readOwner, readVMI
    <3>2. \A e \in Disks : NextDisk(e)' => claim'[e] = held'
      BY <2>1, <3>1 DEF ClaimInvariant, PassClaims, NextDisk
    <3>3. held # NoClaim => ~OwnerExists(held)'
      BY <2>2, <3>1 DEF ClaimInvariant, PassClaims, OwnerExists
    <3>4. PassClaims'
      BY <2>1, <2>2, <3>1, <3>2, <3>3 DEF ClaimInvariant, PassClaims, Mine
    <3> QED
      BY <2>1, <3>1, <3>4, ReadingStep DEF ClaimInvariant, OwnersKnown
  <2> QED BY <2>3, <2>4
<1>3. CASE updateDisk
  <2>1. PICK d \in Disks :
          /\ NextDisk(d)
          /\ \/ claim' = [claim EXCEPT ![d] = Mine] /\ Claimed(d)
             \/ /\ pc' = "claim"
                /\ UNCHANGED <<claim, me, inst, todo, held>>
             \/ EndPass /\ UNCHANGED claim
    BY <1>3 DEF updateDisk
  <2>2. UNCHANGED <<objects, machines>> /\ pc = "update"
    BY <1>3 DEF updateDisk
  <2>3. UNCHANGED <<ws, known, vm, vmi>>
    BY <2>2 DEF objects, machines
  <2>4. CASE EndPass /\ UNCHANGED claim
    BY <2>2, <2>4, EndPassClaims, ReadingStep
  <2>5. CASE pc' = "claim" /\ UNCHANGED <<claim, me, inst, todo, held>>
    <3>1. PassClaims'
      BY <2>2, <2>3, <2>5 DEF ClaimInvariant, PassClaims, Mine
    <3> QED
      BY <2>2, <2>5, <3>1, ReadingStep DEF ClaimInvariant, OwnersKnown
  <2>6. CASE claim' = [claim EXCEPT ![d] = Mine] /\ Claimed(d)
    <3>1. UNCHANGED <<me, inst>> /\ todo' = todo \ {d} /\ pc' = "claim" /\ held' = NoClaim
      BY <2>6 DEF Claimed
    <3>2. claim'[d] = Mine /\ \A e \in Disks : e # d => claim'[e] = claim[e]
      BY <2>6 DEF TypeOK
    <3>3. Mine' = Mine /\ Mine.uid = inst.uid /\ Mine.name = me
      BY <3>1 DEF Mine
    <3>4. d \in todo
      BY <2>1 DEF NextDisk
    <3>5. PassClaims'
      <4>1. ASSUME NEW e \in inst.mounts, e \notin todo'
            PROVE  claim'[e] = Mine
        <5>1. CASE e = d
          BY <3>2, <5>1
        <5>2. CASE e # d
          BY <1>t, <2>2, <3>1, <3>2, <4>1, <5>2 DEF ClaimInvariant, PassClaims
        <5> QED BY <5>1, <5>2
      <4> QED
        BY <2>2, <2>3, <3>1, <3>3, <4>1 DEF ClaimInvariant, PassClaims
    <3>6. OwnersKnown'
      <4>1. inst.uid <= ws[me].uid
        BY <1>t, <2>2 DEF ClaimInvariant, VersionsOrdered, PassClaims
      <4> QED
        BY <2>3, <3>1, <3>2, <3>3, <4>1 DEF ClaimInvariant, OwnersKnown
    <3>7. ASSUME NEW n \in Names, ws[n].phase # "gone" PROVE ~HeldBy(d, n)
      <4>1. claim[d] = held
        BY <2>1, <2>2 DEF ClaimInvariant, PassClaims
      <4>2. held # NoClaim => ~OwnerExists(held)
        BY <2>2 DEF ClaimInvariant, PassClaims
      <4>3. [name |-> n, uid |-> ws[n].uid] \in Claim
        BY DEF Claim, TypeOK, Workspace
      <4> QED
        BY <3>7, <4>1, <4>2, <4>3 DEF HeldBy, OwnerExists
    <3>8. DisksClaimed'
      BY <2>3, <3>2, <3>7 DEF ClaimInvariant, DisksClaimed, HeldBy, Owned, TypeOK,
         VirtualMachine, Guest
    <3>9. VersionsOrdered' /\ GuestHasVM'
      BY <2>3 DEF ClaimInvariant, VersionsOrdered, GuestHasVM
    <3> QED
      BY <3>5, <3>6, <3>8, <3>9 DEF ClaimInvariant
  <2> QED BY <2>1, <2>4, <2>5, <2>6
<1>4. CASE reconcileVirtualMachine
  <2>1. UNCHANGED <<ws, known, claim, vmi>> /\ pc = "claim" /\ todo = {} /\ EndPass
    BY <1>4 DEF reconcileVirtualMachine, objects
  <2>2. \A n \in Names : n # me => vm'[n] = vm[n]
    BY <1>4 DEF reconcileVirtualMachine, TypeOK
  <2>3. /\ \/ ~vm[me].live /\ vm'[me].owner = inst.uid /\ vm'[me].disks = inst.mounts
           \/ vm'[me] = vm[me]
           \/ vm[me].live /\ vm'[me].owner = vm[me].owner /\ vm'[me].disks = inst.mounts
        /\ vm[me].live => vm'[me].live
    <3>1. CASE UNCHANGED vm
      BY <3>1
    <3>2. CASE ~UNCHANGED vm
      <4>1. vm'[me] = IF ~vm[me].live
                      THEN [live |-> TRUE, owner |-> inst.uid,
                            disks |-> DesiredVM(inst).disks,
                            running |-> DesiredVM(inst).running,
                            deleting |-> FALSE]
                      ELSE IF vm[me].deleting
                      THEN vm[me]
                      ELSE [vm[me] EXCEPT !.disks = DesiredVM(inst).disks,
                                          !.running = DesiredVM(inst).running]
        BY <1>4, <1>t, <3>2 DEF reconcileVirtualMachine, TypeOK
      <4>2. vm[me] \in VirtualMachine
        BY <1>t DEF TypeOK
      <4> QED
        BY <4>1, <4>2 DEF DesiredVM, VirtualMachine
    <3> QED BY <3>1, <3>2
  <2>4. vm[me].live => vm'[me].live
    BY <2>3
  <2>5. PassClaims' /\ held' = NoClaim
    BY <2>1, EndPassClaims
  <2>6. OwnersKnown'
    BY <2>1, <2>2, <2>3, <2>5 DEF ClaimInvariant, OwnersKnown, PassClaims
  <2>7. VersionsOrdered' /\ GuestHasVM'
    BY <2>1, <2>2, <2>4 DEF ClaimInvariant, VersionsOrdered, GuestHasVM
  <2>8. DisksClaimed'
    <3> SUFFICES ASSUME NEW n \in Names, ws[n].phase # "gone", vm'[n].live,
                        vm'[n].owner = ws[n].uid,
                        NEW d \in vm'[n].disks \cup vmi[n].disks
                 PROVE  claim[d] = [name |-> n, uid |-> ws[n].uid]
      BY <2>1 DEF DisksClaimed, HeldBy, Owned
    <3>1. CASE vm'[n] = vm[n]
      BY <3>1 DEF ClaimInvariant, DisksClaimed, HeldBy, Owned
    <3>2. CASE n = me /\ vm'[me].disks = inst.mounts
               /\ (vm[me].live => vm'[me].owner = vm[me].owner)
               /\ (~vm[me].live => vm'[me].owner = inst.uid)
      <4>1. inst.uid = ws[me].uid
        <5>1. inst.uid <= ws[me].uid
          BY <1>t, <2>1 DEF ClaimInvariant, VersionsOrdered, PassClaims
        <5>2. vm[me].owner <= inst.uid
          BY <2>1 DEF ClaimInvariant, PassClaims
        <5>3. ws[me].uid \in Nat
          BY <1>t DEF TypeOK, Workspace
        <5> QED
          BY <1>t, <3>2, <5>1, <5>2, <5>3
      <4>2. CASE d \in inst.mounts
        BY <2>1, <3>2, <4>1, <4>2 DEF ClaimInvariant, PassClaims, Mine
      <4>3. CASE d \in vmi[me].disks
        <5>1. vm[me].live
          BY <1>t, <4>3 DEF ClaimInvariant, GuestHasVM
        <5> QED
          BY <3>2, <4>3, <5>1 DEF ClaimInvariant, DisksClaimed, HeldBy, Owned
      <4> QED BY <3>2, <4>2, <4>3
    <3> QED BY <2>2, <2>3, <3>1, <3>2
  <2> QED
    BY <2>5, <2>6, <2>7, <2>8 DEF ClaimInvariant
<1> QED
  BY <1>1, <1>2, <1>3, <1>4 DEF Steps

LEMMA UserClaims ==
  ASSUME TypeOK, TypeOK', ClaimInvariant, NEW n \in Names, User(n) \/ RemoveWorkspace(n)
  PROVE  ClaimInvariant'
<1>0. ws[n] \in Workspace /\ ws[n].uid \in Nat
  BY DEF TypeOK, Workspace
<1>1. CASE CreateWorkspace(n)
  <2>1. PICK m \in SUBSET Disks :
            Write(n, [ws[n] EXCEPT !.phase = "live", !.uid = ws[n].uid + 1,
                                   !.mounts = m, !.stopped = FALSE])
    BY <1>1 DEF CreateWorkspace, UserWrites
  <2>2. ws[n].uid + 1 \in Nat
    BY <1>0
  <2> DEFINE v == [ws[n] EXCEPT !.phase = "live", !.uid = ws[n].uid + 1,
                                !.mounts = m, !.stopped = FALSE]
  <2>3. v \in Workspace /\ v.uid = ws[n].uid + 1
    BY <1>0, <2>2 DEF Workspace
  <2>4. Write(n, v)
    BY <2>1
  <2> HIDE DEF v
  <2> QED
    BY <1>0, <2>3, <2>4, WriteClaims
<1>2. CASE EditWorkspace(n)
  <2>1. ws[n].phase = "live"
    BY <1>2 DEF EditWorkspace
  <2>2. CASE Write(n, [ws[n] EXCEPT !.stopped = ~@])
    <3> DEFINE v == [ws[n] EXCEPT !.stopped = ~@]
    <3>1. v \in Workspace /\ v.uid = ws[n].uid
      BY <1>0 DEF Workspace
    <3> HIDE DEF v
    <3>2. Write(n, v)
      BY <2>2 DEF v
    <3> QED BY <1>0, <2>1, <3>1, <3>2, WriteClaims
  <2>3. ASSUME NEW m \in SUBSET Disks, Write(n, [ws[n] EXCEPT !.mounts = m])
        PROVE  ClaimInvariant'
    <3> DEFINE v == [ws[n] EXCEPT !.mounts = m]
    <3>1. v \in Workspace /\ v.uid = ws[n].uid
      BY <1>0 DEF Workspace
    <3>2. Write(n, v)
      BY <2>3
    <3> HIDE DEF v
    <3> QED BY <1>0, <2>1, <3>1, <3>2, WriteClaims
  <2> QED
    BY <1>2, <2>2, <2>3 DEF EditWorkspace, UserWrites
<1>3. ASSUME NEW p \in {"terminating", "gone"}, Write(n, [ws[n] EXCEPT !.phase = p]),
             ws[n].phase # "gone"
      PROVE  ClaimInvariant'
  <2> DEFINE v == [ws[n] EXCEPT !.phase = p]
  <2>1. v \in Workspace /\ v.uid = ws[n].uid
    BY <1>0 DEF Workspace
  <2>2. Write(n, v)
    BY <1>3
  <2> HIDE DEF v
  <2> QED BY <1>0, <1>3, <2>1, <2>2, WriteClaims
<1>4. CASE DeleteWorkspace(n)
  BY <1>3, <1>4 DEF DeleteWorkspace, UserWrites
<1>5. CASE RemoveWorkspace(n)
  BY <1>3, <1>5 DEF RemoveWorkspace
<1> QED
  BY <1>1, <1>2, <1>4, <1>5 DEF User

LEMMA NextClaims ==
  ASSUME TypeOK, TypeOK', ClaimInvariant, [Next]_vars
  PROVE  ClaimInvariant'
<1>1. CASE Steps
  BY <1>1, StepsClaims
<1>2. CASE Interrupt
  <2>1. UNCHANGED <<objects, claim, machines>> /\ EndPass
    BY <1>2 DEF Interrupt
  <2> QED
    BY <2>1, EndPassClaims, ReadingStep
<1>3. CASE TouchDisk \/ (\E d \in Disks : DeleteDisk(d)) \/ UNCHANGED vars
  <2>1. UNCHANGED <<objects, claim, machines, pc, me, inst, todo, held>>
    BY <1>3 DEF TouchDisk, DeleteDisk, vars, objects, machines
  <2>2. PassClaims'
    BY <2>1, Framed DEF machines
  <2> QED
    BY <2>1, <2>2, ReadingStep DEF ClaimInvariant, OwnersKnown
<1>4. ASSUME NEW n \in Names, Reconcile(n) PROVE ClaimInvariant'
  <2>1. PICK v \in known[n] :
            /\ known' = [known EXCEPT ![n] = {u \in @ : u.rv >= v.rv}]
            /\ inst' = v
            /\ todo' = v.mounts
    BY <1>4 DEF Reconcile
  <2>2. UNCHANGED <<ws, claim, vm, vmi, held>> /\ me' = n /\ pc' = "claim"
    BY <1>4 DEF Reconcile, machines
  <2>3. /\ VersionsOrdered'
        /\ \A m \in Names : known'[m] \subseteq known[m]
        /\ \A u \in known'[n] : v.uid <= u.uid
    BY <2>1, <2>2, TrimOrdered DEF ClaimInvariant
  <2>4. OwnersKnown' /\ GuestHasVM' /\ DisksClaimed'
    BY <2>2, <2>3 DEF ClaimInvariant, OwnersKnown, GuestHasVM, DisksClaimed,
       HeldBy, Owned
  <2>5. PassClaims'
    BY <2>1, <2>2, <2>3 DEF ClaimInvariant, OwnersKnown, PassClaims
  <2> QED
    BY <2>3, <2>4, <2>5 DEF ClaimInvariant
<1>5. ASSUME NEW n \in Names, DeliverWorkspace(n) PROVE ClaimInvariant'
  <2>1. PICK v \in known[n] :
            known' = [known EXCEPT ![n] = {u \in @ : u.rv >= v.rv}]
    BY <1>5 DEF DeliverWorkspace
  <2>2. UNCHANGED <<ws, claim, vm, vmi, pc, me, inst, todo, held>>
    BY <1>5 DEF DeliverWorkspace, machines, pass
  <2>3. VersionsOrdered' /\ \A m \in Names : known'[m] \subseteq known[m]
    BY <2>1, <2>2, TrimOrdered DEF ClaimInvariant
  <2>4. OwnersKnown' /\ GuestHasVM' /\ DisksClaimed'
    BY <2>2, <2>3 DEF ClaimInvariant, OwnersKnown, GuestHasVM, DisksClaimed,
       HeldBy, Owned
  <2>5. PassClaims'
    BY <2>2, <2>3 DEF ClaimInvariant, PassClaims, NextDisk, Mine, OwnerExists, TypeOK
  <2> QED
    BY <2>3, <2>4, <2>5 DEF ClaimInvariant
<1>6. ASSUME NEW n \in Names, User(n) \/ RemoveWorkspace(n) PROVE ClaimInvariant'
  BY <1>6, UserClaims
<1>7. ASSUME NEW n \in Names,
             \/ handleReset(n) \/ CollectGarbage(n) \/ RemoveVM(n)
             \/ StartGuest(n) \/ StopGuest(n) \/ CrashGuest(n)
      PROVE  ClaimInvariant'
  BY <1>7, MachineClaims
<1> QED
  BY <1>1, <1>2, <1>3, <1>4, <1>5, <1>6, <1>7 DEF Next, Cluster

(* Every reachable state is typed and satisfies the claim invariant, for   *)
(* any number of Workspaces, disks, edits, resets and faults: the disks of *)
(* a Workspace's VM and guest are claimed by that Workspace object.        *)
THEOREM ClaimsHold == Spec => [](TypeOK /\ ClaimInvariant)
<1>1. Init => TypeOK /\ ClaimInvariant
  BY InitType, InitClaims
<1>2. TypeOK /\ ClaimInvariant /\ [Next]_vars => (TypeOK /\ ClaimInvariant)'
  BY NextType, NextClaims
<1> QED
  BY <1>1, <1>2, PTL DEF Spec

(* Two existing Workspaces never have one disk open in their own guests.   *)
THEOREM ConsumersExclusive == Spec => []LiveConsumersExclusive
<1>1. TypeOK /\ ClaimInvariant => LiveConsumersExclusive
  <2> SUFFICES ASSUME TypeOK, ClaimInvariant, NEW n \in Names, NEW m \in Names,
                      n # m, Runs(n), Runs(m),
                      NEW d \in vmi[n].disks, d \in vmi[m].disks
               PROVE  FALSE
    BY DEF LiveConsumersExclusive
  <2>1. HeldBy(d, n) /\ HeldBy(d, m)
    BY DEF ClaimInvariant, DisksClaimed, Runs
  <2> QED
    BY <2>1 DEF HeldBy
<1> QED
  BY <1>1, ClaimsHold, PTL

LEMMA ClaimKept ==
  ASSUME TypeOK, ClaimInvariant, [Next]_vars
  PROVE  \A n \in Names, d \in Disks :
            ws[n].phase # "gone" /\ HeldBy(d, n) => claim'[d] = claim[d]
<1>1. CASE claim' = claim
  BY <1>1
<1>2. CASE updateDisk /\ claim' # claim
  <2>1. PICK e \in Disks : NextDisk(e) /\ claim' = [claim EXCEPT ![e] = Mine]
    BY <1>2 DEF updateDisk
  <2>2. pc = "update"
    BY <1>2 DEF updateDisk
  <2>3. claim[e] = held /\ (held # NoClaim => ~OwnerExists(held))
    BY <2>1, <2>2 DEF ClaimInvariant, PassClaims
  <2>4. ASSUME NEW n \in Names, ws[n].phase # "gone" PROVE ~HeldBy(e, n)
    <3>1. [name |-> n, uid |-> ws[n].uid] \in Claim
      BY DEF Claim, TypeOK, Workspace
    <3> QED
      BY <2>3, <2>4, <3>1 DEF HeldBy, OwnerExists
  <2>5. \A d \in Disks : d # e => claim'[d] = claim[d]
    BY <2>1 DEF TypeOK
  <2> QED BY <2>4, <2>5
<1>3. claim' = claim \/ updateDisk
  <2>1. ASSUME NEW n \in Names,
               \/ Reconcile(n) \/ handleReset(n) \/ User(n) \/ Cluster(n)
               \/ CrashGuest(n)
        PROVE  claim' = claim
    BY <2>1 DEF Reconcile, handleReset, User, Cluster, CrashGuest,
       CreateWorkspace, EditWorkspace, DeleteWorkspace, UserWrites, Write,
       DeliverWorkspace, RemoveWorkspace, CollectGarbage, RemoveVM, StartGuest,
       StopGuest
  <2> QED
    BY <2>1 DEF Next, Steps, readDisk, readOwner, readVMI,
       reconcileVirtualMachine, Interrupt, TouchDisk, DeleteDisk, vars
<1> QED BY <1>1, <1>2, <1>3

(* The claim of an existing Workspace is never replaced, whatever happens  *)
(* between the reads of claimVMDataVolume and its update.                  *)
THEOREM ClaimsStand == Spec => ClaimNeverStolen
<1> DEFINE A == \A n \in Names, d \in Disks :
                  ws[n].phase # "gone" /\ HeldBy(d, n) => claim'[d] = claim[d]
<1>1. ASSUME TypeOK, ClaimInvariant, [Next]_vars
      PROVE  A
  BY <1>1, ClaimKept
<1>2. TypeOK /\ ClaimInvariant /\ [Next]_vars => [A]_vars
  BY <1>1
<1> HIDE DEF A
<1>3. Spec => [][A]_vars
  BY <1>2, ClaimsHold, PTL DEF Spec
<1> QED
  BY <1>3 DEF A, ClaimNeverStolen

-----------------------------------------------------------------------------
(* No circular wait.  Every version of a Workspace object that was not     *)
(* edited has the mounts it was created with, so whoever claims for it     *)
(* claims in the same order, and what it holds is an initial part of its   *)
(* mounts.                                                                 *)

MountsFixed ==
    /\ \A n \in Names \ edited : \A v \in known[n] :
          v.uid = ws[n].uid => v.mounts = ws[n].mounts
    /\ pc # "idle" /\ me \notin edited /\ inst.uid = ws[me].uid =>
          inst.mounts = ws[me].mounts

ClaimedInOrder ==
    \A n \in Names \ edited, d, e \in Disks :
        (/\ ws[n].phase # "gone"
         /\ d \in ws[n].mounts /\ d < e
         /\ HeldBy(e, n))
           => HeldBy(d, n)

LEMMA WriteInOrder ==
  ASSUME TypeOK, ClaimInvariant, MountsFixed, ClaimedInOrder,
         NEW n \in Names, NEW v \in Workspace, Write(n, v),
         \/ /\ v.uid = ws[n].uid /\ v.mounts = ws[n].mounts
            /\ v.phase # "gone" => ws[n].phase # "gone"
            /\ edited' = edited
         \/ v.uid = ws[n].uid + 1 /\ edited' = edited \ {n}
         \/ edited' = edited \cup {n}
  PROVE  MountsFixed' /\ ClaimedInOrder'
<1>1. UNCHANGED <<claim, pc, me, inst>>
  BY DEF Write, pass
<1>2. /\ ws'[n].uid = v.uid /\ ws'[n].mounts = v.mounts /\ ws'[n].phase = v.phase
      /\ \A m \in Names : m # n => ws'[m] = ws[m]
  BY DEF Write, TypeOK, Workspace
<1>3. /\ known'[n] = known[n] \cup {ws'[n]}
      /\ \A m \in Names : m # n => known'[m] = known[m]
  BY DEF Write, TypeOK
<1>4. /\ ws[n].uid \in Nat /\ me \in Names /\ inst.uid \in Nat
      /\ \A u \in known[n] : u.uid \in Nat
      /\ \A d \in Disks : claim[d] \in Claim \cup {NoClaim}
  BY DEF TypeOK, Workspace
<1>5. \A u \in known[n] : u.uid <= ws[n].uid
  BY DEF ClaimInvariant, VersionsOrdered
<1>6. pc # "idle" => \A u \in known[me] : inst.uid <= u.uid
  BY DEF ClaimInvariant, PassClaims
<1>7. pc # "idle" => inst.uid <= ws[me].uid
  BY <1>4, <1>6 DEF ClaimInvariant, VersionsOrdered
<1>8. MountsFixed'
  <2>1. ASSUME NEW m \in Names, m \notin edited', NEW u \in known'[m],
               u.uid = ws'[m].uid
        PROVE  u.mounts = ws'[m].mounts
    <3>1. CASE m # n
      BY <1>2, <1>3, <2>1, <3>1 DEF MountsFixed
    <3>2. CASE m = n
      BY <1>2, <1>3, <1>4, <1>5, <2>1, <3>2 DEF MountsFixed
    <3> QED BY <3>1, <3>2
  <2>2. ASSUME pc' # "idle", me' \notin edited', inst'.uid = ws'[me'].uid
        PROVE  inst'.mounts = ws'[me'].mounts
    <3>1. CASE me # n
      BY <1>1, <1>2, <1>4, <2>2, <3>1 DEF MountsFixed
    <3>2. CASE me = n
      BY <1>1, <1>2, <1>4, <1>7, <2>2, <3>2 DEF MountsFixed
    <3> QED BY <3>1, <3>2
  <2> QED BY <2>1, <2>2 DEF MountsFixed
<1>9. ClaimedInOrder'
  <2> SUFFICES ASSUME NEW m \in Names, m \notin edited',
                      NEW d \in Disks, NEW e \in Disks,
                      ws'[m].phase # "gone", d \in ws'[m].mounts, d < e,
                      HeldBy(e, m)'
               PROVE  HeldBy(d, m)'
    BY DEF ClaimedInOrder
  <2>1. claim[e] = [name |-> m, uid |-> ws'[m].uid]
    BY <1>1 DEF HeldBy
  <2>2. CASE m # n
    BY <1>1, <1>2, <2>1, <2>2 DEF ClaimedInOrder, HeldBy
  <2>3. CASE /\ m = n /\ v.uid = ws[n].uid /\ v.mounts = ws[n].mounts
             /\ v.phase # "gone" => ws[n].phase # "gone"
             /\ edited' = edited
    BY <1>1, <1>2, <1>4, <2>1, <2>3 DEF ClaimedInOrder, HeldBy
  <2>4. CASE m = n /\ v.uid = ws[n].uid + 1
    <3>1. claim[e] # NoClaim
      BY <1>2, <1>4, <2>1, <2>4 DEF Claim
    <3>2. claim[e].uid <= ws[claim[e].name].uid
      BY <3>1 DEF ClaimInvariant, OwnersKnown
    <3>3. claim[e].name = n /\ claim[e].uid = ws[n].uid + 1
      BY <1>2, <2>1, <2>4
    <3> QED BY <1>4, <3>2, <3>3
  <2> QED BY <2>2, <2>3, <2>4
<1> QED BY <1>8, <1>9

LEMMA UserInOrder ==
  ASSUME TypeOK, ClaimInvariant, MountsFixed, ClaimedInOrder,
         NEW n \in Names, User(n) \/ RemoveWorkspace(n)
  PROVE  MountsFixed' /\ ClaimedInOrder'
<1>0. ws[n] \in Workspace /\ ws[n].uid \in Nat
  BY DEF TypeOK, Workspace
<1>1. CASE CreateWorkspace(n)
  <2>1. PICK m \in SUBSET Disks :
            Write(n, [ws[n] EXCEPT !.phase = "live", !.uid = ws[n].uid + 1,
                                   !.mounts = m, !.stopped = FALSE])
    BY <1>1 DEF CreateWorkspace, UserWrites
  <2>5. edited' = edited \ {n}
    BY <1>1 DEF CreateWorkspace
  <2>2. ws[n].uid + 1 \in Nat
    BY <1>0
  <2> DEFINE v == [ws[n] EXCEPT !.phase = "live", !.uid = ws[n].uid + 1,
                                !.mounts = m, !.stopped = FALSE]
  <2>3. v \in Workspace /\ v.uid = ws[n].uid + 1
    BY <1>0, <2>2 DEF Workspace
  <2>4. Write(n, v)
    BY <2>1
  <2> HIDE DEF v
  <2> QED BY <2>3, <2>4, <2>5, WriteInOrder
<1>2. ASSUME ws[n].phase = "live", UNCHANGED edited,
             Write(n, [ws[n] EXCEPT !.stopped = ~@])
      PROVE  MountsFixed' /\ ClaimedInOrder'
  <2> DEFINE v == [ws[n] EXCEPT !.stopped = ~@]
  <2>1. v \in Workspace /\ v.uid = ws[n].uid /\ v.mounts = ws[n].mounts
    BY <1>0 DEF Workspace
  <2>2. Write(n, v)
    BY <1>2
  <2> HIDE DEF v
  <2> QED BY <1>2, <2>1, <2>2, WriteInOrder
<1>6. ASSUME NEW m \in SUBSET Disks, edited' = edited \cup {n},
             Write(n, [ws[n] EXCEPT !.mounts = m])
      PROVE  MountsFixed' /\ ClaimedInOrder'
  <2> DEFINE v == [ws[n] EXCEPT !.mounts = m]
  <2>1. v \in Workspace
    BY <1>0 DEF Workspace
  <2>2. Write(n, v)
    BY <1>6
  <2> HIDE DEF v
  <2> QED BY <1>6, <2>1, <2>2, WriteInOrder
<1>7. CASE EditWorkspace(n)
  BY <1>2, <1>6, <1>7 DEF EditWorkspace, UserWrites
<1>3. ASSUME NEW p \in {"terminating", "gone"}, Write(n, [ws[n] EXCEPT !.phase = p]),
             ws[n].phase # "gone", UNCHANGED edited
      PROVE  MountsFixed' /\ ClaimedInOrder'
  <2> DEFINE v == [ws[n] EXCEPT !.phase = p]
  <2>1. v \in Workspace /\ v.uid = ws[n].uid /\ v.mounts = ws[n].mounts
    BY <1>0 DEF Workspace
  <2>2. Write(n, v)
    BY <1>3
  <2> HIDE DEF v
  <2> QED BY <1>3, <2>1, <2>2, WriteInOrder
<1>4. CASE DeleteWorkspace(n)
  BY <1>3, <1>4 DEF DeleteWorkspace, UserWrites
<1>5. CASE RemoveWorkspace(n)
  BY <1>3, <1>5 DEF RemoveWorkspace, history
<1> QED BY <1>1, <1>4, <1>5, <1>7 DEF User

(* The disk a pass claims is the least it has still to claim, and it holds *)
(* all those before.                                                       *)
LEMMA updateDiskInOrder ==
  ASSUME TypeOK, ClaimInvariant, MountsFixed, ClaimedInOrder, updateDisk
  PROVE  ClaimedInOrder'
<1>1. UNCHANGED <<ws, edited>> /\ pc = "update" /\ me \in Names
  BY DEF updateDisk, objects, history, TypeOK
<1>2. CASE UNCHANGED claim
  BY <1>1, <1>2 DEF ClaimedInOrder, HeldBy
<1>3. CASE ~UNCHANGED claim
  <2>1. PICK c \in Disks : NextDisk(c) /\ claim' = [claim EXCEPT ![c] = Mine]
    BY <1>3 DEF updateDisk
  <2>2. claim'[c] = Mine /\ \A d \in Disks : d # c => claim'[d] = claim[d]
    BY <2>1 DEF TypeOK
  <2>3. [Next]_vars
    BY DEF Next, Steps
  <2> SUFFICES ASSUME NEW n \in Names, n \notin edited,
                      NEW d \in Disks, NEW e \in Disks,
                      ws[n].phase # "gone", d \in ws[n].mounts, d < e,
                      claim'[e] = [name |-> n, uid |-> ws[n].uid]
               PROVE  claim'[d] = [name |-> n, uid |-> ws[n].uid]
    BY <1>1 DEF ClaimedInOrder, HeldBy
  <2>4. CASE e # c
    <3>1. HeldBy(e, n)
      BY <2>2, <2>4 DEF HeldBy
    <3>2. HeldBy(d, n)
      BY <3>1 DEF ClaimedInOrder
    <3> QED BY <2>3, <3>2, ClaimKept DEF HeldBy
  <2>5. CASE e = c
    <3>1. me = n /\ inst.uid = ws[n].uid
      BY <2>2, <2>5 DEF Mine
    <3>2. d \in inst.mounts
      BY <1>1, <3>1 DEF MountsFixed
    <3>3. d \notin todo
      <4>1. d \in Nat /\ c \in Nat /\ ~(c <= d)
        BY <2>5
      <4> QED BY <2>1, <4>1 DEF NextDisk
    <3>4. claim[d] = Mine
      BY <1>1, <3>2, <3>3 DEF ClaimInvariant, PassClaims
    <3> QED BY <2>2, <2>5, <3>1, <3>4 DEF Mine
  <2> QED BY <2>4, <2>5
<1> QED BY <1>2, <1>3

LEMMA NextInOrder ==
  ASSUME TypeOK, ClaimInvariant, MountsFixed, ClaimedInOrder, [Next]_vars
  PROVE  MountsFixed' /\ ClaimedInOrder'
<1>1. ASSUME NEW n \in Names, User(n) \/ RemoveWorkspace(n)
      PROVE  MountsFixed' /\ ClaimedInOrder'
  BY <1>1, UserInOrder
<1>2. ASSUME UNCHANGED <<ws, claim, edited>>
      PROVE  ClaimedInOrder'
  BY <1>2 DEF ClaimedInOrder, HeldBy
<1>3. ASSUME UNCHANGED <<ws, known, edited>>,
             pc' = "idle" \/ (pc # "idle" /\ UNCHANGED <<me, inst>>)
      PROVE  MountsFixed'
  BY <1>3 DEF MountsFixed
<1>4. ASSUME NEW n \in Names, Reconcile(n)
      PROVE  MountsFixed' /\ ClaimedInOrder'
  <2>1. PICK v \in known[n] :
            /\ known' = [known EXCEPT ![n] = {u \in @ : u.rv >= v.rv}]
            /\ inst' = v
    BY <1>4 DEF Reconcile
  <2>2. UNCHANGED <<ws, claim, edited>> /\ me' = n
    BY <1>4 DEF Reconcile, history
  <2>3. \A m \in Names : known'[m] \subseteq known[m]
    BY <2>1 DEF TypeOK
  <2>4. MountsFixed'
    BY <2>1, <2>2, <2>3 DEF MountsFixed
  <2> QED BY <1>2, <2>2, <2>4
<1>5. ASSUME NEW n \in Names, DeliverWorkspace(n)
      PROVE  MountsFixed' /\ ClaimedInOrder'
  <2>1. UNCHANGED <<ws, claim, pc, me, inst, edited>>
    BY <1>5 DEF DeliverWorkspace, pass, history
  <2>2. \A m \in Names : known'[m] \subseteq known[m]
    BY <1>5 DEF DeliverWorkspace, TypeOK
  <2>3. MountsFixed'
    BY <2>1, <2>2 DEF MountsFixed
  <2> QED BY <1>2, <2>1, <2>3
<1>6. ASSUME NEW n \in Names,
             \/ handleReset(n) \/ CollectGarbage(n) \/ RemoveVM(n)
             \/ StartGuest(n) \/ StopGuest(n) \/ CrashGuest(n)
      PROVE  MountsFixed' /\ ClaimedInOrder'
  <2>1. UNCHANGED <<ws, known, claim, pc, me, inst, edited>>
    BY <1>6 DEF handleReset, CollectGarbage, RemoveVM, StartGuest, StopGuest,
       CrashGuest, objects, pass, history
  <2>2. MountsFixed'
    BY <2>1 DEF MountsFixed
  <2> QED BY <1>2, <2>1, <2>2
<1>7. CASE updateDisk
  <2>1. UNCHANGED <<ws, known, edited>> /\ pc # "idle"
        /\ (pc' = "idle" \/ UNCHANGED <<me, inst>>)
    BY <1>7 DEF updateDisk, objects, history, Claimed, EndPass
  <2> QED BY <1>3, <1>7, <2>1, updateDiskInOrder
<1>8. CASE readDisk \/ readOwner \/ readVMI \/ reconcileVirtualMachine \/ Interrupt
  <2>1. UNCHANGED <<ws, known, claim, edited>> /\ pc # "idle"
        /\ (pc' = "idle" \/ UNCHANGED <<me, inst>>)
    BY <1>8 DEF readDisk, readOwner, readVMI, reconcileVirtualMachine, Interrupt,
       objects, history, Claimed, EndPass
  <2> QED BY <1>2, <1>3, <2>1
<1>9. CASE TouchDisk \/ (\E d \in Disks : DeleteDisk(d)) \/ UNCHANGED vars
  <2>1. UNCHANGED <<ws, known, claim, pc, me, inst, edited>>
    BY <1>9 DEF TouchDisk, DeleteDisk, vars, objects
  <2>2. MountsFixed'
    BY <2>1 DEF MountsFixed
  <2> QED BY <1>2, <2>1, <2>2
<1> QED
  BY <1>1, <1>4, <1>5, <1>6, <1>7, <1>8, <1>9 DEF Next, Steps, Cluster

(* Two Workspaces whose mounts were not edited never hold a disk each that *)
(* the other waits for: claimVMDisks claims in sorted order.               *)
THEOREM NoCircularWaitHolds == Spec => []NoCircularWait
<1>1. Init => MountsFixed /\ ClaimedInOrder
  <2> SUFFICES ASSUME Init PROVE MountsFixed /\ ClaimedInOrder
    OBVIOUS
  <2>1. \A n \in Names : known[n] = {ws[n]}
    BY DEF Init
  <2>2. MountsFixed
    BY <2>1 DEF Init, MountsFixed
  <2>3. \A n \in Names, d \in Disks : ~HeldBy(d, n)
    <3>1. ASSUME NEW n \in Names PROVE [name |-> n, uid |-> ws[n].uid] \in Claim
      BY InitType DEF Claim, TypeOK, Workspace
    <3> QED BY <3>1 DEF Init, HeldBy
  <2>4. ClaimedInOrder
    BY <2>3 DEF ClaimedInOrder
  <2> QED BY <2>2, <2>4
<1>2. TypeOK /\ ClaimInvariant /\ MountsFixed /\ ClaimedInOrder /\ [Next]_vars
        => (MountsFixed /\ ClaimedInOrder)'
  BY NextInOrder
<1>3. TypeOK /\ ClaimedInOrder => NoCircularWait
  <2> SUFFICES ASSUME TypeOK, ClaimedInOrder,
                      NEW n \in Names, NEW m \in Names,
                      NEW d \in Disks, NEW e \in Disks, n # m, d # e,
                      n \notin edited, m \notin edited,
                      ws[n].phase = "live", ws[m].phase = "live",
                      {d, e} \subseteq ws[n].mounts, {d, e} \subseteq ws[m].mounts,
                      HeldBy(d, n), HeldBy(e, m)
               PROVE  FALSE
    BY DEF NoCircularWait
  <2>1. CASE d < e
    <3>1. HeldBy(d, m)
      BY <2>1 DEF ClaimedInOrder
    <3> QED BY <3>1 DEF HeldBy
  <2>2. CASE e < d
    <3>1. HeldBy(e, n)
      BY <2>2 DEF ClaimedInOrder
    <3> QED BY <3>1 DEF HeldBy
  <2>3. d \in Nat /\ e \in Nat
    OBVIOUS
  <2> QED BY <2>1, <2>2, <2>3
<1> QED BY <1>1, <1>2, <1>3, ClaimsHold, PTL DEF Spec

=============================================================================
