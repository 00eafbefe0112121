------------------------- MODULE WindowsGuestProofs -------------------------
(***************************************************************************)
(* Proofs about WindowsGuest for every value of its constants.             *)
(***************************************************************************)
EXTENDS WindowsGuest, TLAPS

USE ConstantsAssumption

-----------------------------------------------------------------------------
(* The inductive invariant.                                                *)

Resetting == {"handleReset", "dropSecret", "clearReset"}
Working == Steps \ Resetting

Versions == known \cup {ws, inst}

(* A resourceVersion determines the object, the server's is the newest; a  *)
(* generation only ends by a reset that every later version of it asks for,*)
(* and a version that says provisioned is right.                           *)
VersionsAgree ==
    \A u \in Versions :
        /\ u.rv <= ws.rv
        /\ u.rv = ws.rv => u = ws
        /\ u.gen <= ws.gen
        /\ u.gen < ws.gen => u.reset
        /\ Provisioned(u) => u.gen \in installed

ResetSticks ==
    \A u, v \in Versions : u.rv <= v.rv /\ u.reset => v.reset \/ u.gen < v.gen

(* A pass that resets leaves no version without the request for the next   *)
(* one to start from; any other pass works on the present generation.      *)
PassCurrent ==
    /\ pc \in Resetting => inst.reset /\ \A u \in known : inst.rv <= u.rv
    /\ pc \in {"dropSecret", "clearReset"} => ~vm.live
    /\ pc \in Working => inst.gen = ws.gen
    /\ pc = "provision" => inst.gen \in installed
    /\ pc = "clearDetach" => inst.gen \notin answers

MachineCurrent ==
    /\ vm.live => vm.gen = ws.gen
    /\ vm.live /\ vm.gen \notin installed => vm.sysprep
    /\ guest.phase # "none" => vm.live

(* A provisioned generation keeps its Secret until no pass is left that    *)
(* could make a new one.                                                   *)
SecretKept ==
    Provisioned(ws) /\ ws.gen \notin credentials =>
        pc \notin Working /\ \A u \in known \cup {ws} : u.reset

GuestInvariant ==
    /\ VersionsAgree
    /\ ResetSticks
    /\ PassCurrent
    /\ MachineCurrent
    /\ SecretKept
    /\ SetupHasInstaller
    /\ AnswerFileRemoved
    /\ GPUStable

-----------------------------------------------------------------------------
(* Types.                                                                  *)

LEMMA InitType == Init => TypeOK
<1> SUFFICES ASSUME Init PROVE TypeOK
  OBVIOUS
<1>1. ws \in Workspace
  BY DEF Init, Workspace
<1>2. /\ vm \in [live : BOOLEAN, gen : Nat, sysprep : BOOLEAN,
                 running : BOOLEAN, deleting : BOOLEAN, gpu : 0 .. 1]
      /\ guest \in [phase : {"none", "booting", "up"}, sysprep : BOOLEAN,
                    gpu : 0 .. 1]
  BY DEF Init, Off
<1> QED BY <1>1, <1>2 DEF Init, TypeOK

LEMMA StampType ==
    ASSUME NEW o \in Workspace, NEW n \in Nat, NEW b \in BOOLEAN
    PROVE  [o EXCEPT !.rv = n, !.ready = b] \in Workspace
BY DEF Workspace

LEMMA StoreType ==
    ASSUME TypeOK, NEW o \in Workspace, Store(o)
    PROVE  ws' \in Workspace /\ known' \subseteq Workspace
<1>1. ws.rv + 1 \in Nat /\ ws.ready \in BOOLEAN
  BY DEF TypeOK, Workspace
<1>2. ws' \in Workspace
  BY <1>1, StampType DEF Store
<1> QED BY <1>2 DEF Store, TypeOK

LEMMA RecordType ==
    ASSUME TypeOK, NEW o \in Workspace, NEW next \in {"idle"} \cup Steps,
           Record(o, next)
    PROVE  /\ ws' \in Workspace /\ known' \subseteq Workspace
           /\ inst' \in Workspace
           /\ pc' \in {"idle"} \cup Steps /\ ready' \in BOOLEAN
<1>1. CASE Accepted(inst) /\ Store(o) /\ inst' = ws' /\ pc' = next /\ UNCHANGED ready
  BY <1>1, StoreType DEF TypeOK
<1>2. CASE EndPass /\ UNCHANGED object
  BY <1>2 DEF TypeOK, EndPass, object
<1> QED BY <1>1, <1>2 DEF Record

(* What the steps write is a Workspace.                                    *)
LEMMA WrittenType ==
    ASSUME TypeOK
    PROVE  /\ NextGeneration(inst) \in Workspace
           /\ [inst EXCEPT !.detaching = 0] \in Workspace
           /\ [inst EXCEPT !.reboot = FALSE] \in Workspace
           /\ [inst EXCEPT !.provisioned = inst.gen, !.detaching = inst.gen] \in Workspace
           /\ [ws EXCEPT !.stopped = ~@] \in Workspace
           /\ [ws EXCEPT !.reboot = TRUE] \in Workspace
           /\ [ws EXCEPT !.reset = TRUE] \in Workspace
           /\ [ws EXCEPT !.gpu = 1 - @] \in Workspace
           /\ [ws EXCEPT !.rv = @ + 1, !.ready = ready] \in Workspace
<1>1. NextGeneration(inst) \in Workspace
  <2>1. inst.gen + 1 \in Nat \ {0}
    BY DEF TypeOK, Workspace
  <2> QED BY <2>1 DEF TypeOK, NextGeneration, Workspace
<1>2. /\ [inst EXCEPT !.detaching = 0] \in Workspace
      /\ [inst EXCEPT !.reboot = FALSE] \in Workspace
      /\ [inst EXCEPT !.provisioned = inst.gen, !.detaching = inst.gen] \in Workspace
  BY DEF TypeOK, Workspace
<1>3. /\ [ws EXCEPT !.stopped = ~@] \in Workspace
      /\ [ws EXCEPT !.reboot = TRUE] \in Workspace
      /\ [ws EXCEPT !.reset = TRUE] \in Workspace
      /\ [ws EXCEPT !.gpu = 1 - @] \in Workspace
  <2>1. /\ [ws EXCEPT !.reboot = TRUE] \in Workspace
        /\ [ws EXCEPT !.reset = TRUE] \in Workspace
    BY DEF TypeOK, Workspace
  <2>2. [ws EXCEPT !.gpu = 1 - @] \in Workspace
    <3>1. 1 - ws.gpu \in 0 .. 1
      BY DEF TypeOK, Workspace
    <3> QED BY <3>1 DEF TypeOK, Workspace
  <2>3. [ws EXCEPT !.stopped = ~@] \in Workspace
    BY DEF TypeOK, Workspace
  <2> QED BY <2>1, <2>2, <2>3
<1>4. [ws EXCEPT !.rv = @ + 1, !.ready = ready] \in Workspace
  <2>1. ws.rv + 1 \in Nat
    BY DEF TypeOK, Workspace
  <2>2. [ws EXCEPT !.rv = ws.rv + 1, !.ready = ready] \in Workspace
    BY <2>1, StampType DEF TypeOK
  <2> QED BY <2>2
<1> QED BY <1>1, <1>2, <1>3, <1>4

LEMMA NextType ==
    ASSUME TypeOK, [Next]_vars
    PROVE  TypeOK'
<1> USE DEF object, secret, pass, machine, counters
<1>1. CASE Reconcile
  BY <1>1 DEF Reconcile, TypeOK, Steps
<1>2. CASE handleReset
  BY <1>2 DEF handleReset, TypeOK, EndPass, Goto, Steps
<1>3. CASE dropSecret
  BY <1>3 DEF dropSecret, TypeOK, Goto, Steps
<1>4. CASE clearReset
  <2>1. Record(NextGeneration(inst), "idle")
    BY <1>4 DEF clearReset
  <2> QED BY <1>4, <2>1, WrittenType, RecordType DEF clearReset, TypeOK
<1>5. CASE finishWindowsDetach
  BY <1>5 DEF finishWindowsDetach, TypeOK, Goto, Steps
<1>6. CASE stripAnswer
  BY <1>6 DEF stripAnswer, TypeOK, EndPass, Goto, Steps
<1>7. CASE clearDetach
  <2>1. Record([inst EXCEPT !.detaching = 0], "finishReboot")
    BY <1>7 DEF clearDetach
  <2>2. "finishReboot" \in Steps
    BY DEF Steps
  <2> QED BY <1>7, <2>1, <2>2, WrittenType, RecordType DEF clearDetach, TypeOK
<1>8. CASE finishWindowsReboot
  BY <1>8 DEF finishWindowsReboot, TypeOK, Goto, Steps
<1>9. CASE clearReboot
  <2>1. Record([inst EXCEPT !.reboot = FALSE], "bootstrap")
    BY <1>9 DEF clearReboot
  <2>2. "bootstrap" \in Steps
    BY DEF Steps
  <2> QED BY <1>9, <2>1, <2>2, WrittenType, RecordType DEF clearReboot, TypeOK
<1>10. CASE reconcileWindowsBootstrap
  <2>1. inst.gen \in Nat
    BY DEF TypeOK, Workspace
  <2>2. pc' \in {"idle"} \cup Steps /\ UNCHANGED inst /\ ready' \in BOOLEAN
    BY <1>10 DEF reconcileWindowsBootstrap, TypeOK, EndPass, Goto, Steps
  <2>3. credentials' \subseteq Nat /\ answers' \subseteq credentials'
    BY <1>10, <2>1 DEF reconcileWindowsBootstrap, TypeOK
  <2> QED BY <1>10, <2>2, <2>3 DEF reconcileWindowsBootstrap, TypeOK
<1>11. CASE reconcileVirtualMachine
  <2>1. pc' \in {"idle"} \cup Steps /\ UNCHANGED inst /\ ready' \in BOOLEAN
    BY <1>11 DEF reconcileVirtualMachine, TypeOK, EndPass, Goto, Steps
  <2>2. vm' \in [live : BOOLEAN, gen : Nat, sysprep : BOOLEAN,
                 running : BOOLEAN, deleting : BOOLEAN, gpu : 0 .. 1]
    <3>1. CASE UNCHANGED vm
      BY <3>1 DEF TypeOK
    <3>2. CASE vm' = [live |-> TRUE, gen |-> inst.gen,
                      sysprep |-> ~Provisioned(inst),
                      running |-> ~PoweredOff(inst), gpu |-> inst.gpu,
                      deleting |-> vm.live /\ vm.deleting]
      <4>1. inst.gen \in Nat /\ inst.gpu \in 0 .. 1
        BY DEF TypeOK, Workspace
      <4> QED BY <3>2, <4>1
    <3> QED BY <1>11, <3>1, <3>2 DEF reconcileVirtualMachine, generateWindowsVM
  <2> QED BY <1>11, <2>1, <2>2 DEF reconcileVirtualMachine, TypeOK
<1>12. CASE windowsReady
  BY <1>12 DEF windowsReady, TypeOK, Observed, Goto, Steps
<1>13. CASE provision
  <2>1. CASE Record([inst EXCEPT !.provisioned = inst.gen,
                                 !.detaching = inst.gen], "statusWrite")
    <3>1. "statusWrite" \in Steps
      BY DEF Steps
    <3> QED BY <1>13, <2>1, <3>1, WrittenType, RecordType DEF provision, TypeOK
  <2>2. CASE EndPass /\ UNCHANGED object
    BY <1>13, <2>2 DEF provision, TypeOK, EndPass
  <2> QED BY <1>13, <2>1, <2>2 DEF provision
<1>14. CASE statusWrite
  <2>1. ws' \in Workspace /\ known' \subseteq Workspace
    BY <1>14, WrittenType DEF statusWrite, TypeOK
  <2> QED BY <1>14, <2>1 DEF statusWrite, TypeOK, EndPass
<1>15. CASE Interrupt
  <2>1. faults' \in Nat
    BY <1>15 DEF Interrupt, TypeOK
  <2> QED BY <1>15, <2>1 DEF Interrupt, TypeOK, EndPass
<1>16. CASE User
  <2>1. PICK o \in Workspace : UserWrites(o)
    BY <1>16, WrittenType DEF User
  <2>2. ws' \in Workspace /\ known' \subseteq Workspace
    BY <2>1, StoreType DEF UserWrites
  <2> QED BY <2>1, <2>2 DEF UserWrites, TypeOK
<1>17. CASE DeliverWorkspace
  BY <1>17 DEF DeliverWorkspace, TypeOK
<1>18. CASE KubeVirt
  <2>1. CASE StartGuest
    BY <2>1 DEF StartGuest, TypeOK
  <2>2. CASE AgentConnects
    BY <2>2 DEF AgentConnects, TypeOK
  <2>3. CASE SetupFinishes
    BY <2>3 DEF SetupFinishes, TypeOK
  <2>4. CASE StopGuest
    BY <2>4 DEF StopGuest, Off, TypeOK
  <2>5. CASE RemoveVM
    BY <2>5 DEF RemoveVM, TypeOK
  <2> QED BY <1>18, <2>1, <2>2, <2>3, <2>4, <2>5 DEF KubeVirt
<1>19. CASE CrashGuest
  BY <1>19 DEF CrashGuest, TypeOK, Off
<1>20. CASE UNCHANGED vars
  BY <1>20 DEF vars, TypeOK
<1> QED BY <1>1, <1>2, <1>3, <1>4, <1>5, <1>6, <1>7, <1>8, <1>9, <1>10,
           <1>11, <1>12, <1>13, <1>14, <1>15, <1>16, <1>17, <1>18, <1>19,
           <1>20 DEF Next, Pass

-----------------------------------------------------------------------------
(* The invariant: what the steps have in common.                           *)

LEMMA InitInvariant == Init => GuestInvariant
BY DEF Init, Off, GuestInvariant, Versions, VersionsAgree, ResetSticks,
       PassCurrent, Resetting, Working, Steps, MachineCurrent, SecretKept,
       SetupHasInstaller, AnswerFileRemoved, GPUStable, Provisioned, Detaching

(* A step that stores no version of the Workspace leaves the versions in   *)
(* agreement, whichever of them it drops or reads.                         *)
LEMMA VersionsDropped ==
    ASSUME VersionsAgree, ResetSticks, UNCHANGED ws,
           Versions' \subseteq Versions, installed \subseteq installed'
    PROVE  VersionsAgree' /\ ResetSticks'
BY DEF VersionsAgree, ResetSticks, Provisioned

(* A stored version is newer than all others; it keeps a request to reset, *)
(* or starts a generation once every version left asks for that.           *)
LEMMA VersionStored ==
    ASSUME TypeOK, VersionsAgree, ResetSticks, UNCHANGED installed,
           ws' \in Workspace, ws'.rv = ws.rv + 1,
           ws' \in Versions', Versions' \subseteq Versions \cup {ws'},
           \/ ws'.gen = ws.gen /\ (ws.reset => ws'.reset)
           \/ ws'.gen = ws.gen + 1 /\ \A u \in Versions' : u.reset \/ u = ws',
           Provisioned(ws') => ws'.gen \in installed
    PROVE  VersionsAgree' /\ ResetSticks'
<1>1. \A u \in Versions : u \in Workspace
  BY DEF TypeOK, Versions
<1>2. ws \in Workspace
  BY DEF TypeOK
<1>3. \A u \in Versions : u.rv <= ws.rv /\ u.rv \in Nat /\ u.rv < ws'.rv
  BY <1>1, <1>2 DEF VersionsAgree, Workspace
<1>4. VersionsAgree'
  <2> SUFFICES ASSUME NEW u \in Versions'
               PROVE  /\ u.rv <= ws'.rv
                      /\ u.rv = ws'.rv => u = ws'
                      /\ u.gen <= ws'.gen
                      /\ u.gen < ws'.gen => u.reset
                      /\ Provisioned(u) => u.gen \in installed'
    BY DEF VersionsAgree, Provisioned
  <2>1. CASE u = ws'
    BY <2>1 DEF Workspace
  <2>2. CASE u \in Versions /\ u # ws'
    BY <1>1, <1>2, <1>3, <2>2 DEF VersionsAgree, Workspace
  <2> QED BY <2>1, <2>2
<1>5. ResetSticks'
  <2> SUFFICES ASSUME NEW u \in Versions', NEW v \in Versions',
                      u.rv <= v.rv, u.reset
               PROVE  v.reset \/ u.gen < v.gen
    BY DEF ResetSticks
  <2>1. CASE v \in Versions /\ u \in Versions
    BY <2>1 DEF ResetSticks
  <2>2. CASE u = ws' /\ v = ws'
    BY <2>2
  <2>3. CASE u = ws' /\ v \in Versions
    BY <1>1, <1>2, <1>3, <2>3 DEF Workspace
  <2>4. CASE v = ws' /\ u \in Versions
    <3>1. ws \in Versions /\ u.rv <= ws.rv /\ u.gen <= ws.gen
      BY <2>4 DEF Versions, VersionsAgree
    <3>2. ws.reset \/ u.gen < ws.gen
      BY <2>4, <3>1 DEF ResetSticks
    <3> QED BY <1>1, <1>2, <2>4, <3>1, <3>2 DEF Workspace
  <2> QED BY <2>1, <2>2, <2>3, <2>4
<1> QED BY <1>4, <1>5

(* A pass whose write is accepted works on the newest version.             *)
LEMMA AcceptedNewest ==
    ASSUME VersionsAgree, Accepted(inst)
    PROVE  inst = ws
BY DEF VersionsAgree, Versions, Accepted

(* A write of a step or of a user that leaves the generation alone and     *)
(* clears no request to reset.                                             *)
LEMMA StoreKeepsVersions ==
    ASSUME TypeOK, VersionsAgree, ResetSticks, UNCHANGED installed,
           NEW o \in Workspace, Store(o), inst' \in {inst, ws'},
           o.gen = ws.gen, ws.reset => o.reset,
           Provisioned(o) => o.gen \in installed
    PROVE  VersionsAgree' /\ ResetSticks'
<1>1. ws' \in Workspace
  BY StoreType
<1>2. /\ ws'.rv = ws.rv + 1 /\ ws'.gen = o.gen
      /\ ws'.reset = o.reset /\ ws'.provisioned = o.provisioned
  BY DEF Store, Workspace
<1>3. ws' \in Versions' /\ Versions' \subseteq Versions \cup {ws'}
  BY DEF Versions, Store
<1>4. Provisioned(ws') => ws'.gen \in installed
  BY <1>2 DEF Provisioned
<1> QED BY <1>1, <1>2, <1>3, <1>4, VersionStored

-----------------------------------------------------------------------------
(* The invariant: the steps of a pass.                                     *)

(* A step that only goes on to another, or ends the pass.                  *)
LEMMA MovesOn ==
    ASSUME GuestInvariant, UNCHANGED <<object, secret, machine, inst>>,
           pc' \in Working => inst.gen = ws.gen /\ pc \in Working,
           pc' \in Resetting => pc \in Resetting,
           pc' \in {"dropSecret", "clearReset"} => ~vm.live,
           pc' = "provision" => inst.gen \in installed,
           pc' = "clearDetach" => inst.gen \notin answers
    PROVE  GuestInvariant'
<1> USE DEF object, secret, machine, GuestInvariant
<1>1. VersionsAgree' /\ ResetSticks'
  BY VersionsDropped DEF Versions
<1>2. PassCurrent'
  BY DEF PassCurrent
<1>3. MachineCurrent'
  BY DEF MachineCurrent
<1>4. SecretKept'
  BY DEF SecretKept, Provisioned
<1>5. SetupHasInstaller' /\ AnswerFileRemoved' /\ GPUStable'
  BY DEF SetupHasInstaller, AnswerFileRemoved, GPUStable, Provisioned, Detaching
<1> QED BY <1>1, <1>2, <1>3, <1>4, <1>5

(* A step that stores a version of the same generation with the requests   *)
(* to reset it had.                                                        *)
LEMMA StoresVersion ==
    ASSUME TypeOK, GuestInvariant, UNCHANGED <<secret, machine>>,
           NEW o \in Workspace, Store(o), inst' \in {inst, ws'},
           o.gen = ws.gen, ws.reset => o.reset,
           Provisioned(o) => o.gen \in installed,
           Provisioned(o) => Provisioned(ws) \/ ws.gen \in credentials,
           Provisioned(o) /\ ~Detaching(o) => ws.gen \notin answers,
           pc' \in Working => pc \in Working \/ UNCHANGED pc,
           pc' \in Resetting => UNCHANGED <<pc, inst>>,
           pc' \notin {"provision", "clearDetach"} \/ UNCHANGED <<pc, inst>>
    PROVE  GuestInvariant'
<1> USE DEF secret, machine, GuestInvariant
<1>1. VersionsAgree' /\ ResetSticks'
  BY StoreKeepsVersions
<1>2. /\ ws'.rv = ws.rv + 1 /\ ws'.gen = ws.gen /\ ws'.reset = o.reset
      /\ ws'.provisioned = o.provisioned /\ ws'.detaching = o.detaching
  BY DEF Store, Workspace
<1>3. PassCurrent'
  <2>1. pc' \in Resetting => inst'.reset /\ \A u \in known' : inst'.rv <= u.rv
    <3> SUFFICES ASSUME pc' \in Resetting
                 PROVE  inst'.reset /\ \A u \in known' : inst'.rv <= u.rv
      OBVIOUS
    <3>1. pc \in Resetting /\ inst' = inst
      OBVIOUS
    <3>2. inst.reset /\ \A u \in known : inst.rv <= u.rv
      BY <3>1 DEF PassCurrent
    <3>3. inst.rv <= ws.rv
      BY DEF VersionsAgree, Versions
    <3>4. inst.rv <= ws'.rv
      BY <1>2, <3>3 DEF TypeOK, Workspace
    <3> QED BY <3>1, <3>2, <3>4 DEF Store
  <2>2. pc' \in Working => inst'.gen = ws'.gen
    BY <1>2 DEF PassCurrent
  <2>3. pc' \in {"dropSecret", "clearReset"} => ~vm'.live
    BY DEF PassCurrent, Resetting
  <2>4. /\ pc' = "provision" => inst'.gen \in installed'
        /\ pc' = "clearDetach" => inst'.gen \notin answers'
    BY DEF PassCurrent
  <2> QED BY <2>1, <2>2, <2>3, <2>4 DEF PassCurrent
<1>4. MachineCurrent'
  BY <1>2 DEF MachineCurrent
<1>5. SecretKept'
  <2> SUFFICES ASSUME Provisioned(ws'), ws'.gen \notin credentials'
               PROVE  pc' \notin Working /\ \A u \in known' \cup {ws'} : u.reset
    BY DEF SecretKept, Provisioned
  <2>1. Provisioned(ws) /\ ws.gen \notin credentials
    BY <1>2 DEF Provisioned
  <2>2. pc \notin Working /\ \A u \in known \cup {ws} : u.reset
    BY <2>1 DEF SecretKept
  <2>3. ws'.reset
    BY <1>2, <2>2
  <2> QED BY <2>2, <2>3 DEF Store
<1>6. SetupHasInstaller' /\ GPUStable'
  BY DEF SetupHasInstaller, GPUStable
<1>7. AnswerFileRemoved'
  BY <1>2 DEF AnswerFileRemoved, Provisioned, Detaching
<1> QED BY <1>1, <1>3, <1>4, <1>5, <1>6, <1>7

(* Recording progress, in a step that works on the present generation.     *)
LEMMA RecordsVersion ==
    ASSUME TypeOK, GuestInvariant, UNCHANGED <<secret, machine>>,
           NEW o \in Workspace, NEW next, Record(o, next), pc \in Working,
           next \in Working \ {"provision", "clearDetach"},
           o.gen = inst.gen, o.reset = inst.reset,
           Provisioned(o) => o.gen \in installed,
           Provisioned(o) => Provisioned(inst) \/ inst.gen \in credentials,
           Provisioned(o) /\ ~Detaching(o) =>
               (Provisioned(inst) /\ ~Detaching(inst)) \/ inst.gen \notin answers
    PROVE  GuestInvariant'
<1>1. CASE Accepted(inst)
  <2>1. inst = ws
    BY <1>1, AcceptedNewest DEF GuestInvariant
  <2>2. Store(o) /\ inst' = ws' /\ pc' = next
    BY <1>1 DEF Record
  <2>3. next \notin Resetting
    BY DEF Working
  <2>4. Provisioned(o) /\ ~Detaching(o) => ws.gen \notin answers
    BY <2>1 DEF GuestInvariant, AnswerFileRemoved
  <2> QED BY <2>1, <2>2, <2>3, <2>4, StoresVersion
<1>2. CASE ~Accepted(inst)
  <2>1. EndPass /\ UNCHANGED object
    BY <1>2 DEF Record
  <2> QED BY <2>1, MovesOn DEF EndPass, Working, Resetting, Steps
<1> QED BY <1>1, <1>2

LEMMA ReconcileInvariant ==
    ASSUME TypeOK, GuestInvariant, Reconcile
    PROVE  GuestInvariant'
<1> USE DEF object, secret, machine, counters, GuestInvariant
<1>1. PICK v \in known :
          /\ inst' = v
          /\ known' = {u \in known : u.rv >= v.rv}
          /\ pc' = IF v.reset THEN "handleReset" ELSE "finishDetach"
  BY DEF Reconcile
<1>2. UNCHANGED <<ws, secret, machine>>
  BY DEF Reconcile
<1>3. VersionsAgree' /\ ResetSticks'
  BY <1>1, <1>2, VersionsDropped DEF Versions
<1>4. PassCurrent'
  <2>1. CASE v.reset
    BY <1>1, <1>2, <2>1 DEF PassCurrent, Working, Resetting, TypeOK, Workspace
  <2>2. CASE ~v.reset
    <3>1. v.gen = ws.gen
      BY <2>2 DEF VersionsAgree, Versions, TypeOK, Workspace
    <3> QED BY <1>1, <1>2, <2>2, <3>1 DEF PassCurrent, Resetting
  <2> QED BY <2>1, <2>2
<1>5. SecretKept'
  BY <1>1, <1>2 DEF SecretKept, Working, Resetting
<1>6. MachineCurrent'
  BY <1>2 DEF MachineCurrent
<1>7. SetupHasInstaller' /\ AnswerFileRemoved' /\ GPUStable'
  BY <1>2 DEF SetupHasInstaller, AnswerFileRemoved, GPUStable
<1> QED BY <1>3, <1>4, <1>5, <1>6, <1>7

LEMMA handleResetInvariant ==
    ASSUME TypeOK, GuestInvariant, handleReset
    PROVE  GuestInvariant'
<1> USE DEF object, secret, machine, counters, GuestInvariant
<1>1. CASE vm.live
  <2>1. EndPass /\ UNCHANGED <<object, secret, guest, installed>>
    BY <1>1 DEF handleReset
  <2>2. vm'.live /\ vm'.gen = vm.gen /\ vm'.sysprep = vm.sysprep /\ vm'.gpu = vm.gpu
    BY <1>1 DEF handleReset, TypeOK
  <2>3. VersionsAgree' /\ ResetSticks'
    BY <2>1, VersionsDropped DEF Versions, EndPass
  <2>4. PassCurrent'
    BY <2>1 DEF PassCurrent, EndPass, Resetting, Working, Steps
  <2>5. MachineCurrent'
    BY <1>1, <2>1, <2>2 DEF MachineCurrent
  <2>6. SecretKept'
    BY <2>1 DEF SecretKept, EndPass, Working, Steps
  <2>7. SetupHasInstaller' /\ AnswerFileRemoved' /\ GPUStable'
    BY <2>1, <2>2 DEF SetupHasInstaller, AnswerFileRemoved, GPUStable
  <2> QED BY <2>3, <2>4, <2>5, <2>6, <2>7
<1>2. CASE ~vm.live
  <2>1. Goto("dropSecret") /\ UNCHANGED <<object, secret, machine>>
    BY <1>2 DEF handleReset
  <2> QED
    BY <1>2, <2>1, MovesOn DEF handleReset, Goto, Working, Resetting
<1> QED BY <1>1, <1>2

(* The Secret goes only when no version is left without the request.       *)
LEMMA dropSecretInvariant ==
    ASSUME TypeOK, GuestInvariant, dropSecret
    PROVE  GuestInvariant'
<1> USE DEF object, secret, machine, counters, GuestInvariant, Goto
<1>1. /\ pc = "dropSecret" /\ pc' = "clearReset"
      /\ credentials' = credentials \ {inst.gen}
      /\ answers' \subseteq answers
      /\ UNCHANGED <<object, machine, inst>>
  BY DEF dropSecret
<1>2. VersionsAgree' /\ ResetSticks'
  BY <1>1, VersionsDropped DEF Versions
<1>3. PassCurrent'
  BY <1>1 DEF PassCurrent, Resetting, Working
<1>4. SecretKept'
  <2> SUFFICES ASSUME Provisioned(ws), ws.gen \notin credentials',
                      NEW u \in known \cup {ws}
               PROVE  u.reset
    BY <1>1 DEF SecretKept, Working, Resetting, Provisioned
  <2>1. CASE ws.gen \notin credentials
    BY <2>1 DEF SecretKept
  <2>2. CASE ws.gen = inst.gen
    <3>1. inst.reset /\ \A w \in known : inst.rv <= w.rv
      BY <1>1 DEF PassCurrent, Resetting
    <3>2. inst.rv <= u.rv /\ u.gen <= ws.gen
      BY <3>1 DEF VersionsAgree, Versions
    <3>3. u.reset \/ inst.gen < u.gen
      BY <3>1, <3>2 DEF ResetSticks, Versions
    <3> QED BY <2>2, <3>2, <3>3 DEF TypeOK, Workspace
  <2> QED BY <1>1, <2>1, <2>2
<1>5. MachineCurrent'
  BY <1>1 DEF MachineCurrent
<1>6. SetupHasInstaller' /\ AnswerFileRemoved' /\ GPUStable'
  BY <1>1 DEF SetupHasInstaller, AnswerFileRemoved, GPUStable
<1> QED BY <1>2, <1>3, <1>4, <1>5, <1>6

(* The write that starts a generation finds every version left asking for  *)
(* it, and no VM.                                                          *)
LEMMA clearResetInvariant ==
    ASSUME TypeOK, GuestInvariant, clearReset
    PROVE  GuestInvariant'
<1> USE DEF object, secret, machine, counters, GuestInvariant
<1>1. /\ pc = "clearReset" /\ Record(NextGeneration(inst), "idle")
      /\ UNCHANGED <<secret, machine>>
  BY DEF clearReset
<1>2. inst.reset /\ (\A u \in known : inst.rv <= u.rv) /\ ~vm.live
  BY <1>1 DEF PassCurrent, Resetting
<1>3. CASE Accepted(inst)
  <2>1. inst = ws
    BY <1>3, AcceptedNewest
  <2>2. Store(NextGeneration(ws)) /\ inst' = ws' /\ pc' = "idle"
    BY <1>1, <1>3, <2>1 DEF Record
  <2>3. ws' \in Workspace
    BY <2>1, <2>2, WrittenType, StoreType
  <2>4. /\ ws'.rv = ws.rv + 1 /\ ws'.gen = ws.gen + 1
        /\ ws'.provisioned = 0
    BY <2>2 DEF Store, NextGeneration, TypeOK, Workspace
  <2>5. ~Provisioned(ws')
    BY <2>3, <2>4 DEF Provisioned, Workspace
  <2>6. \A u \in known : u = ws
    BY <1>2, <2>1 DEF VersionsAgree, Versions, TypeOK, Workspace
  <2>7. Versions' = known \cup {ws'}
    BY <2>2 DEF Versions, Store
  <2>8. VersionsAgree' /\ ResetSticks'
    BY <1>1, <1>2, <2>1, <2>3, <2>4, <2>5, <2>6, <2>7, VersionStored DEF Versions
  <2>9. PassCurrent'
    BY <2>2 DEF PassCurrent, Resetting, Working, Steps
  <2>10. MachineCurrent'
    BY <1>1, <1>2 DEF MachineCurrent
  <2>11. SecretKept' /\ AnswerFileRemoved'
    BY <2>5 DEF SecretKept, AnswerFileRemoved, Provisioned
  <2>12. SetupHasInstaller' /\ GPUStable'
    BY <1>1 DEF SetupHasInstaller, GPUStable
  <2> QED BY <2>8, <2>9, <2>10, <2>11, <2>12
<1>4. CASE ~Accepted(inst)
  <2>1. EndPass /\ UNCHANGED object
    BY <1>1, <1>4 DEF Record
  <2> QED BY <1>1, <2>1, MovesOn DEF EndPass, Working, Resetting, Steps
<1> QED BY <1>3, <1>4

LEMMA stripAnswerInvariant ==
    ASSUME TypeOK, GuestInvariant, stripAnswer
    PROVE  GuestInvariant'
<1> USE DEF object, secret, machine, counters, GuestInvariant
<1>1. /\ pc = "stripAnswer" /\ UNCHANGED <<object, credentials, machine, inst>>
      /\ \/ answers' = answers \ {inst.gen} /\ pc' = "clearDetach"
         \/ answers' = answers /\ pc' = "idle"
  BY DEF stripAnswer, Goto, EndPass
<1>2. VersionsAgree' /\ ResetSticks'
  BY <1>1, VersionsDropped DEF Versions
<1>3. PassCurrent'
  BY <1>1 DEF PassCurrent, Resetting, Working, Steps
<1>4. SecretKept'
  BY <1>1 DEF SecretKept, Resetting, Working, Steps
<1>5. MachineCurrent' /\ SetupHasInstaller' /\ GPUStable'
  BY <1>1 DEF MachineCurrent, SetupHasInstaller, GPUStable
<1>6. AnswerFileRemoved'
  BY <1>1 DEF AnswerFileRemoved
<1> QED BY <1>2, <1>3, <1>4, <1>5, <1>6

(* An answer file is made only for a generation without a Secret, and such *)
(* a generation is not provisioned while a pass works on it.               *)
LEMMA reconcileWindowsBootstrapInvariant ==
    ASSUME TypeOK, GuestInvariant, reconcileWindowsBootstrap
    PROVE  GuestInvariant'
<1> USE DEF object, secret, machine, counters, GuestInvariant
<1>1. /\ pc = "bootstrap" /\ pc' \in {"reconcileVM", "idle"}
      /\ UNCHANGED <<object, machine, inst>>
  BY DEF reconcileWindowsBootstrap, Goto, EndPass
<1>2. pc \in Working
  BY <1>1 DEF Working, Resetting, Steps
<1>3. inst.gen = ws.gen
  BY <1>2 DEF PassCurrent
<1>4. CASE UNCHANGED secret
  BY <1>1, <1>2, <1>3, <1>4, MovesOn DEF Working, Resetting, Steps
<1>5. CASE /\ inst.gen \notin credentials
           /\ credentials' = credentials \cup {inst.gen}
           /\ answers' = answers \cup {inst.gen}
  <2>1. ~Provisioned(ws)
    BY <1>2, <1>3, <1>5 DEF SecretKept
  <2>2. VersionsAgree' /\ ResetSticks'
    BY <1>1, VersionsDropped DEF Versions
  <2>3. PassCurrent'
    BY <1>1, <1>3 DEF PassCurrent, Resetting
  <2>4. SecretKept' /\ AnswerFileRemoved'
    BY <1>1, <2>1 DEF SecretKept, AnswerFileRemoved, Provisioned
  <2>5. MachineCurrent' /\ SetupHasInstaller' /\ GPUStable'
    BY <1>1 DEF MachineCurrent, SetupHasInstaller, GPUStable
  <2> QED BY <2>2, <2>3, <2>4, <2>5
<1> QED BY <1>4, <1>5 DEF reconcileWindowsBootstrap

LEMMA reconcileVirtualMachineInvariant ==
    ASSUME TypeOK, GuestInvariant, reconcileVirtualMachine
    PROVE  GuestInvariant'
<1> USE DEF object, secret, machine, counters, GuestInvariant
<1>1. /\ pc = "reconcileVM" /\ pc' \in {"windowsReady", "idle"}
      /\ UNCHANGED <<object, secret, guest, installed, inst>>
  BY DEF reconcileVirtualMachine, Goto, EndPass
<1>2. pc \in Working
  BY <1>1 DEF Working, Resetting, Steps
<1>3. inst.gen = ws.gen
  BY <1>2 DEF PassCurrent
<1>4. CASE UNCHANGED vm
  BY <1>1, <1>2, <1>3, <1>4, MovesOn DEF Working, Resetting, Steps
<1>5. CASE /\ vm' = [live |-> TRUE, gen |-> inst.gen,
                     sysprep |-> ~Provisioned(inst),
                     running |-> ~PoweredOff(inst), gpu |-> inst.gpu,
                     deleting |-> vm.live /\ vm.deleting]
           /\ vm.live => /\ vm.gen = inst.gen
                         /\ vm.gpu = inst.gpu \/ guest.phase = "none"
  <2>1. /\ vm'.live /\ vm'.gen = inst.gen /\ vm'.gpu = inst.gpu
        /\ vm'.sysprep = ~Provisioned(inst)
    BY <1>5
  <2>2. Provisioned(inst) => inst.gen \in installed
    BY DEF VersionsAgree, Versions
  <2>3. VersionsAgree' /\ ResetSticks'
    BY <1>1, VersionsDropped DEF Versions
  <2>4. PassCurrent'
    BY <1>1, <1>3 DEF PassCurrent, Resetting
  <2>5. MachineCurrent'
    BY <1>1, <1>3, <2>1, <2>2 DEF MachineCurrent
  <2>6. SecretKept' /\ AnswerFileRemoved'
    BY <1>1, <1>2 DEF SecretKept, AnswerFileRemoved
  <2>7. SetupHasInstaller' /\ GPUStable'
    BY <1>1, <1>5, <2>1 DEF SetupHasInstaller, GPUStable, MachineCurrent
  <2> QED BY <2>3, <2>4, <2>5, <2>6, <2>7
<1> QED BY <1>4, <1>5 DEF reconcileVirtualMachine, generateWindowsVM,
                          guardWindowsGPUTransition

LEMMA statusWriteInvariant ==
    ASSUME TypeOK, GuestInvariant, statusWrite
    PROVE  GuestInvariant'
<1> USE DEF object, secret, machine, counters, GuestInvariant
<1>1. pc' = "idle" /\ UNCHANGED <<secret, machine, inst>>
  BY DEF statusWrite, EndPass
<1>2. CASE UNCHANGED object
  BY <1>1, <1>2, MovesOn DEF Working, Resetting, Steps
<1>3. CASE ws' = [ws EXCEPT !.rv = @ + 1, !.ready = ready] /\ known' = {ws, ws'}
  <2>1. ws' \in Workspace
    BY <1>3, WrittenType
  <2>2. /\ ws'.rv = ws.rv + 1 /\ ws'.gen = ws.gen /\ ws'.reset = ws.reset
        /\ ws'.provisioned = ws.provisioned /\ ws'.detaching = ws.detaching
    BY <1>3 DEF TypeOK, Workspace
  <2>3. ws' \in Versions' /\ Versions' \subseteq Versions \cup {ws'}
    BY <1>1, <1>3 DEF Versions
  <2>4. Provisioned(ws') => ws'.gen \in installed
    BY <2>2 DEF VersionsAgree, Versions, Provisioned
  <2>5. VersionsAgree' /\ ResetSticks'
    BY <1>1, <2>1, <2>2, <2>3, <2>4, VersionStored
  <2>6. PassCurrent'
    BY <1>1 DEF PassCurrent, Working, Resetting, Steps
  <2>7. SecretKept'
    BY <1>1, <1>3, <2>2 DEF SecretKept, Provisioned, Working, Steps
  <2>8. AnswerFileRemoved'
    BY <1>1, <2>2 DEF AnswerFileRemoved, Provisioned, Detaching
  <2>9. MachineCurrent' /\ SetupHasInstaller' /\ GPUStable'
    BY <1>1, <2>2 DEF MachineCurrent, SetupHasInstaller, GPUStable
  <2> QED BY <2>5, <2>6, <2>7, <2>8, <2>9
<1> QED BY <1>2, <1>3 DEF statusWrite

LEMMA PassInvariant ==
    ASSUME TypeOK, GuestInvariant, Pass
    PROVE  GuestInvariant'
<1> USE DEF object, secret, machine, counters
<1>1. CASE finishWindowsDetach
  <2>1. pc = "finishDetach" /\ pc' \in {"stripAnswer", "finishReboot"}
    BY <1>1 DEF finishWindowsDetach, Goto
  <2>2. UNCHANGED <<object, secret, machine, inst>>
    BY <1>1 DEF finishWindowsDetach, Goto
  <2> QED BY <2>1, <2>2, MovesOn DEF GuestInvariant, PassCurrent, Working,
                                     Resetting, Steps
<1>2. CASE clearDetach
  <2>1. "finishReboot" \in Working \ {"provision", "clearDetach"} /\ pc \in Working
    BY <1>2 DEF clearDetach, Working, Resetting, Steps
  <2>2. inst.gen \notin answers
    BY <1>2 DEF clearDetach, GuestInvariant, PassCurrent
  <2>3. Provisioned(inst) => inst.gen \in installed
    BY DEF GuestInvariant, VersionsAgree, Versions
  <2> DEFINE o == [inst EXCEPT !.detaching = 0]
  <2>4. /\ o \in Workspace /\ o.gen = inst.gen /\ o.reset = inst.reset
        /\ Provisioned(o) <=> Provisioned(inst)
    BY WrittenType DEF TypeOK, Workspace, Provisioned
  <2>5. Record(o, "finishReboot") /\ UNCHANGED <<secret, machine>>
    BY <1>2 DEF clearDetach
  <2> HIDE DEF o
  <2> QED BY <2>1, <2>2, <2>3, <2>4, <2>5, RecordsVersion
<1>3. CASE finishWindowsReboot
  <2>1. pc = "finishReboot" /\ pc' \in {"clearReboot", "bootstrap"}
    BY <1>3 DEF finishWindowsReboot, Goto
  <2>2. UNCHANGED <<object, secret, machine, inst>>
    BY <1>3 DEF finishWindowsReboot, Goto
  <2> QED BY <2>1, <2>2, MovesOn DEF GuestInvariant, PassCurrent, Working,
                                     Resetting, Steps
<1>4. CASE clearReboot
  <2>1. "bootstrap" \in Working \ {"provision", "clearDetach"} /\ pc \in Working
    BY <1>4 DEF clearReboot, Working, Resetting, Steps
  <2>2. Provisioned(inst) => inst.gen \in installed
    BY DEF GuestInvariant, VersionsAgree, Versions
  <2> DEFINE o == [inst EXCEPT !.reboot = FALSE]
  <2>3. /\ o \in Workspace /\ o.gen = inst.gen /\ o.reset = inst.reset
        /\ Provisioned(o) <=> Provisioned(inst)
        /\ Detaching(o) <=> Detaching(inst)
    BY WrittenType DEF TypeOK, Workspace, Provisioned, Detaching
  <2>4. Record(o, "bootstrap") /\ UNCHANGED <<secret, machine>>
    BY <1>4 DEF clearReboot
  <2> HIDE DEF o
  <2> QED BY <2>1, <2>2, <2>3, <2>4, RecordsVersion
<1>5. CASE windowsReady
  <2>1. /\ pc = "windowsReady" /\ pc' \in {"statusWrite", "provision"}
        /\ pc' = "provision" => inst.gen \in installed
    BY <1>5 DEF windowsReady, Goto, Observed, CompleteBootstrap
  <2>2. UNCHANGED <<object, secret, machine, inst>>
    BY <1>5 DEF windowsReady, Goto, Observed
  <2> QED BY <2>1, <2>2, MovesOn DEF GuestInvariant, PassCurrent, Working,
                                     Resetting, Steps
<1>6. CASE provision
  <2>1. pc = "provision" /\ UNCHANGED <<secret, machine>>
    BY <1>6 DEF provision
  <2>2. pc \in Working /\ "statusWrite" \in Working \ {"provision", "clearDetach"}
    BY <2>1 DEF Working, Resetting, Steps
  <2>3. inst.gen \in installed
    BY <2>1 DEF GuestInvariant, PassCurrent
  <2> DEFINE o == [inst EXCEPT !.provisioned = inst.gen, !.detaching = inst.gen]
  <2>4. CASE inst.gen \in credentials
    <3>1. o \in Workspace /\ o.gen = inst.gen /\ o.reset = inst.reset /\ Detaching(o)
      BY WrittenType DEF TypeOK, Workspace, Detaching
    <3>2. Record(o, "statusWrite")
      BY <1>6, <2>4 DEF provision
    <3> HIDE DEF o
    <3> QED BY <2>1, <2>2, <2>3, <2>4, <3>1, <3>2, RecordsVersion
  <2>5. CASE inst.gen \notin credentials
    BY <1>6, <2>1, <2>5, MovesOn DEF provision, EndPass, Working, Resetting, Steps
  <2> QED BY <2>4, <2>5
<1> QED BY <1>1, <1>2, <1>3, <1>4, <1>5, <1>6, ReconcileInvariant,
           handleResetInvariant, dropSecretInvariant, clearResetInvariant,
           stripAnswerInvariant, reconcileWindowsBootstrapInvariant,
           reconcileVirtualMachineInvariant, statusWriteInvariant DEF Pass

-----------------------------------------------------------------------------
(* The invariant: users, the watch and KubeVirt.                           *)

LEMMA UserInvariant ==
    ASSUME TypeOK, GuestInvariant, User
    PROVE  GuestInvariant'
<1>1. PICK o \in Workspace :
          /\ UserWrites(o)
          /\ o.gen = ws.gen /\ (ws.reset => o.reset)
          /\ o.provisioned = ws.provisioned /\ o.detaching = ws.detaching
  <2>1. CASE UserWrites([ws EXCEPT !.stopped = ~@])
    BY <2>1, WrittenType DEF TypeOK, Workspace
  <2>2. CASE UserWrites([ws EXCEPT !.reboot = TRUE])
    BY <2>2, WrittenType DEF TypeOK, Workspace
  <2>3. CASE UserWrites([ws EXCEPT !.reset = TRUE])
    BY <2>3, WrittenType DEF TypeOK, Workspace
  <2>4. CASE UserWrites([ws EXCEPT !.gpu = 1 - @])
    BY <2>4, WrittenType DEF TypeOK, Workspace
  <2> QED BY <2>1, <2>2, <2>3, <2>4 DEF User
<1>2. Store(o) /\ UNCHANGED <<secret, machine, pc, inst>>
  BY <1>1 DEF UserWrites, pass
<1>3. Provisioned(ws) => ws.gen \in installed
  BY DEF GuestInvariant, VersionsAgree, Versions
<1> QED
  BY <1>1, <1>2, <1>3, StoresVersion
     DEF GuestInvariant, AnswerFileRemoved, Provisioned, Detaching

LEMMA KubeVirtInvariant ==
    ASSUME TypeOK, GuestInvariant, KubeVirt \/ CrashGuest
    PROVE  GuestInvariant'
<1> USE DEF object, secret, pass, counters, GuestInvariant
<1>1. UNCHANGED <<ws, known, secret, pc, inst>> /\ installed \subseteq installed'
  BY DEF KubeVirt, StartGuest, AgentConnects, SetupFinishes, StopGuest,
         RemoveVM, CrashGuest
<1>2. VersionsAgree' /\ ResetSticks'
  BY <1>1, VersionsDropped DEF Versions
<1>3. SecretKept' /\ AnswerFileRemoved'
  BY <1>1 DEF SecretKept, AnswerFileRemoved
<1>4. PassCurrent'
  <2>1. ~vm.live => ~vm'.live
    BY DEF KubeVirt, StartGuest, AgentConnects, SetupFinishes, StopGuest,
           RemoveVM, CrashGuest, TypeOK
  <2> QED BY <1>1, <2>1 DEF PassCurrent
<1>5. MachineCurrent' /\ SetupHasInstaller' /\ GPUStable'
  <2> USE DEF MachineCurrent, SetupHasInstaller, GPUStable
  <2>1. CASE StartGuest
    BY <1>1, <2>1 DEF StartGuest, TypeOK
  <2>2. CASE AgentConnects
    BY <1>1, <2>2 DEF AgentConnects, TypeOK
  <2>3. CASE SetupFinishes
    BY <1>1, <2>3 DEF SetupFinishes
  <2>4. CASE StopGuest \/ CrashGuest
    BY <1>1, <2>4 DEF StopGuest, CrashGuest, Off
  <2>5. CASE RemoveVM
    BY <1>1, <2>5 DEF RemoveVM, TypeOK
  <2> QED BY <2>1, <2>2, <2>3, <2>4, <2>5 DEF KubeVirt
<1> QED BY <1>2, <1>3, <1>4, <1>5

LEMMA NextInvariant ==
    ASSUME TypeOK, GuestInvariant, [Next]_vars
    PROVE  GuestInvariant'
<1> USE DEF object, secret, machine, pass, counters
<1>1. CASE Interrupt
  BY <1>1, MovesOn DEF Interrupt, EndPass, Working, Resetting, Steps
<1>2. CASE DeliverWorkspace
  <2>1. known' \subseteq known /\ UNCHANGED <<ws, secret, machine, pc, inst>>
    BY <1>2 DEF DeliverWorkspace
  <2>2. VersionsAgree' /\ ResetSticks'
    BY <2>1, VersionsDropped DEF GuestInvariant, Versions
  <2>3. PassCurrent' /\ MachineCurrent'
    BY <2>1 DEF GuestInvariant, PassCurrent, MachineCurrent
  <2>4. SecretKept' /\ AnswerFileRemoved'
    BY <2>1 DEF GuestInvariant, SecretKept, AnswerFileRemoved
  <2>5. SetupHasInstaller' /\ GPUStable'
    BY <2>1 DEF GuestInvariant, SetupHasInstaller, GPUStable
  <2> QED BY <2>2, <2>3, <2>4, <2>5 DEF GuestInvariant
<1>3. CASE UNCHANGED vars
  BY <1>3, MovesOn DEF vars, GuestInvariant, PassCurrent
<1> QED BY <1>1, <1>2, <1>3, PassInvariant, UserInvariant, KubeVirtInvariant
           DEF Next

-----------------------------------------------------------------------------
(* Theorems.                                                               *)

(* Every reachable state has the stated types and satisfies the inductive  *)
(* invariant: versions of the Workspace agree about generations and        *)
(* requests to reset, whatever the cache still holds, passes outside       *)
(* handleReset work on the present generation, and the bootstrap Secret of *)
(* a provisioned one outlives every pass that could make it again.         *)
THEOREM GuestInvariantHolds == Spec => [](TypeOK /\ GuestInvariant)
<1>1. Init => TypeOK /\ GuestInvariant
  BY InitType, InitInvariant
<1>2. TypeOK /\ GuestInvariant /\ [Next]_vars => (TypeOK /\ GuestInvariant)'
  BY NextType, NextInvariant
<1> QED BY <1>1, <1>2, PTL DEF Spec

(* No pass, however old the version it read, brings back the VM of a root  *)
(* that handleReset has replaced.                                          *)
THEOREM VMGenerationCurrentHolds == Spec => []VMGenerationCurrent
<1>1. GuestInvariant => VMGenerationCurrent
  BY DEF GuestInvariant, MachineCurrent, VMGenerationCurrent
<1> QED BY <1>1, GuestInvariantHolds, PTL

(* A root that has not been through setup never boots without its          *)
(* bootstrap CD (generateWindowsVirtualMachine, CompleteBootstrap).        *)
THEOREM SetupHasInstallerHolds == Spec => []SetupHasInstaller
<1>1. GuestInvariant => SetupHasInstaller
  BY DEF GuestInvariant
<1> QED BY <1>1, GuestInvariantHolds, PTL

(* Once finishWindowsDetach has recorded the end of the detachment, no     *)
(* step puts the answer file with its password back into the cluster.      *)
THEOREM AnswerFileRemovedHolds == Spec => []AnswerFileRemoved
<1>1. GuestInvariant => AnswerFileRemoved
  BY DEF GuestInvariant
<1> QED BY <1>1, GuestInvariantHolds, PTL

(* A running guest always has the GPU its VM specifies                     *)
(* (guardWindowsGPUTransition).                                            *)
THEOREM GPUStableHolds == Spec => []GPUStable
<1>1. GuestInvariant => GPUStable
  BY DEF GuestInvariant
<1> QED BY <1>1, GuestInvariantHolds, PTL

-----------------------------------------------------------------------------
(* The restart that takes the CD out.  As long as nobody asked for         *)
(* anything and no guest went down by itself, a Workspace goes through     *)
(* installing, detaching and running, in this order, and finishWindows-    *)
(* Detach can take the absence of the guest for the restart.               *)

Quiet == edits = 0 /\ crashes = 0

CDOut == vm.live /\ ~vm.sysprep /\ (guest.phase # "none" => ~guest.sysprep)

NothingAsked ==
    /\ \A u \in Versions : ~u.reset /\ ~u.stopped /\ ~u.reboot
    /\ pc \notin Resetting
    /\ ~vm.deleting

(* Provisioned versions are followed by provisioned ones; a version that   *)
(* is past the detachment finds the CD gone.                               *)
Phases ==
    /\ \A u, v \in Versions : u.rv <= v.rv /\ Provisioned(u) => Provisioned(v)
    /\ \A u \in Versions : Detaching(u) => Provisioned(u)
    /\ \A u \in Versions : Provisioned(u) /\ ~Detaching(u) => CDOut

(* A VM specified without the CD, and a pass that could specify one, leave *)
(* no version to which the generation is still to be installed.            *)
NoWayBack ==
    /\ vm.live /\ ~vm.sysprep =>
          /\ \A u \in known : Provisioned(u)
          /\ pc # "idle" => Provisioned(inst)
    /\ pc \notin {"idle", "statusWrite"} /\ Provisioned(inst) =>
          \A u \in known : Provisioned(u)

(* The installed guest is there until its VM is specified without the CD.  *)
GuestStays ==
    /\ vm.live /\ ~vm.running => ~vm.sysprep
    /\ pc \in {"windowsReady", "provision"} /\ ~Provisioned(inst) =>
          vm.live /\ vm.running
    /\ pc = "provision" => guest.phase # "none" /\ ~Provisioned(inst)
    /\ Provisioned(ws) => vm.live /\ (guest.phase = "none" => ~vm.sysprep)
    /\ pc \in {"stripAnswer", "clearDetach"} => CDOut
    /\ ready => CDOut

Undisturbed == NothingAsked /\ Phases /\ NoWayBack /\ GuestStays

Restarted == Quiet => Undisturbed

LEMMA InitRestarted == Init => Restarted
BY DEF Init, Off, Restarted, Undisturbed, NothingAsked, Phases, NoWayBack,
       GuestStays, CDOut, Versions, Resetting, Provisioned, Detaching

(* A step that stores nothing and leaves the machine alone.                *)
LEMMA UndisturbedMovesOn ==
    ASSUME Undisturbed, UNCHANGED <<ws, machine>>,
           known' \subseteq known, inst' \in {inst} \cup known,
           pc' \notin Resetting,
           pc' # "idle" => \/ pc # "idle" /\ UNCHANGED inst
                           \/ inst' \in known /\ \A u \in known' : inst'.rv <= u.rv,
           pc' \notin {"idle", "statusWrite"} =>
               \/ pc \notin {"idle", "statusWrite"} /\ UNCHANGED inst
               \/ inst' \in known /\ \A u \in known' : inst'.rv <= u.rv,
           pc' \in {"windowsReady", "provision"} /\ ~Provisioned(inst') =>
               vm.live /\ vm.running,
           pc' = "provision" => guest.phase # "none" /\ ~Provisioned(inst'),
           pc' \in {"stripAnswer", "clearDetach"} => CDOut,
           ready' => CDOut
    PROVE  Undisturbed'
<1> USE DEF Undisturbed, machine
<1>1. Versions' \subseteq Versions
  BY DEF Versions
<1>2. CDOut' = CDOut
  BY DEF CDOut
<1>3. NothingAsked'
  BY <1>1 DEF NothingAsked
<1>4. Phases'
  BY <1>1, <1>2 DEF Phases, Provisioned, Detaching
<1>5. NoWayBack'
  <2>1. ASSUME vm.live, ~vm.sysprep
        PROVE  (\A u \in known' : Provisioned(u)) /\ (pc' # "idle" => Provisioned(inst'))
    BY <2>1 DEF NoWayBack
  <2>2. ASSUME pc' \notin {"idle", "statusWrite"}, Provisioned(inst')
        PROVE  \A u \in known' : Provisioned(u)
    <3>1. CASE pc \notin {"idle", "statusWrite"} /\ UNCHANGED inst
      BY <2>2, <3>1 DEF NoWayBack
    <3>2. CASE inst' \in known /\ \A u \in known' : inst'.rv <= u.rv
      BY <1>1, <2>2, <3>2 DEF Phases, Versions
    <3> QED BY <2>2, <3>1, <3>2
  <2> QED BY <2>1, <2>2 DEF NoWayBack, Provisioned
<1>6. GuestStays'
  BY <1>2 DEF GuestStays, Provisioned
<1> QED BY <1>3, <1>4, <1>5, <1>6

(* A step of the pass that stores progress and goes on with it.            *)
LEMMA UndisturbedRecords ==
    ASSUME TypeOK, GuestInvariant, Undisturbed, UNCHANGED <<machine, ready>>,
           NEW o \in Workspace, Store(o), inst = ws, inst' = ws',
           pc \notin {"idle", "statusWrite"},
           pc' \in {"finishReboot", "bootstrap", "statusWrite"},
           o.gen = ws.gen, ~o.reset, ~o.stopped, ~o.reboot,
           Provisioned(ws) => Provisioned(o),
           pc' # "statusWrite" /\ Provisioned(o) => Provisioned(ws),
           Detaching(o) => Provisioned(o),
           Provisioned(o) /\ ~Detaching(o) => CDOut,
           Provisioned(o) => vm.live /\ (guest.phase = "none" => ~vm.sysprep)
    PROVE  Undisturbed'
<1> USE DEF Undisturbed, machine
<1>1. /\ ws'.rv = ws.rv + 1 /\ ws'.gen = o.gen /\ ws'.reset = o.reset
      /\ ws'.stopped = o.stopped /\ ws'.reboot = o.reboot
      /\ ws'.provisioned = o.provisioned /\ ws'.detaching = o.detaching
  BY DEF Store, Workspace
<1>2. /\ Provisioned(ws') <=> Provisioned(o)
      /\ Detaching(ws') <=> Detaching(o)
  BY <1>1 DEF Provisioned, Detaching
<1>3. /\ known' = known \cup {ws'}
      /\ Versions' = known \cup {ws'} /\ known \subseteq Versions /\ ws \in Versions
  BY DEF Store, Versions
<1>4. CDOut' = CDOut
  BY DEF CDOut
<1>5. NothingAsked'
  BY <1>1, <1>3 DEF NothingAsked, Resetting
<1>6. \A u \in known : u.rv <= ws.rv /\ u.rv < ws'.rv /\ u.rv \in Nat /\ ws'.rv \in Nat
  BY <1>1, <1>3 DEF GuestInvariant, VersionsAgree, TypeOK, Workspace
<1>7. \A u, v \in Versions' : u.rv <= v.rv /\ Provisioned(u) => Provisioned(v)
  <2> SUFFICES ASSUME NEW u \in Versions', NEW v \in Versions',
                      u.rv <= v.rv, Provisioned(u)
               PROVE  Provisioned(v)
    OBVIOUS
  <2>1. CASE u \in known /\ v \in known
    BY <1>3, <2>1 DEF Phases
  <2>2. CASE u \in known /\ v = ws'
    BY <1>2, <1>3, <1>6, <2>2 DEF Phases
  <2>3. CASE u = ws' /\ v = ws'
    BY <2>3
  <2>4. CASE u = ws' /\ v \in known
    BY <1>6, <2>4
  <2> QED BY <1>3, <2>1, <2>2, <2>3, <2>4
<1>8. Phases'
  <2>1. \A u \in Versions' : Detaching(u) => Provisioned(u)
    BY <1>2, <1>3 DEF Phases
  <2>2. \A u \in Versions' : Provisioned(u) /\ ~Detaching(u) => CDOut'
    BY <1>2, <1>3, <1>4 DEF Phases
  <2> QED BY <1>7, <2>1, <2>2 DEF Phases, Provisioned, Detaching
<1>9. NoWayBack'
  <2>1. ASSUME vm.live, ~vm.sysprep
        PROVE  (\A u \in known' : Provisioned(u)) /\ Provisioned(ws')
    BY <1>2, <1>3, <2>1 DEF NoWayBack
  <2>2. ASSUME pc' # "statusWrite", Provisioned(ws')
        PROVE  \A u \in known' : Provisioned(u)
    BY <1>2, <1>3, <2>2 DEF NoWayBack
  <2> QED BY <2>1, <2>2 DEF NoWayBack, Provisioned
<1>10. GuestStays'
  <2>1. Provisioned(ws') => vm.live /\ (guest.phase = "none" => ~vm.sysprep)
    BY <1>2
  <2> QED BY <1>4, <2>1 DEF GuestStays, Provisioned
<1> QED BY <1>5, <1>8, <1>9, <1>10

LEMMA PassUndisturbed ==
    ASSUME TypeOK, GuestInvariant, Undisturbed, Pass
    PROVE  Undisturbed'
<1> USE DEF object, secret, machine, counters
<1>1. CASE Reconcile
  <2>1. PICK v \in known :
            /\ inst' = v
            /\ known' = {u \in known : u.rv >= v.rv}
            /\ pc' = IF v.reset THEN "handleReset" ELSE "finishDetach"
    BY <1>1 DEF Reconcile
  <2>2. ~v.reset
    BY DEF Undisturbed, NothingAsked, Versions
  <2>3. \A u \in known' : v.rv <= u.rv
    BY <2>1 DEF TypeOK, Workspace
  <2>4. pc' = "finishDetach" /\ UNCHANGED <<ws, machine, ready>>
    BY <1>1, <2>1, <2>2 DEF Reconcile
  <2>5. ready => CDOut
    BY DEF Undisturbed, GuestStays
  <2> QED BY <2>1, <2>3, <2>4, <2>5, UndisturbedMovesOn DEF Resetting
<1>2. CASE handleReset \/ dropSecret \/ clearReset
  BY <1>2 DEF handleReset, dropSecret, clearReset, Undisturbed, NothingAsked,
              Resetting
<1>3. CASE finishWindowsDetach
  <2>1. /\ pc = "finishDetach" /\ pc' \in {"stripAnswer", "finishReboot"}
        /\ pc' = "stripAnswer" => Detaching(inst) /\ guest.phase = "none"
        /\ UNCHANGED <<object, machine, inst, ready>>
    BY <1>3 DEF finishWindowsDetach, Goto
  <2>2. ASSUME pc' = "stripAnswer" PROVE CDOut
    <3>1. Provisioned(inst)
      BY <2>1, <2>2 DEF Undisturbed, Phases, Versions
    <3>2. Provisioned(ws)
      BY <3>1 DEF Undisturbed, Phases, Versions, GuestInvariant, VersionsAgree
    <3> QED BY <2>1, <2>2, <3>2 DEF Undisturbed, GuestStays, CDOut
  <2>3. ready => CDOut
    BY DEF Undisturbed, GuestStays
  <2> QED BY <2>1, <2>2, <2>3, UndisturbedMovesOn DEF Resetting
<1>4. CASE stripAnswer
  <2>1. /\ pc = "stripAnswer" /\ pc' \in {"clearDetach", "idle"}
        /\ UNCHANGED <<object, machine, inst>> /\ (ready' => ready)
    BY <1>4 DEF stripAnswer, Goto, EndPass
  <2>2. CDOut
    BY <2>1 DEF Undisturbed, GuestStays
  <2> QED BY <2>1, <2>2, UndisturbedMovesOn DEF Resetting
<1>5. CASE clearDetach
  <2> DEFINE o == [inst EXCEPT !.detaching = 0]
  <2>1. pc = "clearDetach" /\ Record(o, "finishReboot") /\ UNCHANGED machine
    BY <1>5 DEF clearDetach
  <2>2. CDOut
    BY <2>1 DEF Undisturbed, GuestStays
  <2>3. CASE Accepted(inst)
    <3>1. inst = ws
      BY <2>3, AcceptedNewest DEF GuestInvariant
    <3>2. Store(o) /\ inst' = ws' /\ pc' = "finishReboot" /\ UNCHANGED ready
      BY <2>1, <2>3 DEF Record
    <3>3. /\ o \in Workspace /\ o.gen = ws.gen
          /\ Provisioned(o) <=> Provisioned(ws)
          /\ ~Detaching(o)
      BY <3>1, WrittenType DEF TypeOK, Workspace, Provisioned, Detaching
    <3>4. ~o.reset /\ ~o.stopped /\ ~o.reboot
      BY <3>1 DEF Undisturbed, NothingAsked, Versions, TypeOK, Workspace
    <3> HIDE DEF o
    <3> QED BY <2>1, <2>2, <3>1, <3>2, <3>3, <3>4, UndisturbedRecords DEF CDOut
  <2>4. CASE ~Accepted(inst)
    BY <2>1, <2>2, <2>4, UndisturbedMovesOn DEF Record, EndPass, Resetting
  <2> QED BY <2>3, <2>4
<1>6. CASE finishWindowsReboot \/ reconcileWindowsBootstrap
  <2>1. /\ pc \in {"finishReboot", "bootstrap"}
        /\ pc' \in {"clearReboot", "bootstrap", "reconcileVM", "idle"}
        /\ UNCHANGED <<object, machine, inst>> /\ (ready' => ready)
    BY <1>6 DEF finishWindowsReboot, reconcileWindowsBootstrap, Goto, EndPass
  <2>2. ready => CDOut
    BY DEF Undisturbed, GuestStays
  <2> QED BY <2>1, <2>2, UndisturbedMovesOn DEF Resetting
<1>7. CASE clearReboot
  <2> DEFINE o == [inst EXCEPT !.reboot = FALSE]
  <2>1. pc = "clearReboot" /\ Record(o, "bootstrap") /\ UNCHANGED machine
    BY <1>7 DEF clearReboot
  <2>2. CASE Accepted(inst)
    <3>1. inst = ws
      BY <2>2, AcceptedNewest DEF GuestInvariant
    <3>2. Store(o) /\ inst' = ws' /\ pc' = "bootstrap" /\ UNCHANGED ready
      BY <2>1, <2>2 DEF Record
    <3>3. /\ o \in Workspace /\ o.gen = ws.gen
          /\ Provisioned(o) <=> Provisioned(ws)
          /\ Detaching(o) <=> Detaching(ws)
      BY <3>1, WrittenType DEF TypeOK, Workspace, Provisioned, Detaching
    <3>4. ~o.reset /\ ~o.stopped /\ ~o.reboot
      BY <3>1 DEF Undisturbed, NothingAsked, Versions, TypeOK, Workspace
    <3>5. /\ Detaching(ws) => Provisioned(ws)
          /\ Provisioned(ws) /\ ~Detaching(ws) => CDOut
          /\ Provisioned(ws) => vm.live /\ (guest.phase = "none" => ~vm.sysprep)
      BY DEF Undisturbed, Phases, GuestStays, Versions
    <3> HIDE DEF o
    <3> QED BY <2>1, <3>1, <3>2, <3>3, <3>4, <3>5, UndisturbedRecords
  <2>3. CASE ~Accepted(inst)
    BY <2>1, <2>3, UndisturbedMovesOn DEF Record, EndPass, Resetting
  <2> QED BY <2>2, <2>3
<1>8. CASE reconcileVirtualMachine
  <2>1. /\ pc = "reconcileVM" /\ pc' \in {"windowsReady", "idle"}
        /\ UNCHANGED <<object, guest, installed, inst>> /\ (ready' => ready)
    BY <1>8 DEF reconcileVirtualMachine, Goto, EndPass
  <2>2. ready => CDOut
    BY DEF Undisturbed, GuestStays
  <2>3. CASE UNCHANGED vm /\ pc' = "idle"
    BY <2>1, <2>2, <2>3, UndisturbedMovesOn DEF Resetting
  <2>4. CASE /\ vm' = [live |-> TRUE, gen |-> inst.gen,
                       sysprep |-> ~Provisioned(inst),
                       running |-> ~PoweredOff(inst), gpu |-> inst.gpu,
                       deleting |-> vm.live /\ vm.deleting]
             /\ pc' = "windowsReady"
    <3> USE DEF Undisturbed
    <3>1. /\ vm'.live /\ vm'.sysprep = ~Provisioned(inst)
          /\ vm'.running = ~PoweredOff(inst)
          /\ vm'.deleting = (vm.live /\ vm.deleting)
      BY <2>4
    <3>2. PoweredOff(inst) <=> Detaching(inst)
      BY DEF NothingAsked, Versions, PoweredOff
    <3>3. /\ vm.live /\ ~vm.sysprep => Provisioned(inst)
          /\ Provisioned(inst) => \A u \in known : Provisioned(u)
      BY <2>1 DEF NoWayBack
    <3>4. CDOut => CDOut'
      BY <2>1, <3>1, <3>3 DEF CDOut
    <3>5. Detaching(inst) => Provisioned(inst)
      BY DEF Phases, Versions
    <3>6. NothingAsked'
      BY <2>1, <2>4, <3>1 DEF NothingAsked, Versions, Resetting
    <3>7. Phases'
      BY <2>1, <3>4 DEF Phases, Versions
    <3>8. NoWayBack'
      BY <2>1, <2>4, <3>1, <3>3 DEF NoWayBack
    <3>9. GuestStays'
      <4>1. Provisioned(ws) => (guest.phase = "none" => ~vm'.sysprep)
        BY <3>1, <3>3 DEF GuestStays
      <4> QED BY <2>1, <2>2, <2>4, <3>1, <3>2, <3>4, <3>5, <4>1 DEF GuestStays
    <3> QED BY <3>6, <3>7, <3>8, <3>9
  <2> QED BY <1>8, <2>3, <2>4 DEF reconcileVirtualMachine, generateWindowsVM,
                                  EndPass, Goto
<1>9. CASE windowsReady
  <2>1. /\ pc = "windowsReady" /\ pc' \in {"statusWrite", "provision"}
        /\ pc' = "provision" => guest.phase = "up" /\ ~Provisioned(inst)
        /\ ready' => ready \/ (Provisioned(inst) /\ ~Detaching(inst))
        /\ UNCHANGED <<object, machine, inst>>
    BY <1>9 DEF windowsReady, Goto, Observed
  <2>2. ready' => CDOut
    BY <2>1 DEF Undisturbed, GuestStays, Phases, Versions
  <2>3. pc' = "provision" => vm.live /\ vm.running
    BY <2>1 DEF Undisturbed, GuestStays
  <2> QED BY <2>1, <2>2, <2>3, UndisturbedMovesOn DEF Resetting
<1>10. CASE provision
  <2> DEFINE o == [inst EXCEPT !.provisioned = inst.gen, !.detaching = inst.gen]
  <2>1. /\ pc = "provision" /\ UNCHANGED machine
        /\ Record(o, "statusWrite") \/ (EndPass /\ UNCHANGED object)
    BY <1>10 DEF provision
  <2>2. vm.live /\ guest.phase # "none"
    BY <2>1 DEF Undisturbed, GuestStays
  <2>3. CASE Record(o, "statusWrite") /\ Accepted(inst)
    <3>1. inst = ws
      BY <2>3, AcceptedNewest DEF GuestInvariant
    <3>2. Store(o) /\ inst' = ws' /\ pc' = "statusWrite" /\ UNCHANGED ready
      BY <2>3 DEF Record
    <3>3. /\ o \in Workspace /\ o.gen = ws.gen /\ Provisioned(o) /\ Detaching(o)
      BY <3>1, WrittenType DEF TypeOK, Workspace, Provisioned, Detaching
    <3>4. ~o.reset /\ ~o.stopped /\ ~o.reboot
      BY <3>1 DEF Undisturbed, NothingAsked, Versions, TypeOK, Workspace
    <3> HIDE DEF o
    <3> QED BY <2>1, <2>2, <3>1, <3>2, <3>3, <3>4, UndisturbedRecords
  <2>4. CASE EndPass /\ UNCHANGED object
    BY <2>1, <2>4, UndisturbedMovesOn DEF EndPass, Resetting
  <2> QED BY <2>1, <2>3, <2>4 DEF Record
<1>11. CASE statusWrite
  <2>1. /\ pc = "statusWrite" /\ pc' = "idle" /\ ~ready'
        /\ UNCHANGED <<machine, inst>>
    BY <1>11 DEF statusWrite, EndPass
  <2>2. CASE UNCHANGED object
    BY <2>1, <2>2, UndisturbedMovesOn DEF Resetting
  <2>3. CASE ws' = [ws EXCEPT !.rv = @ + 1, !.ready = ready] /\ known' = {ws, ws'}
    <3> USE DEF Undisturbed
    <3>1. /\ ws'.rv = ws.rv + 1 /\ ws'.gen = ws.gen /\ ws'.reset = ws.reset
          /\ ws'.stopped = ws.stopped /\ ws'.reboot = ws.reboot
          /\ ws'.provisioned = ws.provisioned /\ ws'.detaching = ws.detaching
      BY <2>3 DEF TypeOK, Workspace
    <3>2. /\ Provisioned(ws') <=> Provisioned(ws)
          /\ Detaching(ws') <=> Detaching(ws)
      BY <3>1 DEF Provisioned, Detaching
    <3>3. /\ Versions' = {ws, ws', inst} /\ ws \in Versions /\ inst \in Versions
      BY <2>1, <2>3 DEF Versions
    <3>4. CDOut' = CDOut
      BY <2>1 DEF CDOut
    <3>5. NothingAsked'
      BY <2>1, <3>1, <3>3 DEF NothingAsked, Resetting
    <3>6. /\ inst.rv <= ws.rv /\ inst.rv \in Nat /\ ws.rv \in Nat
          /\ Provisioned(inst) => Provisioned(ws)
      BY <3>3 DEF GuestInvariant, VersionsAgree, Phases, TypeOK, Workspace
    <3>7. Phases'
      <4>1. \A u, v \in Versions' : u.rv <= v.rv /\ Provisioned(u) => Provisioned(v)
        BY <3>1, <3>2, <3>3, <3>6 DEF Phases
      <4>2. \A u \in Versions' : /\ Detaching(u) => Provisioned(u)
                                 /\ Provisioned(u) /\ ~Detaching(u) => CDOut'
        BY <3>2, <3>3, <3>4 DEF Phases
      <4> QED BY <4>1, <4>2 DEF Phases, Provisioned, Detaching
    <3>8. NoWayBack'
      BY <2>1, <2>3, <3>2, <3>6 DEF NoWayBack, Provisioned
    <3>9. GuestStays'
      BY <2>1, <3>2 DEF GuestStays, Provisioned
    <3> QED BY <3>5, <3>7, <3>8, <3>9
  <2> QED BY <1>11, <2>2, <2>3 DEF statusWrite
<1> QED BY <1>1, <1>2, <1>3, <1>4, <1>5, <1>6, <1>7, <1>8, <1>9, <1>10,
           <1>11 DEF Pass

LEMMA KubeVirtUndisturbed ==
    ASSUME TypeOK, Undisturbed, KubeVirt
    PROVE  Undisturbed'
<1> USE DEF object, secret, pass, counters, Undisturbed
<1>1. ~RemoveVM /\ UNCHANGED <<ws, known, vm, pc, inst, ready>>
  BY DEF KubeVirt, StartGuest, AgentConnects, SetupFinishes, StopGuest,
         RemoveVM, NothingAsked
<1>2. NothingAsked' /\ NoWayBack'
  BY <1>1 DEF NothingAsked, NoWayBack, Versions
<1>3. CDOut => CDOut'
  BY <1>1 DEF KubeVirt, StartGuest, AgentConnects, SetupFinishes, StopGuest,
              CDOut, Off, TypeOK
<1>4. Phases'
  BY <1>1, <1>3 DEF Phases, Versions
<1>5. GuestStays'
  <2>1. guest'.phase = "none" => guest.phase = "none" \/ ~vm.running
    BY <1>1 DEF KubeVirt, StartGuest, AgentConnects, SetupFinishes, StopGuest,
                NothingAsked, TypeOK
  <2> QED BY <1>1, <1>3, <2>1 DEF GuestStays
<1> QED BY <1>2, <1>4, <1>5

LEMMA NextRestarted ==
    ASSUME TypeOK, GuestInvariant, Restarted, [Next]_vars
    PROVE  Restarted'
<1> USE DEF object, secret, machine, pass, counters
<1> SUFFICES ASSUME Quiet' PROVE Undisturbed'
  BY DEF Restarted
<1>1. Quiet /\ ~User /\ ~CrashGuest
  <2>1. ~User
    BY DEF User, UserWrites, Quiet, TypeOK
  <2>2. ~CrashGuest
    BY DEF CrashGuest, Quiet, TypeOK
  <2>3. UNCHANGED <<edits, crashes>>
    BY <2>1, <2>2 DEF Next, Pass, Reconcile, handleReset, dropSecret, clearReset,
       finishWindowsDetach, stripAnswer, clearDetach, finishWindowsReboot,
       clearReboot, reconcileWindowsBootstrap, reconcileVirtualMachine,
       windowsReady, provision, statusWrite, Interrupt, DeliverWorkspace,
       KubeVirt, StartGuest, AgentConnects, SetupFinishes, StopGuest, RemoveVM, vars
  <2> QED BY <2>1, <2>2, <2>3 DEF Quiet
<1>2. Undisturbed
  BY <1>1 DEF Restarted
<1>3. CASE Interrupt
  BY <1>2, <1>3, UndisturbedMovesOn DEF Interrupt, EndPass, Resetting
<1>4. CASE DeliverWorkspace \/ UNCHANGED vars
  <2>1. known' \subseteq known /\ UNCHANGED <<ws, machine, pc, inst, ready>>
    BY <1>4 DEF DeliverWorkspace, vars
  <2> QED BY <1>2, <2>1, UndisturbedMovesOn
             DEF Undisturbed, NothingAsked, GuestStays
<1> QED BY <1>1, <1>2, <1>3, <1>4, PassUndisturbed, KubeVirtUndisturbed DEF Next

(* A guest the pass reports ready has been restarted without its bootstrap *)
(* CD, wherever passes were cut short and whatever the cache lagged        *)
(* behind (finishWindowsDetach, windowsReady).                             *)
THEOREM ReadyWithoutCDHolds == Spec => ReadyWithoutCD
<1> DEFINE A == ws'.ready /\ ~ws.ready /\ guest.phase = "up" /\ vm.gen = inst.gen
                    /\ edits = 0 /\ crashes = 0 => ~guest.sysprep
<1>1. ASSUME TypeOK, GuestInvariant, Restarted, [Next]_vars
      PROVE  A
  <2> SUFFICES ASSUME ws'.ready, ~ws.ready, Quiet, guest.phase = "up"
               PROVE  ~guest.sysprep
    BY DEF Quiet
  <2>1. ready
    <3>1. \A o : Store(o) => ws'.ready = ws.ready \/ ~(o \in Workspace)
      BY DEF Store, Workspace
    <3>2. \A o, next : Record(o, next) => Store(o) \/ UNCHANGED ws
      BY DEF Record, object
    <3>3. ~User
      <4> SUFFICES ASSUME User PROVE FALSE
        OBVIOUS
      <4>1. PICK o \in Workspace : UserWrites(o)
        BY <1>1, WrittenType DEF User
      <4> QED BY <3>1, <4>1 DEF UserWrites
    <3>4. ~clearReset /\ ~clearDetach /\ ~clearReboot /\ ~provision
      BY <1>1, <3>1, <3>2, WrittenType DEF clearReset, clearDetach, clearReboot,
                                     provision, object
    <3>5. statusWrite
      BY <1>1, <3>3, <3>4 DEF Next, Pass, Reconcile, handleReset, dropSecret,
         finishWindowsDetach, stripAnswer, finishWindowsReboot,
         reconcileWindowsBootstrap, reconcileVirtualMachine, windowsReady,
         Interrupt, DeliverWorkspace, KubeVirt, StartGuest, AgentConnects,
         SetupFinishes, StopGuest, RemoveVM, CrashGuest, vars, object
    <3> QED BY <1>1, <3>5 DEF statusWrite, object, TypeOK, Workspace
  <2>2. CDOut
    BY <1>1, <2>1 DEF Restarted, Undisturbed, GuestStays
  <2> QED BY <2>2 DEF CDOut
<1>2. TypeOK /\ GuestInvariant /\ Restarted /\ [Next]_vars => [A]_vars
  BY <1>1
<1>3. Init => Restarted
  BY InitRestarted
<1>4. TypeOK /\ GuestInvariant /\ Restarted /\ [Next]_vars => Restarted'
  BY NextRestarted
<1> HIDE DEF A
<1>5. Spec => [][A]_vars
  BY <1>2, <1>3, <1>4, GuestInvariantHolds, PTL DEF Spec
<1> QED BY <1>5 DEF A, ReadyWithoutCD

=============================================================================
