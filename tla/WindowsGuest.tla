---------------------------- MODULE WindowsGuest ----------------------------
(***************************************************************************)
(* The life of one Windows VM Workspace: a root generation is installed    *)
(* from a bootstrap CD, marked provisioned, shut down once to take the CD  *)
(* out, and run; it can be stopped, rebooted, and reset to a new           *)
(* generation; its GPU changes only while it is off.                       *)
(* Progress is recorded in annotations of the Workspace,                   *)
(* written under its resourceVersion, and in the bootstrap Secret, written *)
(* by calls of their own; the guest is started and stopped by KubeVirt.    *)
(***************************************************************************)
EXTENDS Integers

CONSTANTS
    MaxEdits,   \* stops, starts, reboots, resets and GPU changes by users
    MaxFaults,  \* passes cut short by a failed call or a restart
    MaxCrashes  \* guests that go down by themselves

ASSUME ConstantsAssumption ==
    MaxEdits \in Nat /\ MaxFaults \in Nat /\ MaxCrashes \in Nat

VARIABLES
    ws,           \* the Workspace object
    known,        \* the version the cache holds and those still to come
    credentials,  \* generations that have a bootstrap Secret
    answers,      \* generations whose Secret holds the answer file
    vm,           \* the VirtualMachine object
    guest,        \* its VMI
    installed,    \* generations whose root has been through setup
    pc,           \* the step of the pass, "idle" between passes
    inst,         \* the pass's in-memory Workspace
    ready,        \* the readiness the pass derived
    edits, faults, crashes

vars == <<ws, known, credentials, answers, vm, guest, installed, pc, inst,
          ready, edits, faults, crashes>>
object == <<ws, known>>
secret == <<credentials, answers>>
pass == <<pc, inst, ready>>
machine == <<vm, guest, installed>>
counters == <<edits, faults, crashes>>

Steps == {"handleReset", "dropSecret", "clearReset", "finishDetach",
          "stripAnswer", "clearDetach", "finishReboot", "clearReboot",
          "bootstrap", "reconcileVM", "windowsReady", "provision",
          "statusWrite"}

Workspace == [rv : Nat, gen : Nat \ {0}, provisioned : Nat, detaching : Nat,
              stopped : BOOLEAN, reset : BOOLEAN, reboot : BOOLEAN,
              gpu : 0 .. 1, ready : BOOLEAN]

TypeOK ==
    /\ ws \in Workspace
    /\ known \subseteq Workspace
    /\ credentials \subseteq Nat
    /\ answers \subseteq credentials
    /\ vm \in [live : BOOLEAN, gen : Nat, sysprep : BOOLEAN,
               running : BOOLEAN, deleting : BOOLEAN, gpu : 0 .. 1]
    /\ guest \in [phase : {"none", "booting", "up"}, sysprep : BOOLEAN,
                  gpu : 0 .. 1]
    /\ installed \subseteq Nat
    /\ pc \in {"idle"} \cup Steps
    /\ inst \in Workspace
    /\ ready \in BOOLEAN
    /\ edits \in Nat /\ faults \in Nat /\ crashes \in Nat

Off == [phase |-> "none", sysprep |-> FALSE, gpu |-> 0]

(* resolveWindowsProfile has stored the profile, with the first generation. *)
Init ==
    /\ ws = [rv |-> 1, gen |-> 1, provisioned |-> 0, detaching |-> 0,
             stopped |-> FALSE, reset |-> FALSE, reboot |-> FALSE,
             gpu |-> 0, ready |-> FALSE]
    /\ known = {ws}
    /\ credentials = {} /\ answers = {} /\ installed = {}
    /\ vm = [live |-> FALSE, gen |-> 0, sysprep |-> FALSE,
             running |-> FALSE, deleting |-> FALSE, gpu |-> 0]
    /\ guest = Off
    /\ pc = "idle" /\ inst = ws /\ ready = FALSE
    /\ edits = 0 /\ faults = 0 /\ crashes = 0

-----------------------------------------------------------------------------
(* Writes to the Workspace, guarded by its resourceVersion.                *)

Accepted(o) == o.rv = ws.rv

Store(o) ==
    /\ ws' = [o EXCEPT !.rv = ws.rv + 1, !.ready = ws.ready]
    /\ known' = known \cup {ws'}

EndPass == pc' = "idle" /\ ready' = FALSE /\ UNCHANGED inst

Goto(step) == pc' = step /\ UNCHANGED <<inst, ready>>

(* A step that updates the Workspace and goes on with the stored version.  *)
Record(o, next) ==
    \/ /\ Accepted(inst)
       /\ Store(o)
       /\ inst' = ws'
       /\ pc' = next
       /\ UNCHANGED ready
    \/ /\ ~Accepted(inst)
       /\ EndPass
       /\ UNCHANGED object

-----------------------------------------------------------------------------
(* The pass.                                                               *)

Reconcile ==
    /\ pc = "idle"
    /\ \E v \in known :
          /\ inst' = v
          /\ known' = {u \in known : u.rv >= v.rv}
          /\ pc' = IF v.reset THEN "handleReset" ELSE "finishDetach"
    /\ UNCHANGED <<ws, secret, machine, ready, counters>>

(* Mutant: a VM on its way out counts as gone.                             *)
handleResetEarly ==
    /\ pc = "handleReset"
    /\ IF vm.live /\ ~vm.deleting
       THEN /\ vm' = [vm EXCEPT !.running = FALSE,
                                !.deleting = guest.phase = "none"]
            /\ EndPass
       ELSE /\ Goto("dropSecret")
            /\ UNCHANGED vm
    /\ UNCHANGED <<object, secret, guest, installed, counters>>

(* handleReset powers a Windows guest down first, then deletes the VM, and *)
(* goes on once it is gone.                                                *)
handleReset ==
    /\ pc = "handleReset"
    /\ \/ /\ vm.live
          /\ vm' = IF vm.deleting \/ (~vm.running /\ guest.phase # "none")
                   THEN vm
                   ELSE IF vm.running
                   THEN [vm EXCEPT !.running = FALSE]
                   ELSE [vm EXCEPT !.deleting = TRUE]
          /\ EndPass
       \/ /\ ~vm.live
          /\ Goto("dropSecret")
          /\ UNCHANGED vm
    /\ UNCHANGED <<object, secret, guest, installed, counters>>

(* resetWindowsGeneration deletes the old generation's Secret ...          *)
dropSecret ==
    /\ pc = "dropSecret"
    /\ credentials' = credentials \ {inst.gen}
    /\ answers' = answers \ {inst.gen}
    /\ Goto("clearReset")
    /\ UNCHANGED <<object, machine, counters>>

(* ... and starts a new generation, neither provisioned nor detaching.     *)
NextGeneration(o) ==
    [o EXCEPT !.gen = @ + 1, !.provisioned = 0, !.detaching = 0,
              !.reset = FALSE]

clearReset ==
    /\ pc = "clearReset"
    /\ Record(NextGeneration(inst), "idle")
    /\ UNCHANGED <<secret, machine, counters>>

Detaching(o) == o.detaching = o.gen
Provisioned(o) == o.provisioned = o.gen

(* Mutant: the CD counts as out while the guest still runs.                *)
finishWindowsDetachAtOnce ==
    /\ pc = "finishDetach"
    /\ Goto(IF Detaching(inst) THEN "stripAnswer" ELSE "finishReboot")
    /\ UNCHANGED <<object, secret, machine, counters>>

(* finishWindowsDetach waits until the guest has gone, ...                 *)
finishWindowsDetach ==
    /\ pc = "finishDetach"
    /\ Goto(IF Detaching(inst) /\ guest.phase = "none"
            THEN "stripAnswer" ELSE "finishReboot")
    /\ UNCHANGED <<object, secret, machine, counters>>

(* Mutant: the Secret keeps its answer file.                               *)
stripAnswerNever ==
    /\ pc = "stripAnswer"
    /\ Goto("clearDetach")
    /\ UNCHANGED <<object, secret, machine, counters>>

(* ... takes the answer file out of the Secret, ...                        *)
stripAnswer ==
    /\ pc = "stripAnswer"
    /\ \/ /\ inst.gen \in credentials
          /\ answers' = answers \ {inst.gen}
          /\ Goto("clearDetach")
       \/ /\ inst.gen \notin credentials
          /\ EndPass
          /\ UNCHANGED answers
    /\ UNCHANGED <<object, credentials, machine, counters>>

(* ... and only then forgets about the detachment.                         *)
clearDetach ==
    /\ pc = "clearDetach"
    /\ Record([inst EXCEPT !.detaching = 0], "finishReboot")
    /\ UNCHANGED <<secret, machine, counters>>

finishWindowsReboot ==
    /\ pc = "finishReboot"
    /\ Goto(IF inst.reboot /\ guest.phase = "none"
            THEN "clearReboot" ELSE "bootstrap")
    /\ UNCHANGED <<object, secret, machine, counters>>

clearReboot ==
    /\ pc = "clearReboot"
    /\ Record([inst EXCEPT !.reboot = FALSE], "bootstrap")
    /\ UNCHANGED <<secret, machine, counters>>

(* Mutant: a reboot request does not power the guest off.                  *)
PoweredOffKeepsUp(o) == o.stopped \/ Detaching(o)

PoweredOff(o) == o.stopped \/ Detaching(o) \/ o.reboot

(* reconcileVMGuestBootstrap: nothing while the guest is to be off;        *)
(* otherwise reconcileWindowsBootstrap wants a complete Secret, and makes  *)
(* one only for a generation that has not been provisioned.                *)
reconcileWindowsBootstrap ==
    /\ pc = "bootstrap"
    /\ \/ /\ PoweredOff(inst)
          /\ Goto("reconcileVM")
          /\ UNCHANGED secret
       \/ /\ ~PoweredOff(inst)
          /\ inst.gen \in credentials
          /\ Provisioned(inst) \/ inst.gen \in answers
          /\ Goto("reconcileVM")
          /\ UNCHANGED secret
       \/ /\ ~PoweredOff(inst)
          /\ inst.gen \notin credentials
          /\ ~Provisioned(inst)
          /\ credentials' = credentials \cup {inst.gen}
          /\ answers' = answers \cup {inst.gen}
          /\ Goto("reconcileVM")
       \/ /\ ~PoweredOff(inst)
          /\ IF inst.gen \in credentials
             THEN ~Provisioned(inst) /\ inst.gen \notin answers
             ELSE Provisioned(inst)
          /\ EndPass
          /\ UNCHANGED secret
    /\ UNCHANGED <<object, machine, counters>>

(* Mutant: the CD is taken out of the specification a step too early.      *)
generateWindowsVMEarly(o) ==
    [gen |-> o.gen, sysprep |-> ~Provisioned(o) /\ o.gen \notin installed,
     running |-> ~o.stopped, gpu |-> o.gpu]

(* generateWindowsVirtualMachine: the CD as long as the generation is not  *)
(* provisioned, and power unless stopped, detaching or rebooting.          *)
generateWindowsVM(o) ==
    [gen |-> o.gen, sysprep |-> ~Provisioned(o), running |-> ~PoweredOff(o),
     gpu |-> o.gpu]

(* Mutant: a VM that is to stop counts as stopped.                         *)
guardWindowsGPUTransitionHalted(d) == d.gpu = vm.gpu \/ ~vm.running

(* The GPU of a VM changes only once it is halted and its guest gone.  The *)
(* guest is looked up before the update, but while it is away the VM, which*)
(* the update finds unchanged, does not bring it back.                     *)
guardWindowsGPUTransition(d) ==
    d.gpu = vm.gpu \/ (~vm.running /\ guest.phase = "none")

(* A VM of another generation is never touched, one being deleted fails,   *)
(* and so does one whose GPU may not change.                               *)
reconcileVirtualMachine ==
    /\ pc = "reconcileVM"
    /\ LET d == generateWindowsVM(inst)
           same == vm.sysprep = d.sysprep /\ vm.running = d.running /\ vm.gpu = d.gpu
           updatable == ~vm.deleting /\ guardWindowsGPUTransition(d)
           served == ~vm.live \/ (vm.gen = d.gen /\ (same \/ updatable))
       IN \/ /\ served
             /\ vm' = [live |-> TRUE, gen |-> d.gen, sysprep |-> d.sysprep,
                       running |-> d.running, gpu |-> d.gpu,
                       deleting |-> vm.live /\ vm.deleting]
             /\ Goto("windowsReady")
          \/ /\ ~served
             /\ EndPass
             /\ UNCHANGED vm
    /\ UNCHANGED <<object, secret, guest, installed, counters>>

Observed(r) == ready' = r /\ pc' = "statusWrite" /\ UNCHANGED inst

(* Mutant: setup is taken to be over once the guest agent answers.         *)
CompleteBootstrapAgentUp(o) == TRUE

(* CompleteBootstrap asks the guest whether native setup has finished.     *)
CompleteBootstrap(o) == o.gen \in installed

(* windowsReady and the first half of reconcileWindowsProvisioning: a      *)
(* connected agent, nothing pending, and a provisioned generation.         *)
windowsReady ==
    /\ pc = "windowsReady"
    /\ LET connected == ~inst.stopped /\ ~inst.reboot /\ guest.phase = "up"
       IN \/ /\ ~connected \/ Detaching(inst)
             /\ Observed(FALSE)
          \/ /\ connected /\ ~Detaching(inst) /\ Provisioned(inst)
             /\ Observed(TRUE)
          \/ /\ connected /\ ~Detaching(inst) /\ ~Provisioned(inst)
             /\ IF CompleteBootstrap(inst)
                THEN Goto("provision") ELSE Observed(FALSE)
    /\ UNCHANGED <<object, secret, machine, counters>>

(* The enrollment token is staged, then the generation is marked both      *)
(* provisioned and detaching in one update.                                *)
provision ==
    /\ pc = "provision"
    /\ IF inst.gen \in credentials
       THEN Record([inst EXCEPT !.provisioned = inst.gen,
                                !.detaching = inst.gen], "statusWrite")
       ELSE EndPass /\ UNCHANGED object
    /\ UNCHANGED <<secret, machine, counters>>

(* updateWorkspaceStatus, against the version the cache has by then.       *)
statusWrite ==
    /\ pc = "statusWrite"
    /\ \/ /\ ws.ready # ready
          /\ ws' = [ws EXCEPT !.rv = @ + 1, !.ready = ready]
          /\ known' = {ws, ws'}
       \/ /\ ws.ready = ready \/ \E v \in known : v.rv < ws.rv
          /\ UNCHANGED object
    /\ EndPass
    /\ UNCHANGED <<secret, machine, counters>>

Interrupt ==
    /\ pc # "idle"
    /\ faults < MaxFaults
    /\ faults' = faults + 1
    /\ EndPass
    /\ UNCHANGED <<object, secret, machine, edits, crashes>>

Pass ==
    \/ Reconcile
    \/ handleReset \/ dropSecret \/ clearReset
    \/ finishWindowsDetach \/ stripAnswer \/ clearDetach
    \/ finishWindowsReboot \/ clearReboot
    \/ reconcileWindowsBootstrap
    \/ reconcileVirtualMachine
    \/ windowsReady \/ provision
    \/ statusWrite

-----------------------------------------------------------------------------
(* Users, the watch and KubeVirt.                                          *)

UserWrites(o) ==
    /\ edits < MaxEdits
    /\ edits' = edits + 1
    /\ Store(o)
    /\ UNCHANGED <<secret, machine, pass, faults, crashes>>

User ==
    \/ UserWrites([ws EXCEPT !.stopped = ~@])
    \/ UserWrites([ws EXCEPT !.reboot = TRUE])
    \/ UserWrites([ws EXCEPT !.reset = TRUE])
    \/ UserWrites([ws EXCEPT !.gpu = 1 - @])

DeliverWorkspace ==
    /\ \E v \in known :
          /\ \E u \in known : u.rv < v.rv
          /\ known' = {u \in known : u.rv >= v.rv}
    /\ UNCHANGED <<ws, secret, machine, pass, counters>>

(* KubeVirt builds the CD from the Secret and needs an answer file in it.  *)
StartGuest ==
    /\ guest.phase = "none"
    /\ vm.live /\ vm.running /\ ~vm.deleting
    /\ vm.sysprep => vm.gen \in answers
    /\ guest' = [phase |-> "booting", sysprep |-> vm.sysprep,
                gpu |-> vm.gpu]
    /\ UNCHANGED <<object, secret, vm, installed, pass, counters>>

(* The image carries the guest agent; only setup from the CD installs.     *)
AgentConnects ==
    /\ guest.phase = "booting"
    /\ guest' = [guest EXCEPT !.phase = "up"]
    /\ UNCHANGED <<object, secret, vm, installed, pass, counters>>

SetupFinishes ==
    /\ guest.phase = "up"
    /\ guest.sysprep
    /\ vm.gen \notin installed
    /\ installed' = installed \cup {vm.gen}
    /\ UNCHANGED <<object, secret, vm, guest, pass, counters>>

StopGuest ==
    /\ guest.phase # "none"
    /\ ~vm.running \/ vm.deleting
    /\ guest' = Off
    /\ UNCHANGED <<object, secret, vm, installed, pass, counters>>

CrashGuest ==
    /\ guest.phase # "none"
    /\ crashes < MaxCrashes
    /\ crashes' = crashes + 1
    /\ guest' = Off
    /\ UNCHANGED <<object, secret, vm, installed, pass, edits, faults>>

RemoveVM ==
    /\ vm.live /\ vm.deleting /\ guest.phase = "none"
    /\ vm' = [vm EXCEPT !.live = FALSE]
    /\ UNCHANGED <<object, secret, guest, installed, pass, counters>>

KubeVirt == StartGuest \/ AgentConnects \/ SetupFinishes \/ StopGuest \/ RemoveVM

Next == Pass \/ Interrupt \/ User \/ DeliverWorkspace \/ KubeVirt \/ CrashGuest

Spec == Init /\ [][Next]_vars

(* A pending Windows Workspace is requeued until ready, and resynced after *)
(* that; the watch and KubeVirt keep working.                              *)
FairSpec ==
    /\ Spec
    /\ WF_vars(Pass)
    /\ WF_vars(DeliverWorkspace)
    /\ WF_vars(StartGuest)
    /\ WF_vars(AgentConnects)
    /\ WF_vars(SetupFinishes)
    /\ WF_vars(StopGuest)
    /\ WF_vars(RemoveVM)

-----------------------------------------------------------------------------
(* Properties.                                                             *)

(* The VM always belongs to the Workspace's present generation: no pass,   *)
(* however old the version it started from, brings back a root that a      *)
(* reset has replaced (handleReset, reconcileVirtualMachine).              *)
VMGenerationCurrent == vm.live => vm.gen = ws.gen

(* A root that has not been through setup never boots without its CD: the  *)
(* provisioned mark is set only after CompleteBootstrap, and a reset drops *)
(* it together with the generation.                                        *)
SetupHasInstaller ==
    guest.phase # "none" /\ vm.gen \notin installed => guest.sysprep

(* Once a generation is past the detachment, the answer file with its      *)
(* password is no longer in the cluster, although Secret and Workspace are *)
(* two writes and the pass may stop between them (finishWindowsDetach).    *)
AnswerFileRemoved ==
    Provisioned(ws) /\ ~Detaching(ws) => ws.gen \notin answers

(* "A completed guest is gracefully restarted once to physically remove    *)
(* its bootstrap CD" (vm_windows_guest.go): a provisioned guest the pass   *)
(* reports ready runs without the CD, wherever passes were cut short, as   *)
(* long as nobody stopped, rebooted or reset it and it never went down by  *)
(* itself; finishWindowsDetach takes any such absence for the restart.     *)
ReadyWithoutCD ==
    [][ws'.ready /\ ~ws.ready /\ guest.phase = "up" /\ vm.gen = inst.gen
             /\ edits = 0 /\ crashes = 0
          => ~guest.sysprep]_vars

(* The hardware of a guest never changes under it, nor is it other than    *)
(* its VM says (guardWindowsGPUTransition).                                *)
GPUStable == guest.phase # "none" => guest.gpu = vm.gpu

(* The GPU asked for is not the one of a VM: as long as that VM runs, the  *)
(* guard refuses every update of it, the one that would stop it included.  *)
GPUBlocked == vm.live /\ ws.gpu # vm.gpu

(* Left alone, a Windows Workspace is installed and stays ready.           *)
EventuallyReady ==
    <>[](~ws.stopped /\ ~ws.reset /\ ~ws.reboot /\ ~GPUBlocked)
        => <>[](ws.ready /\ guest.phase = "up")

(* A requested reset is carried out, and so is a reboot unless the GPU was *)
(* changed in the running VM.                                              *)
RequestsServed ==
    /\ ws.reset ~> ~ws.reset
    /\ ws.reboot ~> (~ws.reboot \/ GPUBlocked)

=============================================================================
