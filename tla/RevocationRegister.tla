------------------------- MODULE RevocationRegister -------------------------
(***************************************************************************)
(* What the execution identity of a virtual machine workspace promises,    *)
(* free of caches, passes and resource versions: a register that binds a   *)
(* VM to a revocation epoch, whose epoch is never lowered while the same   *)
(* Workspace object lives, and credentials that are only ever issued for   *)
(* the binding in force.  Status.managementExecution is the register,      *)
(* spec.executionRevocationEpoch the request, the management bootstrap     *)
(* Secrets the credentials.                                                *)
(***************************************************************************)
EXTENDS Integers

CONSTANT NoIdentity          \* the register before a VM was ever bound

VARIABLES
    incarnation,             \* UID of the Workspace object under this name
    requested,               \* the epoch asked for
    recorded,                \* the binding in force
    issued                   \* the credentials in existence

vars == <<incarnation, requested, recorded, issued>>

Identity == [vm : Nat, epoch : Nat]
Credential == [ws : Nat, vm : Nat, epoch : Nat]

(* The epoch to record: the request, never less than what was recorded.    *)
Raised(request, previous) ==
    IF previous # NoIdentity /\ previous.epoch > request
    THEN previous.epoch
    ELSE request

Init ==
    /\ incarnation \in Nat
    /\ requested \in Nat
    /\ recorded = NoIdentity
    /\ issued = {}

(* A later request may be lower: the register does not rely on its order.  *)
Request ==
    /\ requested' \in Nat
    /\ UNCHANGED <<incarnation, recorded, issued>>

Record ==
    /\ recorded' \in Identity
    /\ recorded'.epoch = Raised(requested, recorded)
    /\ UNCHANGED <<incarnation, requested, issued>>

(* A credential of an earlier incarnation may still be written by a step   *)
(* that was under way when its Workspace was replaced; one of the present  *)
(* incarnation names the binding in force.                                 *)
Issue ==
    /\ issued \subseteq issued'
    /\ \A c \in issued' \ issued :
          /\ c \in Credential
          /\ c.ws <= incarnation
          /\ c.ws = incarnation =>
                /\ recorded # NoIdentity
                /\ c.vm = recorded.vm
                /\ c.epoch = recorded.epoch
    /\ UNCHANGED <<incarnation, requested, recorded>>

Retire ==
    /\ issued' \subseteq issued
    /\ UNCHANGED <<incarnation, requested, recorded>>

Replace ==
    /\ incarnation' \in Nat
    /\ incarnation' > incarnation
    /\ requested' \in Nat
    /\ recorded' = NoIdentity
    /\ UNCHANGED issued

Next == Request \/ Record \/ Issue \/ Retire \/ Replace

Spec == Init /\ [][Next]_vars

=============================================================================
