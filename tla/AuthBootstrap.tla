---------------------------- MODULE AuthBootstrap ----------------------------
(***************************************************************************)
(* The AuthConfig controller: the bootstrap of a local administrator, a    *)
(* transaction of three writes to two kinds of object (create the User,    *)
(* create its password Secret, enable the User), and the status that tells *)
(* whether anybody can sign in.                                            *)
(*                                                                         *)
(* AuthConfig, Users and Secrets are read through caches; the User         *)
(* controller, administrators and the login service write the same User    *)
(* between the steps, and the process may restart after any of them.       *)
(***************************************************************************)
EXTENDS Integers

CONSTANTS
    Methods,      \* the settings of authentication an administrator chooses from
    MaxUsers,     \* User objects under the bootstrap name
    MaxConfigs,   \* AuthConfig objects created
    MaxEdits,     \* writes by administrators and by the login service
    MaxFaults     \* passes cut short by a failed call or a restart

Modes == {"disabled", "noMethod", "local", "oidc", "both"}

ASSUME ConstantsAssumption ==
    /\ Methods \subseteq Modes
    /\ MaxUsers \in Nat /\ MaxConfigs \in Nat
    /\ MaxEdits \in Nat /\ MaxFaults \in Nat

VARIABLES
    config, configs,  \* the AuthConfig; its versions from the cached one on
    user, users,      \* the User with the bootstrap name; its versions
    secrets, seen,    \* password Secrets, and those in the cache
    legacy,           \* a password Secret of an earlier release is retained
    other,            \* some other usable local administrator exists
    issuer,           \* the OIDC issuer answers
    lost,             \* an administrator has deleted a password Secret
    pc, inst,         \* the step of the pass and its AuthConfig
    acct,             \* the User it bootstraps
    failed,           \* reconcileBootstrapAdmin returned an error
    reach,            \* verifyIssuer's result
    edits, faults

vars == <<config, configs, user, users, secrets, seen, legacy, other, issuer,
          lost, pc, inst, acct, failed, reach, edits, faults>>
authConfig == <<config, configs>>
account == <<user, users>>
vault == <<secrets, seen>>
world == <<legacy, other, issuer, lost>>
pass == <<pc, inst, acct, failed, reach>>
counters == <<edits, faults>>

AuthConfig == [uid : Nat, rv : Nat, mode : Modes, skip : BOOLEAN,
               ready : {"none", "True", "False"}, localReady : BOOLEAN]
User == [phase : {"gone", "live", "deleting"}, uid : Nat, rv : Nat,
         final : BOOLEAN, pending : Nat, admin : BOOLEAN, disabled : BOOLEAN,
         locked : BOOLEAN, ref : Nat]
Secret == [uid : Nat, password : Nat]

TypeOK ==
    /\ config \in AuthConfig /\ configs \subseteq AuthConfig
    /\ user \in User /\ users \subseteq User
    /\ secrets \subseteq Secret /\ seen \subseteq Secret
    /\ legacy \in BOOLEAN /\ other \in BOOLEAN /\ issuer \in BOOLEAN
    /\ lost \in BOOLEAN
    /\ pc \in {"idle", "list", "get", "createUser", "createSecret", "enable",
               "verify", "status"}
    /\ inst \in AuthConfig /\ acct \in User
    /\ failed \in BOOLEAN /\ reach \in BOOLEAN
    /\ edits \in Nat /\ faults \in Nat

NewConfig(uid, rv, mode) ==
    [uid |-> uid, rv |-> rv, mode |-> mode, skip |-> FALSE,
     ready |-> "none", localReady |-> FALSE]

NoConfig == NewConfig(0, 0, "disabled")

(* A User somebody else creates: no bootstrap annotation, no local login.  *)
NewUser(uid, rv, admin) ==
    [phase |-> "live", uid |-> uid, rv |-> rv, final |-> FALSE, pending |-> 0,
     admin |-> admin, disabled |-> FALSE, locked |-> FALSE, ref |-> 0]

NoUser == [NewUser(0, 0, FALSE) EXCEPT !.phase = "gone"]

Init ==
    /\ \E m \in Methods : config = NewConfig(1, 1, m)
    /\ configs = {config}
    /\ user = NoUser /\ users = {user}
    /\ secrets = {} /\ seen = {}
    /\ legacy = FALSE /\ other = FALSE /\ issuer = TRUE
    /\ lost = FALSE
    /\ pc = "idle" /\ inst = NoConfig /\ acct = NoUser
    /\ failed = FALSE /\ reach = FALSE
    /\ edits = 0 /\ faults = 0

HasLocal(o) == o.mode \in {"local", "both"}
HasOIDC(o) == o.mode \in {"oidc", "both"}

-----------------------------------------------------------------------------
(* Guarded writes.                                                         *)

StoreUser(o) ==
    /\ user' = [o EXCEPT !.rv = user.rv + 1]
    /\ users' = users \cup {user'}

StoreConfig(o) ==
    /\ config' = [o EXCEPT !.rv = config.rv + 1]
    /\ configs' = configs \cup {config'}

EndPass ==
    /\ pc' = "idle" /\ inst' = NoConfig /\ acct' = NoUser
    /\ failed' = FALSE /\ reach' = FALSE

Goto(step) == pc' = step /\ UNCHANGED <<inst, acct, failed, reach>>

(* The end of reconcileBootstrapAdmin, with an error or without.           *)
Bootstrapped(error) ==
    /\ failed' = error
    /\ pc' = "verify"
    /\ UNCHANGED <<inst, acct, reach>>

-----------------------------------------------------------------------------
(* The pass.                                                               *)

Reconcile ==
    /\ pc = "idle"
    /\ \E v \in configs :
          /\ configs' = {u \in configs : u.rv >= v.rv}
          /\ inst' = v
          /\ pc' = CASE HasLocal(v) -> "list"
                     [] v.mode = "oidc" -> "verify"
                     [] OTHER -> "status"
    /\ UNCHANGED <<config, account, vault, world, acct, failed, reach, counters>>

(* An enabled administrator, not locked out, whose own Secret is there.    *)
usableLocalAdmin(o, S) ==
    /\ o.phase = "live" /\ ~o.disabled /\ ~o.locked /\ o.admin
    /\ o.ref # 0
    /\ \E s \in S : s.uid = o.ref /\ s.uid = o.uid

(* reconcileBootstrapAdmin lists the Users first: one usable administrator *)
(* is enough, and without one a skipped bootstrap is an error.             *)
listUsers ==
    /\ pc = "list"
    /\ \E v \in users :
          /\ users' = {u \in users : u.rv >= v.rv}
          /\ \/ /\ other \/ usableLocalAdmin(v, seen)
                /\ Bootstrapped(FALSE)
             \/ /\ ~(other \/ usableLocalAdmin(v, seen))
                /\ IF inst.skip THEN Bootstrapped(TRUE) ELSE Goto("get")
    /\ UNCHANGED <<authConfig, user, vault, world, counters>>

(* Mutants: any administrator's account will do; none is ever resumed.     *)
ResumableAny(o) == o.phase = "live" /\ o.admin /\ ~o.disabled /\ o.ref = 0
ResumableNever(o) == FALSE

(* An account this AuthConfig has created and not finished.                *)
Resumable(o) ==
    /\ o.phase = "live"
    /\ o.pending = inst.uid
    /\ o.admin /\ ~o.disabled
    /\ o.ref = 0

(* The User with the bootstrap name is resumed, refused or to be created.  *)
getUser ==
    /\ pc = "get"
    /\ \E v \in users :
          /\ users' = {u \in users : u.rv >= v.rv}
          /\ \/ /\ v.phase = "gone" /\ legacy
                /\ Bootstrapped(TRUE)
             \/ /\ v.phase = "gone" /\ ~legacy
                /\ Goto("createUser")
             \/ /\ v.phase # "gone" /\ Resumable(v)
                /\ acct' = v
                /\ pc' = "createSecret"
                /\ UNCHANGED <<inst, failed, reach>>
             \/ /\ v.phase # "gone" /\ ~Resumable(v)
                /\ Bootstrapped(TRUE)
    /\ UNCHANGED <<authConfig, user, vault, world, counters>>

(* Mutant: the account refers to its Secret from the start.                *)
createUserEnabled ==
    /\ pc = "createUser"
    /\ user.phase = "gone"
    /\ user.uid < MaxUsers
    /\ StoreUser([NewUser(user.uid + 1, user.rv, TRUE)
                     EXCEPT !.ref = user.uid + 1])
    /\ acct' = user'
    /\ pc' = "createSecret"
    /\ UNCHANGED <<authConfig, vault, world, inst, failed, reach, counters>>

(* The account is created without local authentication, for this           *)
(* AuthConfig's bootstrap; a User the cache missed makes it fail.          *)
createUser ==
    /\ pc = "createUser"
    /\ \/ /\ user.phase = "gone"
          /\ user.uid < MaxUsers
          /\ StoreUser([NewUser(user.uid + 1, user.rv, TRUE)
                           EXCEPT !.pending = inst.uid])
          /\ acct' = user'
          /\ pc' = "createSecret"
          /\ UNCHANGED <<inst, failed, reach>>
       \/ /\ user.phase # "gone"
          /\ Bootstrapped(TRUE)
          /\ UNCHANGED account
    /\ UNCHANGED <<authConfig, vault, world, counters>>

(* generatePassword: never a password that is in use.                      *)
Fresh == IF \E s \in secrets : s.password = 1 THEN 2 ELSE 1

(* Mutant: a Secret the cache does not show is written whatever is there.  *)
createLocalAuthSecretOver ==
    /\ pc = "createSecret"
    /\ IF \E s \in seen : s.uid = acct.uid
       THEN UNCHANGED secrets
       ELSE secrets' = {s \in secrets : s.uid # acct.uid}
                          \cup {[uid |-> acct.uid, password |-> Fresh]}
    /\ Goto("enable")
    /\ UNCHANGED <<authConfig, account, seen, world, counters>>

(* createLocalAuthSecret: a Secret named after the User's UID; an existing *)
(* one is kept, and one the cache missed makes the creation fail.          *)
createLocalAuthSecret ==
    /\ pc = "createSecret"
    /\ \/ /\ \E s \in seen : s.uid = acct.uid
          /\ Goto("enable")
          /\ UNCHANGED secrets
       \/ /\ \A s \in seen \cup secrets : s.uid # acct.uid
          /\ secrets' = secrets \cup {[uid |-> acct.uid, password |-> Fresh]}
          /\ Goto("enable")
       \/ /\ \A s \in seen : s.uid # acct.uid
          /\ \E s \in secrets : s.uid = acct.uid
          /\ Bootstrapped(TRUE)
          /\ UNCHANGED secrets
    /\ UNCHANGED <<authConfig, account, seen, world, counters>>

(* The last write, under the resourceVersion the User was read at.         *)
enableUser ==
    /\ pc = "enable"
    /\ \/ /\ user.phase # "gone" /\ acct.rv = user.rv
          /\ StoreUser([acct EXCEPT !.ref = acct.uid, !.pending = 0])
          /\ Bootstrapped(FALSE)
       \/ /\ user.phase = "gone" \/ acct.rv # user.rv
          /\ Bootstrapped(TRUE)
          /\ UNCHANGED account
    /\ UNCHANGED <<authConfig, vault, world, counters>>

verifyIssuer ==
    /\ pc = "verify"
    /\ reach' = (HasOIDC(inst) /\ issuer)
    /\ pc' = "status"
    /\ UNCHANGED <<authConfig, account, vault, world, inst, acct, failed, counters>>

(* Mutant: the issuer alone decides when there is one.                     *)
ReadyStatusIssuer(o) ==
    [o EXCEPT !.localReady = HasLocal(o) /\ ~failed,
              !.ready = IF \/ o.mode = "disabled" \/ reach
                           \/ (o.mode = "local" /\ ~failed)
                        THEN "True" ELSE "False"]

(* Ready: authentication is off, the issuer answers, or a local            *)
(* administrator is usable, with an issuer that is down or without one.    *)
ReadyStatus(o) ==
    [o EXCEPT !.localReady = HasLocal(o) /\ ~failed,
              !.ready = IF \/ o.mode = "disabled" \/ reach
                           \/ (HasLocal(o) /\ ~failed)
                        THEN "True" ELSE "False"]

(* Written only when it differs, and against the version that was read.    *)
writeStatus ==
    /\ pc = "status"
    /\ IF ReadyStatus(inst) # inst /\ inst.rv = config.rv
       THEN StoreConfig(ReadyStatus(inst)) ELSE UNCHANGED authConfig
    /\ EndPass
    /\ UNCHANGED <<account, vault, world, counters>>

Interrupt ==
    /\ pc # "idle"
    /\ faults < MaxFaults
    /\ faults' = faults + 1
    /\ EndPass
    /\ UNCHANGED <<authConfig, account, vault, world, edits>>

(* A failing call of the bootstrap is an error the pass goes on with.      *)
CallFails ==
    /\ pc \in {"list", "get", "createUser", "createSecret", "enable"}
    /\ faults < MaxFaults
    /\ faults' = faults + 1
    /\ Bootstrapped(TRUE)
    /\ UNCHANGED <<authConfig, account, vault, world, edits>>

Pass ==
    \/ Reconcile \/ listUsers \/ getUser \/ createUser
    \/ createLocalAuthSecret \/ enableUser \/ verifyIssuer \/ writeStatus

-----------------------------------------------------------------------------
(* Administrators, the login service and the identity provider.            *)

Edit == edits < MaxEdits /\ edits' = edits + 1

EditUser(o) ==
    /\ Edit
    /\ StoreUser(o)
    /\ UNCHANGED <<authConfig, vault, world, pass, faults>>

(* Disable, change the role, lock out after failed logins.                 *)
ChangeUser ==
    /\ user.phase = "live"
    /\ \/ EditUser([user EXCEPT !.disabled = ~@])
       \/ EditUser([user EXCEPT !.admin = ~@])
       \/ user.ref # 0 /\ EditUser([user EXCEPT !.locked = ~@])

DeleteUser ==
    /\ user.phase = "live"
    /\ EditUser([user EXCEPT !.phase = IF user.final THEN "deleting" ELSE "gone"])

CreateUserByHand ==
    /\ user.phase = "gone"
    /\ user.uid < MaxUsers
    /\ \E a \in BOOLEAN : EditUser(NewUser(user.uid + 1, user.rv, a))

LoseSecret ==
    /\ Edit
    /\ \E s \in secrets : secrets' = secrets \ {s}
    /\ lost' = TRUE
    /\ UNCHANGED <<authConfig, account, seen, legacy, other, issuer, pass, faults>>

ChangeConfig ==
    /\ Edit
    /\ \/ \E m \in Methods \ {config.mode} : StoreConfig([config EXCEPT !.mode = m])
       \/ StoreConfig([config EXCEPT !.skip = ~@])
       \/ /\ config.uid < MaxConfigs
          /\ StoreConfig(NewConfig(config.uid + 1, config.rv, config.mode))
    /\ UNCHANGED <<account, vault, world, pass, faults>>

ChangeWorld ==
    /\ Edit
    /\ \/ other' = ~other /\ UNCHANGED <<legacy, issuer>>
       \/ HasOIDC(config) /\ issuer' = ~issuer /\ UNCHANGED <<legacy, other>>
       \/ legacy' = ~legacy /\ UNCHANGED <<other, issuer>>
    /\ UNCHANGED <<authConfig, account, vault, lost, pass, faults>>

Admin == ChangeUser \/ DeleteUser \/ CreateUserByHand \/ LoseSecret
         \/ ChangeConfig \/ ChangeWorld

-----------------------------------------------------------------------------
(* The User controller, the garbage collector and the watches.             *)

AddFinalizer ==
    /\ user.phase = "live" /\ ~user.final
    /\ StoreUser([user EXCEPT !.final = TRUE])
    /\ UNCHANGED <<authConfig, vault, world, pass, counters>>

RemoveUser ==
    /\ user.phase = "deleting"
    /\ StoreUser([user EXCEPT !.phase = "gone"])
    /\ UNCHANGED <<authConfig, vault, world, pass, counters>>

(* A Secret goes with the User that owns it.                               *)
CollectGarbage ==
    /\ \E s \in secrets : /\ s.uid # user.uid \/ user.phase = "gone"
                          /\ secrets' = secrets \ {s}
    /\ UNCHANGED <<authConfig, account, seen, world, pass, counters>>

(* The watches catch up; a pass may also read any version on the way.      *)
DeliverConfig ==
    /\ configs # {config}
    /\ configs' = {config}
    /\ UNCHANGED <<config, account, vault, world, pass, counters>>

DeliverUser ==
    /\ users # {user}
    /\ users' = {user}
    /\ UNCHANGED <<authConfig, user, vault, world, pass, counters>>

DeliverSecrets ==
    /\ seen # secrets
    /\ seen' = secrets
    /\ UNCHANGED <<authConfig, account, secrets, world, pass, counters>>

Next ==
    \/ Pass \/ Interrupt \/ CallFails \/ Admin
    \/ AddFinalizer \/ RemoveUser \/ CollectGarbage
    \/ DeliverConfig \/ DeliverUser \/ DeliverSecrets

Spec == Init /\ [][Next]_vars

(* Every pass asks to be run again, in thirty seconds or five minutes, as  *)
(* long as authentication is enabled, and an edit of the specification     *)
(* starts one; the other controllers and the watches keep working.         *)
FairSpec ==
    /\ Spec
    /\ WF_vars(Pass)
    /\ WF_vars(AddFinalizer)
    /\ WF_vars(RemoveUser)
    /\ WF_vars(CollectGarbage)
    /\ WF_vars(DeliverConfig)
    /\ WF_vars(DeliverUser)
    /\ WF_vars(DeliverSecrets)

-----------------------------------------------------------------------------
(* Properties.                                                             *)

(* The bootstrap gives credentials only to an account that an AuthConfig   *)
(* created for the purpose and that is still an enabled administrator's:   *)
(* one that merely has the name, or was re-created, disabled or demoted    *)
(* since it was read, is left alone (reconcileBootstrapAdmin).             *)
AccountsNotPromoted ==
    [][user'.ref # user.ref /\ user'.ref # 0 =>
          /\ user.phase = "live" /\ user.pending # 0
          /\ user.admin /\ ~user.disabled
          /\ user'.ref = user.uid]_vars

(* The password of an existing account is never replaced by a later pass   *)
(* or a retry, not even when the cache does not show its Secret yet        *)
(* (createLocalAuthSecret).                                                *)
PasswordKept ==
    [][\A s \in secrets :
          s.uid = user.uid /\ user.phase # "gone" /\ edits' = edits
             => s \in secrets']_vars

(* An account that refers to a password Secret has one, unless it has been *)
(* deleted by hand: the reference is written last, wherever the            *)
(* transaction was cut short before.                                       *)
CredentialsBeforeAccess ==
    ~lost /\ user.phase # "gone" /\ user.ref # 0 => \E s \in secrets : s.uid = user.ref

Usable == other \/ usableLocalAdmin(user, secrets)

(* Local authentication gets its administrator, whatever the process and   *)
(* the User controller did in between, unless the name is taken, the       *)
(* account or its Secret has been interfered with, or old credentials are   *)
(* retained.                                                               *)
Unobstructed ==
    /\ HasLocal(config) /\ ~config.skip /\ ~legacy
    /\ \/ user.phase = "gone"
       \/ /\ user.phase = "live" /\ user.admin /\ ~user.disabled /\ ~user.locked
          /\ \/ user.ref = 0 /\ user.pending = config.uid
             \/ \E s \in secrets : s.uid = user.ref

BootstrapCompletes == <>[]Unobstructed => <>[]Usable

(* "An IdP outage must not hide a usable independent local recovery path": *)
(* with a usable administrator the AuthConfig ends up ready, and without   *)
(* one its local authentication does not stay reported as ready.           *)
ReportsAdministrator ==
    /\ <>[](HasLocal(config) /\ Usable)
          => <>[](config.ready = "True" /\ config.localReady)
    /\ <>[](HasLocal(config) /\ ~Usable) => <>[]~config.localReady

=============================================================================
