------------------------- MODULE AuthBootstrapProofs -------------------------
(***************************************************************************)
(* Proofs about AuthBootstrap for every value of its constants.            *)
(***************************************************************************)
EXTENDS AuthBootstrap, TLAPS

USE ConstantsAssumption

-----------------------------------------------------------------------------
(* The inductive invariant.                                                *)

Versions == users \cup {user, acct, NoUser}

(* A resourceVersion determines the User, the server's is the newest; UIDs *)
(* only grow, and a User refers to no Secret but its own.                  *)
VersionsAgree ==
    \A u \in Versions :
        /\ u.rv <= user.rv
        /\ u.rv = user.rv => u = user
        /\ u.uid <= user.uid
        /\ u.ref # 0 => u.ref = u.uid

(* A pass works for an AuthConfig that has a UID, on an account made for   *)
(* such a one and not finished.                                            *)
Resuming ==
    /\ \A c \in configs \cup {config} : c.uid # 0
    /\ pc # "idle" => inst.uid # 0
    /\ pc \in {"createSecret", "enable"} =>
          /\ acct.phase = "live" /\ acct.pending # 0
          /\ acct.admin /\ ~acct.disabled /\ acct.ref = 0

(* A Secret of the present User that the cache shows is there, and so is   *)
(* the one a pass is about to refer to.                                    *)
SecretsKept ==
    /\ \A s \in secrets \cup seen : s.uid <= user.uid
    /\ ~lost /\ user.phase # "gone" =>
          /\ \A s \in seen : s.uid = user.uid => s \in secrets
          /\ pc = "enable" /\ acct.uid = user.uid =>
                \E s \in secrets : s.uid = acct.uid

BootstrapInvariant ==
    /\ VersionsAgree
    /\ Resuming
    /\ SecretsKept
    /\ CredentialsBeforeAccess

-----------------------------------------------------------------------------
(* Types.                                                                  *)

LEMMA NewConfigType ==
    ASSUME NEW uid \in Nat, NEW rv \in Nat, NEW mode \in Modes
    PROVE  NewConfig(uid, rv, mode) \in AuthConfig
BY DEF NewConfig, AuthConfig

LEMMA NewUserType ==
    ASSUME NEW uid \in Nat, NEW rv \in Nat, NEW admin \in BOOLEAN
    PROVE  NewUser(uid, rv, admin) \in User
BY DEF NewUser, User

LEMMA NoneType == NoConfig \in AuthConfig /\ NoUser \in User
BY DEF NoConfig, NewConfig, AuthConfig, Modes, NoUser, NewUser, User

LEMMA InitType == Init => TypeOK
<1> SUFFICES ASSUME Init PROVE TypeOK
  OBVIOUS
<1>1. config \in AuthConfig
  BY NewConfigType DEF Init
<1> QED BY <1>1, NoneType DEF Init, TypeOK

LEMMA StoreUserType ==
    ASSUME TypeOK, NEW o \in User, StoreUser(o)
    PROVE  user' \in User /\ users' \subseteq User
<1>1. user.rv + 1 \in Nat
  BY DEF TypeOK, User
<1>2. user' \in User
  BY <1>1 DEF StoreUser, User
<1> QED BY <1>2 DEF StoreUser, TypeOK

LEMMA StoreConfigType ==
    ASSUME TypeOK, NEW o \in AuthConfig, StoreConfig(o)
    PROVE  config' \in AuthConfig /\ configs' \subseteq AuthConfig
<1>1. config.rv + 1 \in Nat
  BY DEF TypeOK, AuthConfig
<1>2. config' \in AuthConfig
  BY <1>1 DEF StoreConfig, AuthConfig
<1> QED BY <1>2 DEF StoreConfig, TypeOK

(* What the steps write are Users and AuthConfigs.                         *)
LEMMA WrittenUserType ==
    ASSUME TypeOK
    PROVE  /\ [NewUser(user.uid + 1, user.rv, TRUE) EXCEPT !.pending = inst.uid] \in User
           /\ \A a \in BOOLEAN : NewUser(user.uid + 1, user.rv, a) \in User
           /\ [acct EXCEPT !.ref = acct.uid, !.pending = 0] \in User
           /\ [user EXCEPT !.disabled = ~@] \in User
           /\ [user EXCEPT !.admin = ~@] \in User
           /\ [user EXCEPT !.locked = ~@] \in User
           /\ [user EXCEPT !.phase = IF user.final THEN "deleting" ELSE "gone"] \in User
           /\ [user EXCEPT !.final = TRUE] \in User
           /\ [user EXCEPT !.phase = "gone"] \in User
<1>1. user.uid + 1 \in Nat /\ user.rv \in Nat /\ inst.uid \in Nat
  BY DEF TypeOK, User, AuthConfig
<1>2. \A a \in BOOLEAN : NewUser(user.uid + 1, user.rv, a) \in User
  BY <1>1, NewUserType
<1>3. [NewUser(user.uid + 1, user.rv, TRUE) EXCEPT !.pending = inst.uid] \in User
  <2> DEFINE n == NewUser(user.uid + 1, user.rv, TRUE)
  <2>1. n \in User
    BY <1>2
  <2> HIDE DEF n
  <2>2. [n EXCEPT !.pending = inst.uid] \in User
    BY <1>1, <2>1 DEF User
  <2> QED BY <2>2 DEF n
<1>4. [acct EXCEPT !.ref = acct.uid, !.pending = 0] \in User
  BY DEF TypeOK, User
<1>5. /\ [user EXCEPT !.disabled = ~@] \in User
      /\ [user EXCEPT !.admin = ~@] \in User
      /\ [user EXCEPT !.locked = ~@] \in User
  BY DEF TypeOK, User
<1>6. /\ [user EXCEPT !.phase = IF user.final THEN "deleting" ELSE "gone"] \in User
      /\ [user EXCEPT !.final = TRUE] \in User
      /\ [user EXCEPT !.phase = "gone"] \in User
  BY DEF TypeOK, User
<1> QED BY <1>2, <1>3, <1>4, <1>5, <1>6

LEMMA WrittenConfigType ==
    ASSUME TypeOK
    PROVE  /\ ReadyStatus(inst) \in AuthConfig
           /\ \A m \in Methods : [config EXCEPT !.mode = m] \in AuthConfig
           /\ [config EXCEPT !.skip = ~@] \in AuthConfig
           /\ NewConfig(config.uid + 1, config.rv, config.mode) \in AuthConfig
<1>1. ReadyStatus(inst) \in AuthConfig
  BY DEF TypeOK, AuthConfig, ReadyStatus, HasLocal
<1>2. /\ \A m \in Methods : [config EXCEPT !.mode = m] \in AuthConfig
      /\ [config EXCEPT !.skip = ~@] \in AuthConfig
  BY DEF TypeOK, AuthConfig
<1>3. config.uid + 1 \in Nat /\ config.rv \in Nat /\ config.mode \in Modes
  BY DEF TypeOK, AuthConfig
<1> QED BY <1>1, <1>2, <1>3, NewConfigType

LEMMA NextType ==
    ASSUME TypeOK, [Next]_vars
    PROVE  TypeOK'
<1> USE DEF authConfig, account, vault, world, pass, counters
<1>1. CASE Reconcile
  BY <1>1 DEF Reconcile, TypeOK
<1>2. CASE listUsers
  BY <1>2 DEF listUsers, Bootstrapped, Goto, TypeOK
<1>3. CASE getUser
  BY <1>3 DEF getUser, Bootstrapped, Goto, TypeOK
<1>4. CASE createUser
  <2>1. CASE user.phase = "gone"
    <3>1. user' \in User /\ users' \subseteq User
      BY <1>4, <2>1, WrittenUserType, StoreUserType DEF createUser
    <3> QED BY <1>4, <2>1, <3>1 DEF createUser, TypeOK
  <2>2. CASE user.phase # "gone"
    BY <1>4, <2>2 DEF createUser, Bootstrapped, TypeOK
  <2> QED BY <2>1, <2>2
<1>5. CASE createLocalAuthSecret
  <2>1. secrets' \subseteq Secret
    <3>1. acct.uid \in Nat
      BY DEF TypeOK, User
    <3>2. [uid |-> acct.uid, password |-> Fresh] \in Secret
      BY <3>1 DEF Secret, Fresh
    <3> QED BY <1>5, <3>2 DEF createLocalAuthSecret, TypeOK
  <2> QED BY <1>5, <2>1 DEF createLocalAuthSecret, Bootstrapped, Goto, TypeOK
<1>6. CASE enableUser
  <2>1. user' \in User /\ users' \subseteq User
    BY <1>6, WrittenUserType, StoreUserType DEF enableUser, TypeOK
  <2> QED BY <1>6, <2>1 DEF enableUser, Bootstrapped, TypeOK
<1>7. CASE verifyIssuer
  BY <1>7 DEF verifyIssuer, HasOIDC, TypeOK
<1>8. CASE writeStatus
  <2>1. config' \in AuthConfig /\ configs' \subseteq AuthConfig
    BY <1>8, WrittenConfigType, StoreConfigType DEF writeStatus, TypeOK
  <2> QED BY <1>8, <2>1, NoneType DEF writeStatus, EndPass, TypeOK
<1>9. CASE Interrupt
  <2>1. faults' \in Nat
    BY <1>9 DEF Interrupt, TypeOK
  <2> QED BY <1>9, <2>1, NoneType DEF Interrupt, EndPass, TypeOK
<1>10. CASE CallFails
  <2>1. faults' \in Nat
    BY <1>10 DEF CallFails, TypeOK
  <2> QED BY <1>10, <2>1 DEF CallFails, Bootstrapped, TypeOK
<1>11. CASE Admin
  <2>1. edits' \in Nat /\ UNCHANGED faults
    BY <1>11 DEF Admin, ChangeUser, DeleteUser, CreateUserByHand, LoseSecret,
                 ChangeConfig, ChangeWorld, EditUser, Edit, TypeOK
  <2>2. CASE ChangeUser \/ DeleteUser \/ CreateUserByHand
    <3>1. PICK o \in User : EditUser(o)
      BY <2>2, WrittenUserType DEF ChangeUser, DeleteUser, CreateUserByHand
    <3>2. user' \in User /\ users' \subseteq User
      BY <3>1, StoreUserType DEF EditUser
    <3> QED BY <2>1, <3>1, <3>2 DEF EditUser, TypeOK
  <2>3. CASE LoseSecret
    BY <2>1, <2>3 DEF LoseSecret, TypeOK
  <2>4. CASE ChangeConfig
    <3>1. config' \in AuthConfig /\ configs' \subseteq AuthConfig
      BY <2>4, WrittenConfigType, StoreConfigType DEF ChangeConfig
    <3> QED BY <2>1, <2>4, <3>1 DEF ChangeConfig, TypeOK
  <2>5. CASE ChangeWorld
    BY <2>1, <2>5 DEF ChangeWorld, TypeOK
  <2> QED BY <1>11, <2>2, <2>3, <2>4, <2>5 DEF Admin
<1>12. CASE AddFinalizer
  <2>1. user' \in User /\ users' \subseteq User
    BY <1>12, WrittenUserType, StoreUserType DEF AddFinalizer
  <2> QED BY <1>12, <2>1 DEF AddFinalizer, TypeOK
<1>13. CASE RemoveUser
  <2>1. user' \in User /\ users' \subseteq User
    BY <1>13, WrittenUserType, StoreUserType DEF RemoveUser
  <2> QED BY <1>13, <2>1 DEF RemoveUser, TypeOK
<1>14. CASE CollectGarbage \/ DeliverConfig \/ DeliverUser \/ DeliverSecrets
  BY <1>14 DEF CollectGarbage, DeliverConfig, DeliverUser, DeliverSecrets, TypeOK
<1>15. CASE UNCHANGED vars
  BY <1>15 DEF vars, TypeOK
<1> QED BY <1>1, <1>2, <1>3, <1>4, <1>5, <1>6, <1>7, <1>8, <1>9, <1>10,
           <1>11, <1>12, <1>13, <1>14, <1>15 DEF Next, Pass

-----------------------------------------------------------------------------
(* The invariant.                                                          *)

LEMMA InitInvariant == Init => BootstrapInvariant
BY DEF Init, BootstrapInvariant, Versions, VersionsAgree, Resuming,
       SecretsKept, CredentialsBeforeAccess, NoUser, NewUser, NewConfig

(* A step that stores no User leaves their versions in agreement.          *)
LEMMA VersionsRead ==
    ASSUME VersionsAgree, UNCHANGED user, Versions' \subseteq Versions
    PROVE  VersionsAgree'
BY DEF VersionsAgree

(* A stored User is newer than every version; its UID is the present one   *)
(* or the next.                                                            *)
LEMMA VersionStored ==
    ASSUME TypeOK, VersionsAgree, NEW o \in User, StoreUser(o),
           acct' \in {acct, user'}, o.uid \in {user.uid, user.uid + 1},
           o.ref # 0 => o.ref = o.uid
    PROVE  VersionsAgree'
<1>1. user' \in User /\ user \in User
  BY StoreUserType DEF TypeOK
<1>2. user'.rv = user.rv + 1 /\ user'.uid = o.uid /\ user'.ref = o.ref
  BY DEF StoreUser, User
<1>3. Versions' \subseteq Versions \cup {user'}
  BY DEF Versions, StoreUser
<1>4. \A u \in Versions : u \in User
  BY NoneType DEF Versions, TypeOK
<1> SUFFICES ASSUME NEW u \in Versions'
             PROVE  /\ u.rv <= user'.rv
                    /\ u.rv = user'.rv => u = user'
                    /\ u.uid <= user'.uid
                    /\ u.ref # 0 => u.ref = u.uid
  BY DEF VersionsAgree
<1>5. CASE u = user'
  BY <1>1, <1>2, <1>5 DEF User
<1>6. CASE u \in Versions
  <2>1. u.rv <= user.rv /\ u.uid <= user.uid /\ (u.ref # 0 => u.ref = u.uid)
    BY <1>6 DEF VersionsAgree
  <2> QED BY <1>1, <1>2, <1>4, <1>6, <2>1 DEF User
<1> QED BY <1>3, <1>5, <1>6

(* A step that stores nothing; it may read, and end or begin a pass.       *)
LEMMA MovesOn ==
    ASSUME BootstrapInvariant, UNCHANGED <<config, user, secrets, seen, lost>>,
           configs' \subseteq configs \cup {config},
           users' \subseteq users \cup {user}, acct' \in Versions,
           pc' # "idle" => inst'.uid # 0,
           pc' \in {"createSecret", "enable"} =>
               /\ acct'.phase = "live" /\ acct'.pending # 0
               /\ acct'.admin /\ ~acct'.disabled /\ acct'.ref = 0,
           pc' = "enable" => UNCHANGED <<pc, acct>>
    PROVE  BootstrapInvariant'
<1> USE DEF BootstrapInvariant
<1>1. VersionsAgree'
  BY VersionsRead DEF Versions
<1>2. Resuming'
  BY DEF Resuming
<1>3. SecretsKept'
  BY DEF SecretsKept
<1>4. CredentialsBeforeAccess'
  BY DEF CredentialsBeforeAccess
<1> QED BY <1>1, <1>2, <1>3, <1>4

(* An edit of the User by anybody but the pass: the same account, or a new *)
(* one without credentials.                                                *)
LEMMA UserEdited ==
    ASSUME TypeOK, BootstrapInvariant, NEW o \in User, StoreUser(o),
           UNCHANGED <<authConfig, vault, lost, pass>>,
           \/ /\ o.uid = user.uid /\ o.ref = user.ref
              /\ o.phase # "gone" => user.phase # "gone"
           \/ o.uid = user.uid + 1 /\ o.ref = 0
    PROVE  BootstrapInvariant'
<1> USE DEF BootstrapInvariant, authConfig, vault, pass
<1>1. user.ref # 0 => user.ref = user.uid
  BY DEF VersionsAgree, Versions
<1>2. VersionsAgree'
  BY <1>1, VersionStored
<1>3. user'.uid = o.uid /\ user'.ref = o.ref /\ user'.phase = o.phase
  BY DEF StoreUser, User
<1>4. Resuming'
  BY DEF Resuming
<1>5. /\ user.uid \in Nat /\ acct.uid \in Nat /\ acct.uid <= user.uid
      /\ \A s \in secrets \cup seen : s.uid \in Nat /\ s.uid <= user.uid
  BY DEF TypeOK, User, Secret, SecretsKept, VersionsAgree, Versions
<1>6. SecretsKept'
  <2>1. CASE /\ o.uid = user.uid /\ o.ref = user.ref
             /\ o.phase # "gone" => user.phase # "gone"
    BY <1>3, <2>1 DEF SecretsKept
  <2>2. CASE o.uid = user.uid + 1 /\ o.ref = 0
    BY <1>3, <1>5, <2>2 DEF SecretsKept
  <2> QED BY <2>1, <2>2
<1>7. CredentialsBeforeAccess'
  BY <1>3 DEF CredentialsBeforeAccess
<1> QED BY <1>2, <1>4, <1>6, <1>7

LEMMA PassInvariant ==
    ASSUME TypeOK, BootstrapInvariant, Pass
    PROVE  BootstrapInvariant'
<1> USE DEF authConfig, account, vault, world, counters
<1>0. /\ acct \in Versions /\ users \subseteq Versions /\ NoUser \in Versions
      /\ pc # "idle" => inst.uid # 0
  BY DEF Versions, BootstrapInvariant, Resuming
<1>1. CASE Reconcile
  <2>1. PICK v \in configs : /\ configs' = {u \in configs : u.rv >= v.rv}
                             /\ inst' = v
                             /\ pc' \in {"list", "verify", "status"}
    BY <1>1 DEF Reconcile
  <2>2. v.uid # 0
    BY DEF BootstrapInvariant, Resuming
  <2> QED BY <1>0, <1>1, <2>1, <2>2, MovesOn DEF Reconcile
<1>2. CASE listUsers
  <2>1. /\ pc' \in {"verify", "get"} /\ pc = "list" /\ UNCHANGED <<inst, acct>>
        /\ users' \subseteq users
    BY <1>2 DEF listUsers, Bootstrapped, Goto
  <2> QED BY <1>0, <1>2, <2>1, MovesOn DEF listUsers
<1>3. CASE getUser
  <2>1. PICK v \in users :
            /\ users' = {u \in users : u.rv >= v.rv}
            /\ \/ pc' \in {"verify", "createUser"} /\ UNCHANGED acct
               \/ pc' = "createSecret" /\ acct' = v /\ Resumable(v)
    BY <1>3 DEF getUser, Bootstrapped, Goto
  <2>2. pc = "get" /\ UNCHANGED inst
    BY <1>3 DEF getUser, Bootstrapped, Goto
  <2> QED BY <1>0, <1>3, <2>1, <2>2, MovesOn DEF getUser, Resumable
<1>4. CASE createUser
  <2>1. CASE user.phase = "gone"
    <3> DEFINE o == [NewUser(user.uid + 1, user.rv, TRUE) EXCEPT !.pending = inst.uid]
    <3>1. /\ pc = "createUser" /\ pc' = "createSecret" /\ StoreUser(o)
          /\ acct' = user' /\ UNCHANGED <<authConfig, vault, lost, inst>>
      BY <1>4, <2>1 DEF createUser
    <3>2. /\ o \in User /\ o.uid = user.uid + 1 /\ o.ref = 0 /\ o.phase = "live"
          /\ o.pending = inst.uid /\ o.admin /\ ~o.disabled
      BY WrittenUserType DEF NewUser
    <3> HIDE DEF o
    <3>3. /\ user'.uid = o.uid /\ user'.ref = o.ref /\ user'.phase = o.phase
          /\ user'.pending = o.pending /\ user'.admin = o.admin
          /\ user'.disabled = o.disabled
      BY <3>1, <3>2 DEF StoreUser, User
    <3>4. VersionsAgree'
      BY <3>1, <3>2, VersionStored DEF BootstrapInvariant
    <3>5. Resuming'
      BY <1>0, <3>1, <3>2, <3>3 DEF BootstrapInvariant, Resuming
    <3>6. /\ user.uid \in Nat
          /\ \A s \in secrets \cup seen : s.uid \in Nat /\ s.uid <= user.uid
      BY DEF TypeOK, User, Secret, BootstrapInvariant, SecretsKept
    <3>7. SecretsKept'
      BY <3>1, <3>2, <3>3, <3>6 DEF SecretsKept
    <3>8. CredentialsBeforeAccess'
      BY <3>2, <3>3 DEF CredentialsBeforeAccess
    <3> QED BY <3>4, <3>5, <3>7, <3>8 DEF BootstrapInvariant
  <2>2. CASE user.phase # "gone"
    BY <1>0, <1>4, <2>2, MovesOn DEF createUser, Bootstrapped
  <2> QED BY <2>1, <2>2
<1>5. CASE createLocalAuthSecret
  <2> USE DEF BootstrapInvariant
  <2>1. /\ pc = "createSecret" /\ pc' \in {"enable", "verify"}
        /\ secrets \subseteq secrets'
        /\ UNCHANGED <<authConfig, account, seen, lost, inst, acct>>
    BY <1>5 DEF createLocalAuthSecret, Goto, Bootstrapped
  <2> DEFINE n == [uid |-> acct.uid, password |-> Fresh]
  <2>0. /\ n.uid = acct.uid
        /\ \/ UNCHANGED secrets /\ (pc' = "enable" => \E s \in seen : s.uid = acct.uid)
           \/ secrets' = secrets \cup {n}
    BY <1>5 DEF createLocalAuthSecret, Goto, Bootstrapped
  <2> HIDE DEF n
  <2>2. \A s \in secrets' : s \in secrets \/ s.uid = acct.uid
    BY <2>0
  <2>3. pc' = "enable" => \E s \in secrets' \cup seen : s.uid = acct.uid
    BY <2>0
  <2>4. acct.uid <= user.uid
    BY DEF VersionsAgree, Versions
  <2>5. VersionsAgree'
    BY <2>1, VersionsRead DEF Versions
  <2>6. Resuming'
    BY <2>1 DEF Resuming
  <2>7. SecretsKept'
    BY <2>1, <2>2, <2>3, <2>4 DEF SecretsKept
  <2>8. CredentialsBeforeAccess'
    BY <2>1 DEF CredentialsBeforeAccess
  <2> QED BY <2>5, <2>6, <2>7, <2>8
<1>6. CASE enableUser
  <2>1. CASE user.phase # "gone" /\ acct.rv = user.rv
    <3> USE DEF BootstrapInvariant
    <3> DEFINE o == [acct EXCEPT !.ref = acct.uid, !.pending = 0]
    <3>1. acct = user
      BY <2>1 DEF VersionsAgree, Versions
    <3>2. /\ pc = "enable" /\ pc' = "verify" /\ StoreUser(o)
          /\ UNCHANGED <<authConfig, vault, lost, inst, acct>>
      BY <1>6, <2>1 DEF enableUser, Bootstrapped
    <3>3. /\ o \in User /\ o.uid = user.uid /\ o.ref = user.uid
          /\ o.phase = user.phase
      BY <3>1, WrittenUserType DEF TypeOK, User
    <3> HIDE DEF o
    <3>4. user'.uid = o.uid /\ user'.ref = o.ref /\ user'.phase = o.phase
      BY <3>2, <3>3 DEF StoreUser, User
    <3>5. VersionsAgree'
      BY <3>2, <3>3, VersionStored
    <3>6. Resuming'
      BY <3>2 DEF Resuming
    <3>7. SecretsKept'
      BY <3>2, <3>3, <3>4 DEF SecretsKept
    <3>8. CredentialsBeforeAccess'
      BY <2>1, <3>1, <3>2, <3>3, <3>4 DEF CredentialsBeforeAccess, SecretsKept
    <3> QED BY <3>5, <3>6, <3>7, <3>8
  <2>2. CASE user.phase = "gone" \/ acct.rv # user.rv
    BY <1>0, <1>6, <2>2, MovesOn DEF enableUser, Bootstrapped
  <2> QED BY <2>1, <2>2
<1>7. CASE verifyIssuer
  BY <1>0, <1>7, MovesOn DEF verifyIssuer
<1>8. CASE writeStatus
  <2> USE DEF BootstrapInvariant
  <2>1. /\ pc' = "idle" /\ acct' = NoUser /\ UNCHANGED <<account, vault, lost>>
        /\ pc = "status"
    BY <1>8 DEF writeStatus, EndPass
  <2>2. config'.uid # 0 /\ configs' \subseteq configs \cup {config'}
    <3>1. CASE StoreConfig(ReadyStatus(inst))
      <4>1. ReadyStatus(inst).uid = inst.uid /\ ReadyStatus(inst) \in AuthConfig
        BY WrittenConfigType DEF ReadyStatus, TypeOK, AuthConfig
      <4> QED BY <1>0, <2>1, <3>1, <4>1 DEF StoreConfig, AuthConfig
    <3>2. CASE UNCHANGED authConfig
      BY <3>2 DEF Resuming
    <3> QED BY <1>8, <3>1, <3>2 DEF writeStatus
  <2>3. VersionsAgree'
    BY <2>1, VersionsRead DEF Versions
  <2>4. Resuming'
    BY <2>1, <2>2 DEF Resuming
  <2>5. SecretsKept' /\ CredentialsBeforeAccess'
    BY <2>1 DEF SecretsKept, CredentialsBeforeAccess
  <2> QED BY <2>3, <2>4, <2>5
<1> QED BY <1>1, <1>2, <1>3, <1>4, <1>5, <1>6, <1>7, <1>8 DEF Pass

LEMMA NextInvariant ==
    ASSUME TypeOK, BootstrapInvariant, [Next]_vars
    PROVE  BootstrapInvariant'
<1> USE DEF authConfig, account, vault, world, pass, counters
<1>0. /\ acct \in Versions /\ NoUser \in Versions
      /\ pc # "idle" => inst.uid # 0
      /\ pc \in {"createSecret", "enable"} =>
            /\ acct.phase = "live" /\ acct.pending # 0
            /\ acct.admin /\ ~acct.disabled /\ acct.ref = 0
  BY DEF Versions, BootstrapInvariant, Resuming
<1>1. CASE Interrupt
  BY <1>0, <1>1, MovesOn DEF Interrupt, EndPass
<1>2. CASE CallFails
  BY <1>0, <1>2, MovesOn DEF CallFails, Bootstrapped
<1>3. CASE \/ ChangeUser \/ DeleteUser \/ CreateUserByHand
           \/ AddFinalizer \/ RemoveUser
  <2>1. PICK o \in User :
            /\ StoreUser(o)
            /\ \/ /\ o.uid = user.uid /\ o.ref = user.ref
                  /\ o.phase # "gone" => user.phase # "gone"
               \/ o.uid = user.uid + 1 /\ o.ref = 0
    <3>1. CASE ChangeUser \/ AddFinalizer
      <4> SUFFICES ASSUME NEW o \in User, StoreUser(o),
                          \/ o = [user EXCEPT !.disabled = ~@]
                          \/ o = [user EXCEPT !.admin = ~@]
                          \/ o = [user EXCEPT !.locked = ~@]
                          \/ o = [user EXCEPT !.final = TRUE]
                   PROVE  o.uid = user.uid /\ o.ref = user.ref /\ o.phase = user.phase
        BY <3>1, WrittenUserType DEF ChangeUser, AddFinalizer, EditUser
      <4> QED BY DEF TypeOK, User
    <3>2. CASE DeleteUser
      BY <3>2, WrittenUserType DEF DeleteUser, EditUser, TypeOK, User
    <3>3. CASE CreateUserByHand
      BY <3>3, WrittenUserType DEF CreateUserByHand, EditUser, NewUser
    <3>4. CASE RemoveUser
      BY <3>4, WrittenUserType DEF RemoveUser, TypeOK, User
    <3> QED BY <1>3, <3>1, <3>2, <3>3, <3>4
  <2>2. UNCHANGED <<authConfig, vault, lost, pass>>
    BY <1>3 DEF ChangeUser, DeleteUser, CreateUserByHand, AddFinalizer,
                RemoveUser, EditUser
  <2> QED BY <2>1, <2>2, UserEdited
<1>4. CASE LoseSecret \/ CollectGarbage
  <2>1. /\ UNCHANGED <<authConfig, account, seen, pass>> /\ secrets' \subseteq secrets
        /\ ~lost' => /\ ~lost
                     /\ user.phase # "gone" =>
                           \A s \in secrets : s.uid = user.uid => s \in secrets'
    BY <1>4 DEF LoseSecret, CollectGarbage
  <2>2. VersionsAgree'
    BY <2>1, VersionsRead DEF BootstrapInvariant, Versions
  <2>3. Resuming'
    BY <2>1 DEF BootstrapInvariant, Resuming
  <2>4. SecretsKept'
    BY <2>1 DEF BootstrapInvariant, SecretsKept
  <2>5. CredentialsBeforeAccess'
    <3>1. user.ref # 0 => user.ref = user.uid
      BY DEF BootstrapInvariant, VersionsAgree, Versions
    <3> QED BY <2>1, <3>1 DEF BootstrapInvariant, CredentialsBeforeAccess
  <2> QED BY <2>2, <2>3, <2>4, <2>5 DEF BootstrapInvariant
<1>5. CASE ChangeConfig
  <2>1. UNCHANGED <<account, vault, lost, pass>>
    BY <1>5 DEF ChangeConfig
  <2>2. PICK o \in AuthConfig : StoreConfig(o) /\ o.uid # 0
    <3>1. config.uid # 0 /\ config.uid \in Nat
      BY DEF BootstrapInvariant, Resuming, TypeOK, AuthConfig
    <3>2. CASE \E m \in Methods : StoreConfig([config EXCEPT !.mode = m])
      BY <3>1, <3>2, WrittenConfigType DEF TypeOK, AuthConfig
    <3>3. CASE StoreConfig([config EXCEPT !.skip = ~@])
      BY <3>1, <3>3, WrittenConfigType DEF TypeOK, AuthConfig
    <3>4. CASE StoreConfig(NewConfig(config.uid + 1, config.rv, config.mode))
      BY <3>1, <3>4, WrittenConfigType DEF NewConfig
    <3> QED BY <1>5, <3>2, <3>3, <3>4 DEF ChangeConfig
  <2>3. config'.uid # 0 /\ configs' = configs \cup {config'}
    BY <2>2 DEF StoreConfig, AuthConfig
  <2>4. VersionsAgree'
    BY <2>1, VersionsRead DEF BootstrapInvariant, Versions
  <2>5. Resuming'
    BY <2>1, <2>3 DEF BootstrapInvariant, Resuming
  <2>6. SecretsKept' /\ CredentialsBeforeAccess'
    BY <2>1 DEF BootstrapInvariant, SecretsKept, CredentialsBeforeAccess
  <2> QED BY <2>4, <2>5, <2>6 DEF BootstrapInvariant
<1>6. CASE ChangeWorld \/ DeliverConfig \/ DeliverUser \/ UNCHANGED vars
  <2>1. /\ UNCHANGED <<config, user, secrets, seen, lost, pass>>
        /\ configs' \subseteq configs \cup {config}
        /\ users' \subseteq users \cup {user}
    BY <1>6 DEF ChangeWorld, DeliverConfig, DeliverUser, vars
  <2> QED BY <1>0, <2>1, MovesOn
<1>7. CASE DeliverSecrets
  <2>1. seen' = secrets /\ UNCHANGED <<authConfig, account, secrets, lost, pass>>
    BY <1>7 DEF DeliverSecrets
  <2>2. VersionsAgree'
    BY <2>1, VersionsRead DEF BootstrapInvariant, Versions
  <2>3. Resuming'
    BY <2>1 DEF BootstrapInvariant, Resuming
  <2>4. SecretsKept' /\ CredentialsBeforeAccess'
    BY <2>1 DEF BootstrapInvariant, SecretsKept, CredentialsBeforeAccess
  <2> QED BY <2>2, <2>3, <2>4 DEF BootstrapInvariant
<1> QED BY <1>1, <1>2, <1>3, <1>4, <1>5, <1>6, <1>7, PassInvariant DEF Next, Admin

-----------------------------------------------------------------------------
(* Theorems.                                                               *)

(* Every reachable state has the stated types and satisfies the inductive  *)
(* invariant: versions of the User agree, a pass past the read resumes an  *)
(* unfinished account of an AuthConfig, and the Secrets its cache shows    *)
(* for the present User exist unless one was deleted by hand.              *)
THEOREM BootstrapInvariantHolds == Spec => [](TypeOK /\ BootstrapInvariant)
<1>1. Init => TypeOK /\ BootstrapInvariant
  BY InitType, InitInvariant
<1>2. TypeOK /\ BootstrapInvariant /\ [Next]_vars => (TypeOK /\ BootstrapInvariant)'
  BY NextType, NextInvariant
<1> QED BY <1>1, <1>2, PTL DEF Spec

(* The reference to the password Secret is written last: wherever the      *)
(* transaction of reconcileBootstrapAdmin was cut short, an account that   *)
(* refers to a Secret has it, unless somebody deleted it.                  *)
THEOREM CredentialsBeforeAccessHolds == Spec => []CredentialsBeforeAccess
<1>1. BootstrapInvariant => CredentialsBeforeAccess
  BY DEF BootstrapInvariant
<1> QED BY <1>1, BootstrapInvariantHolds, PTL

(* Credentials go only to an account an AuthConfig created for them and    *)
(* that is at this moment a live, enabled administrator's: the update in   *)
(* reconcileBootstrapAdmin is refused when the User read is not the User   *)
(* stored.                                                                 *)
THEOREM AccountsNotPromotedHolds == Spec => AccountsNotPromoted
<1> DEFINE A == user'.ref # user.ref /\ user'.ref # 0 =>
                   /\ user.phase = "live" /\ user.pending # 0
                   /\ user.admin /\ ~user.disabled
                   /\ user'.ref = user.uid
<1>1. ASSUME TypeOK, BootstrapInvariant, [Next]_vars
      PROVE  A
  <2> USE <1>1 DEF authConfig, account, vault, world, pass, counters
  <2>1. CASE enableUser
    <3>1. CASE user.phase # "gone" /\ acct.rv = user.rv
      <4>1. acct = user
        BY <3>1 DEF BootstrapInvariant, VersionsAgree, Versions
      <4>2. user'.ref = user.uid
        BY <2>1, <3>1, <4>1 DEF enableUser, StoreUser, TypeOK, User
      <4> QED BY <2>1, <4>1, <4>2 DEF enableUser, BootstrapInvariant, Resuming
    <3>2. CASE user.phase = "gone" \/ acct.rv # user.rv
      BY <2>1, <3>2 DEF enableUser
    <3> QED BY <3>1, <3>2
  <2>2. CASE createUser \/ CreateUserByHand
    BY <2>2 DEF createUser, CreateUserByHand, EditUser, StoreUser, NewUser
  <2>3. CASE ChangeUser \/ DeleteUser \/ AddFinalizer \/ RemoveUser
    <3>1. user'.ref = user.ref
      BY <2>3 DEF ChangeUser, DeleteUser, AddFinalizer, RemoveUser, EditUser,
                  StoreUser, TypeOK, User
    <3> QED BY <3>1
  <2>4. CASE UNCHANGED user
    BY <2>4
  <2> QED
    BY <2>1, <2>2, <2>3, <2>4 DEF Next, Pass, Admin, Reconcile, listUsers, getUser,
       createLocalAuthSecret, verifyIssuer, writeStatus, Interrupt, CallFails,
       LoseSecret, ChangeConfig, ChangeWorld, CollectGarbage, DeliverConfig,
       DeliverUser, DeliverSecrets, vars
<1>2. TypeOK /\ BootstrapInvariant /\ [Next]_vars => [A]_vars
  BY <1>1
<1> HIDE DEF A
<1>3. Spec => [][A]_vars
  BY <1>2, BootstrapInvariantHolds, PTL DEF Spec
<1> QED BY <1>3 DEF A, AccountsNotPromoted

(* No pass and no retry replaces or removes the password of an existing    *)
(* account, whatever its cache of Secrets shows (createLocalAuthSecret).   *)
THEOREM PasswordKeptHolds == Spec => PasswordKept
<1> DEFINE A == \A s \in secrets :
                    s.uid = user.uid /\ user.phase # "gone" /\ edits' = edits
                        => s \in secrets'
<1>1. ASSUME TypeOK, [Next]_vars
      PROVE  A
  <2> USE <1>1 DEF authConfig, account, vault, world, pass, counters
  <2>1. CASE LoseSecret
    BY <2>1 DEF LoseSecret, Edit, TypeOK
  <2>2. CASE CollectGarbage
    BY <2>2 DEF CollectGarbage
  <2>3. CASE createLocalAuthSecret
    BY <2>3 DEF createLocalAuthSecret
  <2>4. CASE UNCHANGED secrets
    BY <2>4
  <2> QED
    BY <2>1, <2>2, <2>3, <2>4 DEF Next, Pass, Admin, Reconcile, listUsers, getUser,
       createUser, enableUser, verifyIssuer, writeStatus, Interrupt, CallFails,
       ChangeUser, DeleteUser, CreateUserByHand, EditUser, ChangeConfig,
       ChangeWorld, AddFinalizer, RemoveUser, DeliverConfig, DeliverUser,
       DeliverSecrets, vars
<1>2. TypeOK /\ [Next]_vars => [A]_vars
  BY <1>1
<1> HIDE DEF A
<1>3. Spec => [][A]_vars
  BY <1>2, BootstrapInvariantHolds, PTL DEF Spec
<1> QED BY <1>3 DEF A, PasswordKept

=============================================================================
