-------------------------- MODULE UserAccessProofs --------------------------
(***************************************************************************)
(* Proofs about UserAccess for any namespaces and roles and for every      *)
(* value of the bounds.                                                    *)
(***************************************************************************)
EXTENDS UserAccess, TLAPS

USE ConstantsAssumption

-----------------------------------------------------------------------------
(* The inductive invariant.                                                *)

Versions == known \cup {user, inst, Blank}

(* A resourceVersion determines the User, the server's is the newest; UIDs *)
(* only grow, and a User that is going never comes back to life.           *)
VersionsAgree ==
    \A u \in Versions :
        /\ u.rv <= user.rv
        /\ u.rv = user.rv => u = user
        /\ u.uid <= user.uid
        /\ u.uid = user.uid /\ u.phase # "live" => user.phase # "live"

(* The namespace in the cache is an earlier one unless it has the version  *)
(* of the one there is.                                                    *)
HomeSeen ==
    /\ seenHome.ver <= home.ver
    /\ seenHome.ver = home.ver => seenHome = home

(* The pass of a deletion works for a User that is going.                  *)
Cleaning == {"cleanup", "deleteHome", "dropFinalizer"}

UserGoing == pc \in Cleaning => inst.phase = "deleting"

AccessInvariant == VersionsAgree /\ HomeSeen /\ UserGoing

-----------------------------------------------------------------------------
(* Types.                                                                  *)

Passes == {"idle", "addFinalizer", "cleanup", "deleteHome",
           "dropFinalizer", "revoke", "markDisabled", "namespace",
           "personal", "applyPersonal", "quota", "recordHome", "shared",
           "applyShared", "listStale", "revokeStale", "markReady"}
Todo == SUBSET [key : Bindings, ver : Nat]
Grants == [Bindings -> RoleBinding]

LEMMA BindingNamespace ==
    /\ Personal \in Bindings
    /\ \A n \in Namespaces : Shared(n) \in Bindings
    /\ \A b \in Bindings : b.ns \in Namespaces
<1>1. Personal \in Bindings /\ \A n \in Namespaces : Shared(n) \in Bindings
  BY DEF Bindings
<1>2. Personal.ns = Home /\ Home \in Namespaces
  BY DEF Personal, Namespaces
<1>3. \A n \in Namespaces : Shared(n).ns = n
  BY DEF Shared
<1> QED BY <1>1, <1>2, <1>3 DEF Bindings

LEMMA NewUserType ==
    ASSUME NEW uid \in Nat, NEW rv \in Nat
    PROVE  NewUser(uid, rv) \in User
BY DEF NewUser, User

LEMMA BlankType ==
    Blank \in User /\ Blank.phase = "gone" /\ Blank.uid = 0 /\ Blank.rv = 0
BY DEF Blank, NewUser, User

LEMMA InitType == Init => TypeOK
<1> SUFFICES ASSUME Init PROVE TypeOK
  OBVIOUS
<1>1. user \in User
  <2>1. NewUser(1, 1) \in User
    BY NewUserType
  <2> QED BY <2>1 DEF Init, User
<1>2. home \in Namespace
  BY DEF Init, Namespace
<1>3. grants \in [Bindings -> RoleBinding]
  BY DEF Init, RoleBinding
<1> QED BY <1>1, <1>2, <1>3, BlankType DEF Init, TypeOK

LEMMA StoreType ==
    ASSUME TypeOK, NEW o \in User, Store(o)
    PROVE  user' \in User /\ known' \subseteq User
<1>1. user.rv + 1 \in Nat
  BY DEF TypeOK, User
<1>2. user' \in User
  BY <1>1 DEF Store, User
<1> QED BY <1>2 DEF Store, TypeOK

(* What the steps write are Users.                                         *)
LEMMA WrittenType ==
    ASSUME TypeOK
    PROVE  /\ [inst EXCEPT !.final = TRUE] \in User
           /\ [inst EXCEPT !.final = FALSE, !.phase = "gone"] \in User
           /\ [inst EXCEPT !.personal = TRUE] \in User
           /\ \A r \in {"Disabled", "Reconciled"} : [inst EXCEPT !.ready = r] \in User
           /\ [user EXCEPT !.rv = @ + 1, !.ready = "Reconciled",
                           !.personal = @ \/ conf # "off"] \in User
           /\ \A n \in Namespaces, r \in Roles \cup {NoRole} :
                 [user EXCEPT !.access[n] = r] \in User
           /\ [user EXCEPT !.disabled = ~@] \in User
           /\ [user EXCEPT !.phase = IF user.final THEN "deleting" ELSE "gone"] \in User
           /\ NewUser(user.uid + 1, user.rv) \in User
<1>1. /\ [inst EXCEPT !.final = TRUE] \in User
      /\ [inst EXCEPT !.final = FALSE, !.phase = "gone"] \in User
      /\ [inst EXCEPT !.personal = TRUE] \in User
      /\ \A r \in {"Disabled", "Reconciled"} : [inst EXCEPT !.ready = r] \in User
  BY DEF TypeOK, User
<1>2. [user EXCEPT !.rv = @ + 1, !.ready = "Reconciled",
                   !.personal = @ \/ conf # "off"] \in User
  <2>1. user.rv + 1 \in Nat
    BY DEF TypeOK, User
  <2>2. \A p \in BOOLEAN : [user EXCEPT !.rv = user.rv + 1, !.ready = "Reconciled",
                                        !.personal = p] \in User
    BY <2>1 DEF TypeOK, User
  <2> QED BY <2>2
<1>3. ASSUME NEW n \in Namespaces, NEW r \in Roles \cup {NoRole}
      PROVE  [user EXCEPT !.access[n] = r] \in User
  BY DEF TypeOK, User
<1>4. /\ [user EXCEPT !.disabled = ~@] \in User
      /\ [user EXCEPT !.phase = IF user.final THEN "deleting" ELSE "gone"] \in User
  BY DEF TypeOK, User
<1>5. user.uid + 1 \in Nat /\ user.rv \in Nat
  BY DEF TypeOK, User
<1> QED BY <1>1, <1>2, <1>3, <1>4, <1>5, NewUserType

LEMMA EndPassType ==
    ASSUME EndPass
    PROVE  /\ pc' = "idle" /\ inst' \in User /\ conf' = "off"
           /\ todo' = {} /\ cur' = NoBinding
BY BlankType DEF EndPass

LEMMA SetBindingType ==
    ASSUME TypeOK, NEW b \in Bindings, NEW role \in Roles \cup {NoRole},
           SetBinding(b, role)
    PROVE  grants' \in [Bindings -> RoleBinding]
<1>1. grants[b].ver + 1 \in Nat
  BY DEF TypeOK, RoleBinding
<1>2. [role |-> role, ver |-> grants[b].ver + 1] \in RoleBinding
  BY <1>1 DEF RoleBinding
<1> QED BY <1>2 DEF TypeOK, SetBinding

LEMMA DeleteType ==
    ASSUME TypeOK, NEW b \in Bindings, Delete(b)
    PROVE  grants' \in [Bindings -> RoleBinding]
<1>1. CASE grants[b].role = NoRole
  BY <1>1 DEF Delete, TypeOK
<1>2. CASE grants[b].role # NoRole
  BY <1>2, SetBindingType DEF Delete
<1> QED BY <1>1, <1>2

LEMMA ListedType ==
    ASSUME TypeOK, NEW S \in SUBSET Bindings
    PROVE  Listed(S) \subseteq [key : Bindings, ver : Nat]
BY DEF TypeOK, Listed, RoleBinding

PassTyped == /\ pc' \in Passes /\ inst' \in User
             /\ conf' \in {"off", "on", "badQuota"}
             /\ todo' \in Todo
             /\ cur' \in Bindings \cup {NoBinding}

LEMMA RevokeListedType ==
    ASSUME TypeOK, NEW next \in Passes, RevokeListed(next)
    PROVE  PassTyped /\ grants' \in Grants
<1> USE DEF PassTyped, Todo, Grants, Passes
<1>1. CASE \E t \in todo : /\ Delete(t.key)
                           /\ todo' = todo \ {t}
                           /\ UNCHANGED <<pc, inst, conf, cur>>
  BY <1>1, DeleteType DEF TypeOK
<1>2. CASE EndPass /\ UNCHANGED grants
  BY <1>2, EndPassType DEF TypeOK
<1>3. CASE Goto(next) /\ UNCHANGED grants
  BY <1>3 DEF Goto, TypeOK
<1> QED BY <1>1, <1>2, <1>3 DEF RevokeListed

LEMMA ensureRoleBindingType ==
    ASSUME TypeOK, NEW b \in Bindings, NEW role, NEW next \in Passes,
           ensureRoleBinding(b, role, next)
    PROVE  PassTyped /\ grants' \in Grants
<1> USE DEF PassTyped, Todo, Grants, Passes
<1>1. CASE /\ UNCHANGED grants \/ Delete(b)
           /\ pc' = next /\ cur' = b
           /\ UNCHANGED <<inst, conf, todo>>
  BY <1>1, DeleteType DEF TypeOK
<1>2. CASE EndPass /\ UNCHANGED grants
  BY <1>2, EndPassType DEF TypeOK
<1> QED BY <1>1, <1>2 DEF ensureRoleBinding

LEMMA applyRoleBindingType ==
    ASSUME TypeOK, NEW b, NEW role, NEW next \in Passes,
           b \in Bindings => role \in Roles \cup {NoRole},
           applyRoleBinding(b, role, next)
    PROVE  PassTyped /\ grants' \in Grants
<1> USE DEF PassTyped, Todo, Grants, Passes
<1>1. CASE /\ SetBinding(b, role) \/ UNCHANGED grants
           /\ pc' = next /\ todo' = {t \in todo : t.key # b} /\ cur' = NoBinding
           /\ UNCHANGED <<inst, conf>>
  <2>1. grants' \in Grants
    <3>1. CASE b \in Bindings /\ SetBinding(b, role)
      BY <3>1, SetBindingType
    <3>2. CASE b \notin Bindings /\ SetBinding(b, role)
      BY <3>2 DEF SetBinding, TypeOK
    <3>3. CASE UNCHANGED grants
      BY <3>3 DEF TypeOK
    <3> QED BY <1>1, <3>1, <3>2, <3>3
  <2> QED BY <1>1, <2>1 DEF TypeOK
<1>2. CASE EndPass /\ UNCHANGED grants
  BY <1>2, EndPassType DEF TypeOK
<1> QED BY <1>1, <1>2 DEF applyRoleBinding

LEMMA NextType ==
    ASSUME TypeOK, [Next]_vars
    PROVE  TypeOK'
<1> USE DEF object, cluster, cached, pass, counters, PassTyped, Todo, Grants, Passes
<1>1. CASE Reconcile
  <2>1. PICK v \in known : /\ Begin(v) /\ inst' = v
                           /\ known' = {u \in known : u.rv >= v.rv}
    BY <1>1 DEF Reconcile
  <2>2. v \in User
    BY DEF TypeOK
  <2>3. Listed(Bindings) \in Todo /\ Stale(v) \in Todo
    BY ListedType DEF Stale
  <2>4. ToGrant(v) \in Todo
    BY BindingNamespace DEF ToGrant
  <2>5. pc' \in Passes /\ todo' \in Todo
    BY <2>1, <2>3, <2>4 DEF Begin
  <2> QED BY <1>1, <2>1, <2>2, <2>5 DEF Reconcile, TypeOK
<1>2. CASE addFinalizer
  <2>1. user' \in User /\ known' \subseteq User
    BY <1>2, WrittenType, StoreType DEF addFinalizer, TypeOK
  <2> QED BY <1>2, <2>1, EndPassType DEF addFinalizer, TypeOK
<1>3. CASE cleanupUser
  <2>1. grants' \in Grants
    BY <1>3, DeleteType DEF cleanupUser, TypeOK
  <2> QED BY <1>3, <2>1 DEF cleanupUser, Goto, TypeOK
<1>4. CASE deleteHome
  <2>1. home' \in Namespace
    <3>1. home.ver + 1 \in Nat
      BY DEF TypeOK, Namespace
    <3> QED BY <1>4, <3>1 DEF deleteHome, TypeOK, Namespace
  <2>2. PassTyped
    <3>1. CASE Goto("dropFinalizer")
      BY <3>1 DEF Goto, TypeOK
    <3>2. CASE EndPass
      BY <3>2, EndPassType
    <3> QED BY <1>4, <3>1, <3>2 DEF deleteHome
  <2> QED BY <1>4, <2>1, <2>2 DEF deleteHome, TypeOK
<1>5. CASE dropFinalizer
  <2>1. user' \in User /\ known' \subseteq User
    BY <1>5, WrittenType, StoreType DEF dropFinalizer, TypeOK
  <2> QED BY <1>5, <2>1, EndPassType DEF dropFinalizer, TypeOK
<1>6. CASE revokeDisabled
  <2>1. RevokeListed("markDisabled")
    BY <1>6 DEF revokeDisabled
  <2> QED BY <1>6, <2>1, RevokeListedType DEF revokeDisabled, TypeOK
<1>7. CASE markDisabled
  <2>1. user' \in User /\ known' \subseteq User
    BY <1>7, WrittenType, StoreType DEF markDisabled, MarkReady, TypeOK
  <2> QED BY <1>7, <2>1, EndPassType DEF markDisabled, TypeOK
<1>8. CASE reconcilePersonalNamespace
  <2>1. home' \in Namespace
    <3> DEFINE mine == [home EXCEPT !.kind = "owned", !.uid = inst.uid,
                                    !.ver = @ + 1]
    <3>1. mine \in Namespace
      <4>1. home.ver + 1 \in Nat /\ inst.uid \in Nat
        BY DEF TypeOK, Namespace, User
      <4> QED BY <4>1 DEF TypeOK, Namespace
    <3>2. home' \in {home, mine, [mine EXCEPT !.deleting = FALSE]}
      BY <1>8 DEF reconcilePersonalNamespace
    <3> HIDE DEF mine
    <3> QED BY <3>1, <3>2 DEF TypeOK, Namespace
  <2>2. PassTyped
    <3>1. CASE Goto("personal")
      BY <3>1 DEF Goto, TypeOK
    <3>2. CASE EndPass
      BY <3>2, EndPassType
    <3> QED BY <1>8, <3>1, <3>2 DEF reconcilePersonalNamespace
  <2> QED BY <1>8, <2>1, <2>2 DEF reconcilePersonalNamespace, TypeOK
<1>9. CASE ensurePersonal
  <2>1. ensureRoleBinding(Personal, "editor", "applyPersonal")
    BY <1>9 DEF ensurePersonal
  <2> QED BY <1>9, <2>1, BindingNamespace, ensureRoleBindingType
             DEF ensurePersonal, TypeOK
<1>10. CASE applyPersonal
  <2>1. applyRoleBinding(Personal, "editor", "quota")
    BY <1>10 DEF applyPersonal
  <2> QED BY <1>10, <2>1, applyRoleBindingType DEF applyPersonal, TypeOK
<1>11. CASE ensureResourceQuota
  <2>1. PassTyped
    BY <1>11, EndPassType DEF ensureResourceQuota, Goto, TypeOK
  <2> QED BY <1>11, <2>1 DEF ensureResourceQuota, TypeOK
<1>12. CASE recordHome
  <2>1. CASE inst.personal
    BY <1>12, <2>1 DEF recordHome, Goto, TypeOK
  <2>2. CASE ~inst.personal /\ Accepted(inst)
    <3>1. user' \in User /\ known' \subseteq User
      BY <1>12, <2>2, WrittenType, StoreType DEF recordHome
    <3> QED BY <1>12, <2>2, <3>1 DEF recordHome, TypeOK
  <2>3. CASE ~inst.personal /\ ~Accepted(inst)
    BY <1>12, <2>3, EndPassType DEF recordHome, TypeOK
  <2> QED BY <2>1, <2>2, <2>3
<1>13. CASE ensureShared
  <2>1. CASE \E t \in todo : ensureRoleBinding(t.key, inst.access[t.key.ns], "applyShared")
    <3>1. PICK t \in todo : ensureRoleBinding(t.key, inst.access[t.key.ns], "applyShared")
      BY <2>1
    <3>2. t.key \in Bindings
      BY DEF TypeOK
    <3> QED BY <1>13, <3>1, <3>2, ensureRoleBindingType DEF ensureShared, TypeOK
  <2>2. CASE Goto("listStale") /\ UNCHANGED grants
    BY <1>13, <2>2 DEF ensureShared, Goto, TypeOK
  <2> QED BY <1>13, <2>1, <2>2 DEF ensureShared
<1>14. CASE applyShared
  <2>1. applyRoleBinding(cur, inst.access[cur.ns], "shared")
    BY <1>14 DEF applyShared
  <2>2. cur \in Bindings => inst.access[cur.ns] \in Roles \cup {NoRole}
    BY BindingNamespace DEF TypeOK, User
  <2> QED BY <1>14, <2>1, <2>2, applyRoleBindingType DEF applyShared, TypeOK
<1>15. CASE listStale
  <2>1. Stale(inst) \in Todo
    BY ListedType DEF Stale
  <2> QED BY <1>15, <2>1 DEF listStale, TypeOK
<1>16. CASE cleanupStaleRoleBindings
  <2>1. RevokeListed("markReady")
    BY <1>16 DEF cleanupStaleRoleBindings
  <2> QED BY <1>16, <2>1, RevokeListedType DEF cleanupStaleRoleBindings, TypeOK
<1>17. CASE markReady
  <2>1. user' \in User /\ known' \subseteq User
    BY <1>17, WrittenType DEF markReady, TypeOK
  <2> QED BY <1>17, <2>1, EndPassType DEF markReady, TypeOK
<1>18. CASE Interrupt
  <2>1. faults' \in Nat
    BY <1>18 DEF Interrupt, TypeOK
  <2> QED BY <1>18, <2>1, EndPassType DEF Interrupt, TypeOK
<1>19. CASE Admin
  <2>1. CASE ChangeConfig
    <3>1. edits' \in Nat
      BY <2>1 DEF ChangeConfig, Edit, TypeOK
    <3> QED BY <2>1, <3>1 DEF ChangeConfig, TypeOK
  <2>3. CASE TakeHomeName
    <3>1. edits' \in Nat
      BY <2>3 DEF TakeHomeName, Edit, TypeOK
    <3>2. home.ver + 1 \in Nat
      BY DEF TypeOK, Namespace
    <3>3. home' \in Namespace
      BY <2>3, <3>2 DEF TakeHomeName, TypeOK, Namespace
    <3> QED BY <2>3, <3>1, <3>3 DEF TakeHomeName, TypeOK
  <2>2. CASE ~ChangeConfig /\ ~TakeHomeName
    <3>1. PICK o \in User : UserWrites(o)
      BY <1>19, <2>2, WrittenType DEF Admin, ChangeAccess, DisableOrEnable,
         DeleteUser, CreateUser, Login, Namespaces, TypeOK
    <3>2. user' \in User /\ known' \subseteq User
      BY <3>1, StoreType DEF UserWrites
    <3>3. edits' \in Nat
      BY <3>1 DEF UserWrites, Edit, TypeOK
    <3> QED BY <3>1, <3>2, <3>3 DEF UserWrites, TypeOK
  <2> QED BY <2>1, <2>2, <2>3
<1>20. CASE DeliverUser \/ DeliverHome
  BY <1>20 DEF DeliverUser, DeliverHome, TypeOK
<1>21. CASE RemoveHome
  <2>1. home' \in Namespace
    <3>1. home.ver + 1 \in Nat
      BY DEF TypeOK, Namespace
    <3> QED BY <1>21, <3>1 DEF RemoveHome, Namespace
  <2>2. grants' \in Grants
    <3>1. ASSUME NEW b \in Bindings
          PROVE  /\ grants[b] \in RoleBinding
                 /\ [role |-> NoRole, ver |-> grants[b].ver + 1] \in RoleBinding
      BY DEF TypeOK, RoleBinding
    <3> QED BY <1>21, <3>1 DEF RemoveHome
  <2> QED BY <1>21, <2>1, <2>2 DEF RemoveHome, TypeOK
<1>22. ASSUME NEW b \in Bindings, DeliverBinding(b)
       PROVE  TypeOK'
  BY <1>22 DEF DeliverBinding, TypeOK
<1>23. CASE UNCHANGED vars
  BY <1>23 DEF vars, TypeOK
<1> QED BY <1>1, <1>2, <1>3, <1>4, <1>5, <1>6, <1>7, <1>8, <1>9, <1>10,
           <1>11, <1>12, <1>13, <1>14, <1>15, <1>16, <1>17, <1>18, <1>19,
           <1>20, <1>21, <1>22, <1>23 DEF Next, Pass

-----------------------------------------------------------------------------
(* The invariant.                                                          *)

LEMMA InitInvariant == Init => AccessInvariant
<1> SUFFICES ASSUME Init PROVE AccessInvariant
  OBVIOUS
<1>1. user.rv = 1 /\ user.uid = 1 /\ user.phase = "live" /\ Versions = {user, Blank}
  BY DEF Init, NewUser, Versions
<1>2. VersionsAgree
  BY <1>1, BlankType DEF VersionsAgree
<1>3. HomeSeen /\ UserGoing
  BY DEF Init, HomeSeen, UserGoing, Cleaning
<1> QED BY <1>2, <1>3 DEF AccessInvariant

LEMMA VersionsRead ==
    ASSUME VersionsAgree, UNCHANGED user, Versions' \subseteq Versions
    PROVE  VersionsAgree'
BY DEF VersionsAgree

(* A stored User is newer than every version; it is the same account, dead *)
(* if that was, or the next one.                                           *)
LEMMA VersionStored ==
    ASSUME TypeOK, VersionsAgree, user' \in User, user'.rv = user.rv + 1,
           Versions' \subseteq Versions \cup {user'},
           \/ user'.uid = user.uid /\ (user.phase # "live" => user'.phase # "live")
           \/ user'.uid = user.uid + 1
    PROVE  VersionsAgree'
<1>1. \A u \in Versions : u \in User
  BY BlankType DEF Versions, TypeOK
<1>2. user \in User
  BY DEF TypeOK
<1> SUFFICES ASSUME NEW u \in Versions'
             PROVE  /\ u.rv <= user'.rv
                    /\ u.rv = user'.rv => u = user'
                    /\ u.uid <= user'.uid
                    /\ u.uid = user'.uid /\ u.phase # "live" => user'.phase # "live"
  BY DEF VersionsAgree
<1>3. CASE u = user'
  BY <1>3 DEF User
<1>4. CASE u \in Versions
  <2>1. /\ u.rv <= user.rv /\ u.uid <= user.uid
        /\ u.uid = user.uid /\ u.phase # "live" => user.phase # "live"
    BY <1>4 DEF VersionsAgree
  <2> QED BY <1>1, <1>2, <1>4, <2>1 DEF User
<1> QED BY <1>3, <1>4

LEMMA StoreKeepsVersions ==
    ASSUME TypeOK, VersionsAgree, NEW o \in User, Store(o),
           inst' \in {inst, user', Blank},
           \/ o.uid = user.uid /\ (user.phase # "live" => o.phase # "live")
           \/ o.uid = user.uid + 1
    PROVE  VersionsAgree'
<1>1. user' \in User
  BY StoreType
<1>2. user'.rv = user.rv + 1 /\ user'.uid = o.uid /\ user'.phase = o.phase
  BY DEF Store, User
<1>3. Versions' \subseteq Versions \cup {user'}
  BY DEF Versions, Store
<1> QED BY <1>1, <1>2, <1>3, VersionStored

LEMMA AcceptedNewest ==
    ASSUME VersionsAgree, Accepted(inst)
    PROVE  inst = user
BY DEF VersionsAgree, Versions, Accepted

(* A step of a pass that is no deletion, on RoleBindings alone.            *)
LEMMA GrantsChange ==
    ASSUME AccessInvariant, UNCHANGED <<user, known, home, seenHome>>,
           inst' \in {inst, Blank}, pc' \notin Cleaning
    PROVE  AccessInvariant'
<1>1. VersionsAgree'
  BY VersionsRead DEF AccessInvariant, Versions
<1>2. HomeSeen' /\ UserGoing'
  BY DEF AccessInvariant, HomeSeen, UserGoing
<1> QED BY <1>1, <1>2 DEF AccessInvariant

(* The end of a pass, with a write to the User or without.                 *)
LEMMA PassEnds ==
    ASSUME AccessInvariant, VersionsAgree', EndPass, UNCHANGED <<home, seenHome>>
    PROVE  AccessInvariant'
BY DEF AccessInvariant, HomeSeen, UserGoing, Cleaning, EndPass

(* A step outside the pass.                                                *)
LEMMA PassStays ==
    ASSUME AccessInvariant, VersionsAgree', HomeSeen', UNCHANGED pass
    PROVE  AccessInvariant'
BY DEF AccessInvariant, UserGoing, Cleaning, pass

LEMMA GrantSteps ==
    ASSUME TypeOK, AccessInvariant,
           \/ revokeDisabled \/ ensurePersonal \/ applyPersonal
           \/ ensureResourceQuota \/ ensureShared \/ applyShared \/ listStale
           \/ cleanupStaleRoleBindings
    PROVE  AccessInvariant'
<1> USE DEF object, cluster, cached, Cleaning
<1>1. \A next : RevokeListed(next) =>
          pc' \in {pc, next, "idle"} /\ inst' \in {inst, Blank}
  BY DEF RevokeListed, Goto, EndPass
<1>2. \A b, role, next : ensureRoleBinding(b, role, next) =>
          pc' \in {next, "idle"} /\ inst' \in {inst, Blank}
  BY DEF ensureRoleBinding, EndPass
<1>3. \A b, role, next : applyRoleBinding(b, role, next) =>
          pc' \in {next, "idle"} /\ inst' \in {inst, Blank}
  BY DEF applyRoleBinding, EndPass
<1>4. UNCHANGED <<user, known, home, seenHome>>
  BY DEF revokeDisabled, ensurePersonal, applyPersonal, ensureResourceQuota,
         ensureShared, applyShared, listStale, cleanupStaleRoleBindings
<1>5. pc' \notin Cleaning /\ inst' \in {inst, Blank}
  <2>1. CASE revokeDisabled \/ cleanupStaleRoleBindings
    BY <1>1, <2>1 DEF revokeDisabled, cleanupStaleRoleBindings
  <2>2. CASE ensurePersonal \/ ensureShared
    BY <1>2, <2>2 DEF ensurePersonal, ensureShared, Goto
  <2>3. CASE applyPersonal \/ applyShared
    BY <1>3, <2>3 DEF applyPersonal, applyShared
  <2>4. CASE ensureResourceQuota \/ listStale
    BY <2>4 DEF ensureResourceQuota, listStale, Goto, EndPass
  <2> QED BY <2>1, <2>2, <2>3, <2>4
<1> QED BY <1>4, <1>5, GrantsChange

(* The deletion.                                                           *)
LEMMA CleanupSteps ==
    ASSUME TypeOK, AccessInvariant, cleanupUser \/ deleteHome
    PROVE  AccessInvariant'
<1> USE DEF object, cluster, cached, counters
<1>1. CASE cleanupUser
  <2>1. /\ UNCHANGED <<object, home, cached, inst>>
        /\ pc = "cleanup" /\ pc' \in {"cleanup", "deleteHome"}
    BY <1>1 DEF cleanupUser, Goto
  <2>2. VersionsAgree' /\ HomeSeen'
    BY <2>1, VersionsRead DEF AccessInvariant, Versions, HomeSeen
  <2> QED BY <2>1, <2>2 DEF AccessInvariant, UserGoing, Cleaning
<1>2. CASE deleteHome
  <2>1. pc = "deleteHome" /\ UNCHANGED <<object, grants, cached>>
    BY <1>2 DEF deleteHome
  <2>2. VersionsAgree'
    BY <1>2, <2>1, VersionsRead DEF deleteHome, Goto, EndPass, AccessInvariant, Versions
  <2>3. HomeSeen'
    <3>1. seenHome.ver \in Nat /\ home.ver \in Nat
      BY DEF TypeOK, Namespace
    <3>2. UNCHANGED home \/ home'.ver = home.ver + 1
      BY <1>2 DEF deleteHome, TypeOK, Namespace
    <3> QED BY <2>1, <3>1, <3>2 DEF AccessInvariant, HomeSeen
  <2>4. UserGoing'
    BY <1>2, <2>1 DEF deleteHome, Goto, EndPass, AccessInvariant, UserGoing, Cleaning
  <2> QED BY <2>2, <2>3, <2>4 DEF AccessInvariant
<1> QED BY <1>1, <1>2

(* The steps that write the User.                                          *)
LEMMA ObjectSteps ==
    ASSUME TypeOK, AccessInvariant,
           addFinalizer \/ dropFinalizer \/ markDisabled \/ recordHome \/ markReady
    PROVE  AccessInvariant'
<1> USE DEF object, cluster, cached, counters
<1>1. ASSUME NEW o \in User, Store(o), Accepted(inst), o.uid = inst.uid,
             o.phase \in {inst.phase, "gone"}, inst' \in {inst, user', Blank}
      PROVE  VersionsAgree'
  BY <1>1, AcceptedNewest, StoreKeepsVersions DEF AccessInvariant
<1>2. (UNCHANGED object /\ inst' \in {inst, Blank}) => VersionsAgree'
  BY VersionsRead DEF AccessInvariant, Versions
<1>3. CASE addFinalizer
  <2>1. /\ [inst EXCEPT !.final = TRUE].uid = inst.uid
        /\ [inst EXCEPT !.final = TRUE].phase = inst.phase
    BY DEF TypeOK, User
  <2>2. VersionsAgree'
    BY <1>1, <1>2, <1>3, <2>1, WrittenType DEF addFinalizer, EndPass
  <2> QED BY <1>3, <2>2, PassEnds DEF addFinalizer
<1>4. CASE dropFinalizer
  <2>1. /\ [inst EXCEPT !.final = FALSE, !.phase = "gone"].uid = inst.uid
        /\ [inst EXCEPT !.final = FALSE, !.phase = "gone"].phase = "gone"
    BY DEF TypeOK, User
  <2>2. VersionsAgree'
    BY <1>1, <1>2, <1>4, <2>1, WrittenType DEF dropFinalizer, EndPass
  <2> QED BY <1>4, <2>2, PassEnds DEF dropFinalizer
<1>5. CASE markDisabled
  <2>1. /\ [inst EXCEPT !.ready = "Disabled"].uid = inst.uid
        /\ [inst EXCEPT !.ready = "Disabled"].phase = inst.phase
    BY DEF TypeOK, User
  <2>2. VersionsAgree'
    BY <1>1, <1>2, <1>5, <2>1, WrittenType DEF markDisabled, MarkReady, EndPass
  <2> QED BY <1>5, <2>2, PassEnds DEF markDisabled
<1>6. CASE recordHome
  <2>1. /\ [inst EXCEPT !.personal = TRUE].uid = inst.uid
        /\ [inst EXCEPT !.personal = TRUE].phase = inst.phase
    BY DEF TypeOK, User
  <2>2. VersionsAgree'
    BY <1>1, <1>2, <1>6, <2>1, WrittenType DEF recordHome, Goto, EndPass
  <2>3. pc' \in {"shared", "idle"} /\ UNCHANGED <<home, seenHome>>
    BY <1>6 DEF recordHome, Goto, EndPass
  <2> QED BY <2>2, <2>3 DEF AccessInvariant, HomeSeen, UserGoing, Cleaning
<1>7. CASE markReady
  <2>1. inst' = Blank
    BY <1>7 DEF markReady, EndPass
  <2>2. CASE UNCHANGED object
    BY <1>2, <1>7, <2>1, <2>2, PassEnds DEF markReady
  <2>3. CASE /\ user' = [user EXCEPT !.rv = @ + 1, !.ready = "Reconciled",
                                     !.personal = @ \/ conf # "off"]
             /\ known' = {user, user'}
    <3>1. user' \in User
      BY <2>3, WrittenType
    <3>2. user'.rv = user.rv + 1 /\ user'.uid = user.uid /\ user'.phase = user.phase
      BY <2>3 DEF TypeOK, User
    <3>3. VersionsAgree'
      BY <2>1, <2>3, <3>1, <3>2, VersionStored DEF Versions, AccessInvariant
    <3> QED BY <1>7, <3>3, PassEnds DEF markReady
  <2> QED BY <1>7, <2>2, <2>3 DEF markReady
<1> QED BY <1>3, <1>4, <1>5, <1>6, <1>7

(* A pass begins with a version the watch has delivered.                   *)
LEMMA ReconcileKeeps ==
    ASSUME TypeOK, AccessInvariant, Reconcile
    PROVE  AccessInvariant'
<1> USE DEF object, cluster, cached, counters
<1>1. PICK v \in known : /\ Begin(v) /\ inst' = v
                         /\ known' = {u \in known : u.rv >= v.rv}
  BY DEF Reconcile
<1>2. UNCHANGED <<user, grants, home, seen, seenHome>>
  BY DEF Reconcile
<1>3. VersionsAgree'
  BY <1>1, <1>2, VersionsRead DEF AccessInvariant, Versions
<1>4. HomeSeen'
  BY <1>2 DEF AccessInvariant, HomeSeen
<1>5. CASE v.phase = "deleting"
  BY <1>1, <1>3, <1>4, <1>5 DEF AccessInvariant, UserGoing
<1>6. CASE pc' \notin Cleaning
  BY <1>3, <1>4, <1>6 DEF AccessInvariant, UserGoing
<1> QED BY <1>1, <1>5, <1>6 DEF Begin, Cleaning

(* Writes to the namespace make it newer than the one in the cache.        *)
LEMMA NamespaceSteps ==
    ASSUME TypeOK, AccessInvariant,
           reconcilePersonalNamespace \/ DeliverHome \/ RemoveHome
    PROVE  AccessInvariant'
<1> USE DEF object, cluster, cached, counters
<1>1. seenHome.ver \in Nat /\ home.ver \in Nat
  BY DEF TypeOK, Namespace
<1>2. ASSUME home'.ver = home.ver + 1, UNCHANGED seenHome
      PROVE  HomeSeen'
  BY <1>1, <1>2 DEF AccessInvariant, HomeSeen
<1>3. CASE reconcilePersonalNamespace
  <2>1. UNCHANGED <<user, known, seenHome>>
    BY <1>3 DEF reconcilePersonalNamespace
  <2>2. pc' \in {"personal", "idle"} /\ inst' \in {inst, Blank}
    BY <1>3 DEF reconcilePersonalNamespace, Goto, EndPass
  <2>3. VersionsAgree'
    BY <2>1, <2>2, VersionsRead DEF AccessInvariant, Versions
  <2>4. UNCHANGED home \/ home'.ver = home.ver + 1
    BY <1>3 DEF reconcilePersonalNamespace, TypeOK, Namespace
  <2>5. HomeSeen'
    BY <1>2, <2>1, <2>4 DEF AccessInvariant, HomeSeen
  <2> QED BY <2>2, <2>3, <2>5 DEF AccessInvariant, UserGoing, Cleaning
<1>4. CASE DeliverHome
  <2>1. VersionsAgree'
    BY <1>4, VersionsRead DEF DeliverHome, pass, AccessInvariant, Versions
  <2>2. HomeSeen'
    BY <1>1, <1>4 DEF DeliverHome, HomeSeen
  <2> QED BY <1>4, <2>1, <2>2, PassStays DEF DeliverHome
<1>5. CASE RemoveHome
  <2>1. VersionsAgree'
    BY <1>5, VersionsRead DEF RemoveHome, pass, AccessInvariant, Versions
  <2>2. HomeSeen'
    BY <1>2, <1>5 DEF RemoveHome
  <2> QED BY <1>5, <2>1, <2>2, PassStays DEF RemoveHome
<1> QED BY <1>3, <1>4, <1>5

(* Administrators edit the User there is, or create the next one.          *)
LEMMA AdminKeeps ==
    ASSUME TypeOK, AccessInvariant, Admin
    PROVE  AccessInvariant'
<1> USE DEF object, cluster, cached, counters
<1>1. UNCHANGED <<seenHome, pass>> /\ (~TakeHomeName => UNCHANGED home)
  BY DEF Admin, ChangeAccess, DisableOrEnable, DeleteUser, CreateUser, Login,
         ChangeConfig, TakeHomeName, UserWrites
<1>2. HomeSeen'
  <2>1. CASE TakeHomeName
    <3>1. seenHome.ver \in Nat /\ home.ver \in Nat
      BY DEF TypeOK, Namespace
    <3>2. home'.ver = home.ver + 1
      BY <2>1 DEF TakeHomeName, TypeOK, Namespace
    <3> QED BY <1>1, <3>1, <3>2 DEF AccessInvariant, HomeSeen
  <2> QED BY <1>1, <2>1 DEF AccessInvariant, HomeSeen
<1>3. ASSUME NEW o \in User, UserWrites(o),
             \/ o.uid = user.uid /\ (user.phase # "live" => o.phase # "live")
             \/ o.uid = user.uid + 1
      PROVE  VersionsAgree'
  BY <1>1, <1>3, StoreKeepsVersions DEF UserWrites, pass, AccessInvariant
<1>4. VersionsAgree'
  <2>1. CASE ChangeAccess
    <3>1. PICK n \in Namespaces, r \in Roles \cup {NoRole} :
              UserWrites([user EXCEPT !.access[n] = r])
      BY <2>1 DEF ChangeAccess, Namespaces
    <3>2. [user EXCEPT !.access[n] = r].uid = user.uid
      BY DEF TypeOK, User
    <3>3. user.phase = "live"
      BY <2>1 DEF ChangeAccess
    <3>4. [user EXCEPT !.access[n] = r] \in User
      BY WrittenType
    <3> QED BY <1>3, <3>1, <3>2, <3>3, <3>4
  <2>2. CASE DisableOrEnable
    <3>1. [user EXCEPT !.disabled = ~@].uid = user.uid
      BY DEF TypeOK, User
    <3> QED BY <1>3, <2>2, <3>1, WrittenType DEF DisableOrEnable
  <2>3. CASE DeleteUser
    <3>1. [user EXCEPT !.phase = IF user.final THEN "deleting" ELSE "gone"].uid = user.uid
      BY DEF TypeOK, User
    <3> QED BY <1>3, <2>3, <3>1, WrittenType DEF DeleteUser
  <2>4. CASE CreateUser
    <3>1. NewUser(user.uid + 1, user.rv).uid = user.uid + 1
      BY DEF NewUser
    <3> QED BY <1>3, <2>4, <3>1, WrittenType DEF CreateUser
  <2>5. CASE Login
    BY <1>3, <2>5 DEF Login, TypeOK
  <2>6. CASE ChangeConfig \/ TakeHomeName
    BY <1>1, <2>6, VersionsRead DEF ChangeConfig, TakeHomeName, pass,
       AccessInvariant, Versions
  <2> QED BY <2>1, <2>2, <2>3, <2>4, <2>5, <2>6 DEF Admin
<1> QED BY <1>1, <1>2, <1>4, PassStays

LEMMA NextInvariant ==
    ASSUME TypeOK, AccessInvariant, [Next]_vars
    PROVE  AccessInvariant'
<1> USE DEF object, cluster, cached, counters
<1>1. CASE Interrupt
  <2>1. VersionsAgree'
    BY <1>1, VersionsRead DEF Interrupt, EndPass, AccessInvariant, Versions
  <2> QED BY <1>1, <2>1, PassEnds DEF Interrupt
<1>2. CASE DeliverUser
  <2>1. VersionsAgree' /\ HomeSeen'
    BY <1>2, VersionsRead DEF DeliverUser, pass, AccessInvariant, Versions,
       HomeSeen
  <2> QED BY <1>2, <2>1, PassStays DEF DeliverUser
<1>3. ASSUME NEW b \in Bindings, DeliverBinding(b)
      PROVE  AccessInvariant'
  <2>1. VersionsAgree' /\ HomeSeen'
    BY <1>3, VersionsRead DEF DeliverBinding, pass, AccessInvariant, Versions,
       HomeSeen
  <2> QED BY <1>3, <2>1, PassStays DEF DeliverBinding
<1>4. CASE UNCHANGED vars
  BY <1>4 DEF vars, AccessInvariant, VersionsAgree, Versions, HomeSeen,
     UserGoing
<1> QED BY <1>1, <1>2, <1>3, <1>4, GrantSteps, CleanupSteps, ObjectSteps,
           ReconcileKeeps, NamespaceSteps, AdminKeeps DEF Next, Pass

(* Every version of the User a pass or a watch still holds is one the      *)
(* server has had, the cached namespace is the one there is or an earlier  *)
(* one, and only a User that is going is cleaned up                        *)
(* (UserReconciler.Reconcile, cleanupUser).                                *)
THEOREM AccessInvariantHolds == Spec => [](TypeOK /\ AccessInvariant)
<1>1. Init => TypeOK /\ AccessInvariant
  BY InitType, InitInvariant
<1>2. TypeOK /\ AccessInvariant /\ [Next]_vars => (TypeOK /\ AccessInvariant)'
  BY NextType, NextInvariant
<1> QED BY <1>1, <1>2, PTL DEF Spec

-----------------------------------------------------------------------------
(* The action properties.                                                  *)

(* Only the reconciliation and the deletion of the personal namespace, the *)
(* namespace controller and a stranger who takes the name touch it.        *)
LEMMA HomeUntouched ==
    ASSUME [Next]_vars, ~reconcilePersonalNamespace, ~deleteHome, ~RemoveHome,
           ~TakeHomeName
    PROVE  UNCHANGED home
<1> USE DEF object, cluster, cached, counters
<1>1. CASE Pass
  BY <1>1 DEF Pass, Reconcile, addFinalizer, cleanupUser, dropFinalizer,
     revokeDisabled, markDisabled, ensurePersonal, applyPersonal,
     ensureResourceQuota, recordHome, ensureShared, applyShared, listStale,
     cleanupStaleRoleBindings, markReady
<1>2. CASE Admin
  BY <1>2 DEF Admin, ChangeAccess, DisableOrEnable, DeleteUser, CreateUser,
     Login, ChangeConfig, UserWrites
<1>3. CASE Interrupt \/ DeliverUser \/ DeliverHome
           \/ \E b \in Bindings : DeliverBinding(b)
  BY <1>3 DEF Interrupt, DeliverUser, DeliverHome, DeliverBinding
<1>4. CASE UNCHANGED vars
  BY <1>4 DEF vars
<1> QED BY <1>1, <1>2, <1>3, <1>4 DEF Next

(* A personal namespace is not handed from one User to the next, and only  *)
(* a User that is going deletes its own (personalNamespaceMatches, with    *)
(* the deletion guarded by the resourceVersion of the cached namespace).   *)
THEOREM PersonalNamespaceKeptHolds == Spec => PersonalNamespaceKept
<1> DEFINE A == /\ home.kind \in {"owned", "foreign"} /\ home'.kind # "absent"
                      => home'.kind = home.kind /\ home'.uid = home.uid
                /\ ~home.deleting /\ home'.deleting
                      => /\ home.kind = "owned"
                         /\ home.uid < user.uid \/ user.phase # "live"
<1>1. ASSUME TypeOK, AccessInvariant, [Next]_vars PROVE A
  <2> USE <1>1
  <2>1. CASE deleteHome
    <3>1. CASE UNCHANGED home
      BY <3>1
    <3>2. CASE /\ inst.personal /\ personalNamespaceMatches(seenHome, inst, FALSE)
               /\ home.ver = seenHome.ver
               /\ home' = [home EXCEPT !.deleting = TRUE, !.ver = @ + 1]
      <4>1. home = seenHome
        BY <3>2 DEF AccessInvariant, HomeSeen
      <4>2. home.kind = "owned" /\ home.uid = inst.uid
        BY <3>2, <4>1 DEF personalNamespaceMatches
      <4>3. home'.kind = home.kind /\ home'.uid = home.uid
        BY <3>2 DEF TypeOK, Namespace
      <4>4. inst.phase = "deleting"
        BY <2>1 DEF deleteHome, AccessInvariant, UserGoing, Cleaning
      <4>5. inst.uid <= user.uid /\ (inst.uid = user.uid => user.phase # "live")
        BY <4>4 DEF AccessInvariant, VersionsAgree, Versions
      <4>6. inst.uid \in Nat /\ user.uid \in Nat
        BY DEF TypeOK, User
      <4> QED BY <4>2, <4>3, <4>5, <4>6
    <3> QED BY <2>1, <3>1, <3>2 DEF deleteHome
  <2>2. CASE reconcilePersonalNamespace
    <3> DEFINE mine == [home EXCEPT !.kind = "owned", !.uid = inst.uid,
                                    !.ver = @ + 1]
    <3>1. CASE UNCHANGED home
      BY <3>1
    <3>2. CASE home.kind = "absent" /\ home' = [mine EXCEPT !.deleting = FALSE]
      <4>1. home'.deleting = FALSE
        BY <3>2 DEF TypeOK, Namespace
      <4> QED BY <3>2, <4>1
    <3>3. CASE /\ personalNamespaceMatches(seenHome, inst, TRUE)
               /\ seenHome.kind # "owned" /\ home.ver = seenHome.ver
               /\ home' = mine
      <4>1. home = seenHome
        BY <3>3 DEF AccessInvariant, HomeSeen
      <4>2. home.kind = "legacy"
        BY <3>3, <4>1 DEF personalNamespaceMatches
      <4>3. home'.deleting = home.deleting
        BY <3>3 DEF TypeOK, Namespace
      <4> QED BY <4>2, <4>3
    <3> QED BY <2>2, <3>1, <3>2, <3>3 DEF reconcilePersonalNamespace
  <2>3. CASE RemoveHome
    BY <2>3 DEF RemoveHome
  <2>4. CASE TakeHomeName
    BY <2>4 DEF TakeHomeName, TypeOK, Namespace
  <2> QED BY <2>1, <2>2, <2>3, <2>4, HomeUntouched
<1>2. TypeOK /\ AccessInvariant /\ [Next]_vars => [A]_vars
  BY <1>1
<1> HIDE DEF A
<1>3. Spec => [][A]_vars
  BY <1>2, AccessInvariantHolds, PTL DEF Spec
<1> QED BY <1>3 DEF A, PersonalNamespaceKept

-----------------------------------------------------------------------------
(* The personal grant.  The cached namespace, if it is the one of a User   *)
(* still alive, is the one there is (HomeCurrent): only the pass of its    *)
(* deletion removes it, and no version delivered later is alive again      *)
(* (VersionsFollow).                                                       *)

OwnHome(h, v) == h.kind = "owned" /\ h.uid = v.uid /\ ~h.deleting

VersionsFollow ==
    /\ \A u, v \in known :
          u.rv <= v.rv /\ u.uid = v.uid /\ u.phase # "live" => v.phase # "live"
    /\ inst.phase = "deleting" =>
          \A v \in known : v.uid = inst.uid => v.phase # "live"

HomeOwner == home.uid <= user.uid /\ seenHome.uid <= user.uid

HomeCurrent ==
    \A v \in Versions : v.phase = "live" /\ OwnHome(seenHome, v) => OwnHome(home, v)

Granting == {"namespace", "personal", "applyPersonal", "quota", "recordHome"}

PassOwns ==
    /\ pc \in Granting => inst.phase = "live"
    /\ pc \in {"personal", "applyPersonal"} => OwnHome(home, inst)

SharedOnly ==
    /\ pc \in Granting \cup {"shared", "applyShared"} =>
          \A t \in todo : t.key # Personal
    /\ pc = "applyShared" => cur # Personal

HomeInvariant ==
    VersionsFollow /\ HomeOwner /\ HomeCurrent /\ PassOwns /\ SharedOnly

LEMMA InitHome == Init => HomeInvariant
<1> SUFFICES ASSUME Init PROVE HomeInvariant
  OBVIOUS
<1>1. home.uid = 0 /\ seenHome = home /\ home.kind # "owned" /\ known = {user}
      /\ inst = Blank /\ pc = "idle" /\ user.uid = 1
  BY DEF Init, NewUser
<1>2. VersionsFollow /\ HomeOwner /\ HomeCurrent
  BY <1>1, BlankType DEF VersionsFollow, HomeOwner, HomeCurrent, OwnHome
<1> QED BY <1>1, <1>2 DEF HomeInvariant, PassOwns, SharedOnly, Granting

(* The three parts that are not about the step of the pass.                *)
Held == VersionsFollow /\ HomeOwner /\ HomeCurrent

(* A step that writes neither the User nor the namespace.                  *)
LEMMA HeldRead ==
    ASSUME HomeInvariant, UNCHANGED <<user, home, seenHome>>,
           known' \subseteq known, inst' \in {inst, Blank}
    PROVE  Held'
<1>1. Versions' \subseteq Versions
  BY DEF Versions
<1>2. VersionsFollow'
  BY BlankType DEF HomeInvariant, VersionsFollow
<1>3. HomeOwner' /\ HomeCurrent'
  BY <1>1 DEF HomeInvariant, HomeOwner, HomeCurrent, OwnHome
<1> QED BY <1>2, <1>3 DEF Held

(* A step that writes the User.                                            *)
LEMMA HeldStored ==
    ASSUME TypeOK, TypeOK', AccessInvariant, AccessInvariant', HomeInvariant,
           UNCHANGED <<home, seenHome>>,
           known' \subseteq known \cup {user, user'}, user'.rv = user.rv + 1,
           inst' \in {inst, Blank, user'},
           inst' = user' => user'.phase = "live",
           \/ user'.uid = user.uid /\ (user'.phase = "live" => user.phase = "live")
           \/ user'.uid = user.uid + 1
    PROVE  Held'
<1>1. /\ user.rv \in Nat /\ user.uid \in Nat /\ user'.uid \in Nat
      /\ home.uid \in Nat /\ seenHome.uid \in Nat
      /\ \A v \in known : v.rv \in Nat
  BY DEF TypeOK, User, Namespace
<1>2. \A v \in known : v.rv <= user.rv /\ (v.rv = user.rv => v = user)
  BY DEF AccessInvariant, VersionsAgree, Versions
<1>3. \A v \in known \cup {inst} : /\ v.uid = user.uid /\ v.phase # "live"
                                        => user.phase # "live"
                                   /\ v \in Versions
  BY DEF AccessInvariant, VersionsAgree, Versions
<1>4. \A v \in known \cup {inst, user} :
          v.uid = user'.uid /\ v.phase # "live" => user'.phase # "live"
  <2>1. CASE user'.uid = user.uid
    BY <1>1, <1>3, <2>1
  <2>2. CASE user'.uid = user.uid + 1
    <3>1. \A v \in known \cup {inst, user} : v.uid <= user.uid /\ v.uid \in Nat
      BY DEF AccessInvariant, VersionsAgree, Versions, TypeOK, User
    <3> QED BY <1>1, <2>2, <3>1
  <2> QED BY <2>1, <2>2
<1>5. VersionsFollow'
  <2>1. ASSUME NEW u \in known', NEW v \in known', u.rv <= v.rv, u.uid = v.uid,
               u.phase # "live"
        PROVE  v.phase # "live"
    <3>1. CASE v = user'
      BY <1>4, <2>1, <3>1
    <3>2. CASE v # user' /\ u = user'
      BY <1>1, <1>2, <2>1, <3>2
    <3>3. CASE v = user /\ u # user'
      BY <1>3, <2>1, <3>3
    <3>4. CASE v \in known /\ u = user
      BY <1>1, <1>2, <2>1, <3>4
    <3>5. CASE v \in known /\ u \in known
      BY <2>1, <3>5 DEF HomeInvariant, VersionsFollow
    <3> QED BY <3>1, <3>2, <3>3, <3>4, <3>5
  <2>2. ASSUME inst'.phase = "deleting", NEW v \in known', v.uid = inst'.uid
        PROVE  v.phase # "live"
    <3>1. inst' = inst
      BY <2>2, BlankType
    <3>2. CASE v = user'
      BY <1>4, <2>2, <3>1, <3>2
    <3>3. CASE v = user
      BY <1>3, <2>2, <3>1, <3>3
    <3>4. CASE v \in known
      BY <2>2, <3>1, <3>4 DEF HomeInvariant, VersionsFollow
    <3> QED BY <3>2, <3>3, <3>4
  <2> QED BY <2>1, <2>2 DEF VersionsFollow
<1>6. HomeOwner'
  BY <1>1 DEF HomeInvariant, HomeOwner
<1>7. HomeCurrent'
  <2> SUFFICES ASSUME NEW v \in Versions', v.phase = "live", OwnHome(seenHome, v)
               PROVE  OwnHome(home, v)
    BY DEF HomeCurrent, OwnHome
  <2>1. CASE v \in Versions
    BY <2>1 DEF HomeInvariant, HomeCurrent
  <2>2. CASE v = user'
    <3>1. user'.uid = user.uid /\ user.phase = "live"
      BY <1>1, <2>2 DEF HomeInvariant, HomeOwner, OwnHome
    <3>2. OwnHome(seenHome, user) /\ user \in Versions
      BY <2>2, <3>1 DEF OwnHome, Versions
    <3>3. OwnHome(home, user)
      BY <3>1, <3>2 DEF HomeInvariant, HomeCurrent
    <3> QED BY <2>2, <3>1, <3>3 DEF OwnHome
  <2> QED BY <2>1, <2>2 DEF Versions
<1> QED BY <1>5, <1>6, <1>7 DEF Held

LEMMA StoredFields ==
    ASSUME TypeOK, NEW o \in User, Store(o)
    PROVE  /\ user'.rv = user.rv + 1 /\ user'.uid = o.uid /\ user'.phase = o.phase
           /\ known' \subseteq known \cup {user, user'}
BY DEF Store, User

(* A pass that has ended, and one that goes on as it was, hold what they   *)
(* must as long as the rest is held.                                       *)
LEMMA HomeIdle ==
    ASSUME Held', pc' = "idle"
    PROVE  HomeInvariant'
BY DEF Held, HomeInvariant, PassOwns, SharedOnly, Granting

LEMMA HomeStays ==
    ASSUME HomeInvariant, Held', UNCHANGED pass,
           pc \in {"personal", "applyPersonal"} => OwnHome(home', inst)
    PROVE  HomeInvariant'
BY DEF Held, HomeInvariant, PassOwns, SharedOnly, Granting, pass, OwnHome

(* The steps of a pass on RoleBindings alone.                              *)
LEMMA HomeGrantSteps ==
    ASSUME TypeOK, AccessInvariant, HomeInvariant,
           \/ revokeDisabled \/ ensurePersonal \/ applyPersonal
           \/ ensureResourceQuota \/ ensureShared \/ applyShared \/ listStale
           \/ cleanupStaleRoleBindings \/ cleanupUser
    PROVE  HomeInvariant'
<1> USE DEF object, cluster, cached
<1>1. UNCHANGED <<user, known, home, seenHome>>
  BY DEF revokeDisabled, ensurePersonal, applyPersonal, ensureResourceQuota,
         ensureShared, applyShared, listStale, cleanupStaleRoleBindings, cleanupUser
<1>2. \A next : RevokeListed(next) =>
          pc' \in {pc, next, "idle"} /\ inst' \in {inst, Blank}
  BY DEF RevokeListed, Goto, EndPass
<1>3. \A b, role, next : ensureRoleBinding(b, role, next) =>
          \/ pc' = "idle" /\ inst' = Blank
          \/ pc' = next /\ cur' = b /\ UNCHANGED <<inst, todo>>
  BY DEF ensureRoleBinding, EndPass
<1>4. \A b, role, next : applyRoleBinding(b, role, next) =>
          \/ pc' = "idle" /\ inst' = Blank
          \/ pc' = next /\ todo' \subseteq todo /\ UNCHANGED inst
  BY DEF applyRoleBinding, EndPass
<1>5. CASE revokeDisabled \/ cleanupStaleRoleBindings \/ listStale \/ cleanupUser
  <2>1. /\ pc' \notin Granting \cup {"shared", "applyShared"}
        /\ inst' \in {inst, Blank}
    BY <1>2, <1>5 DEF revokeDisabled, cleanupStaleRoleBindings, listStale,
       cleanupUser, Goto, Granting
  <2> QED BY <1>1, <2>1, HeldRead DEF Held, HomeInvariant, PassOwns, SharedOnly, Granting
<1>6. CASE ensurePersonal \/ applyPersonal
  <2>1. \/ pc' = "idle" /\ inst' = Blank
        \/ /\ pc \in {"personal", "applyPersonal"} /\ pc' \in {"applyPersonal", "quota"}
           /\ todo' \subseteq todo /\ UNCHANGED inst
    BY <1>3, <1>4, <1>6 DEF ensurePersonal, applyPersonal
  <2>2. Held'
    BY <1>1, <2>1, HeldRead
  <2>3. CASE pc' = "idle"
    BY <2>2, <2>3, HomeIdle
  <2>4. CASE pc' # "idle"
    <3>1. PassOwns'
      BY <1>1, <2>1, <2>4 DEF HomeInvariant, PassOwns, Granting, OwnHome
    <3>2. SharedOnly'
      BY <2>1, <2>4 DEF HomeInvariant, SharedOnly, Granting
    <3> QED BY <2>2, <3>1, <3>2 DEF Held, HomeInvariant
  <2> QED BY <2>3, <2>4
<1>7. CASE ensureResourceQuota
  <2>1. \/ pc' = "idle" /\ inst' = Blank
        \/ pc = "quota" /\ pc' = "recordHome" /\ UNCHANGED <<inst, todo>>
    BY <1>7 DEF ensureResourceQuota, Goto, EndPass
  <2>2. Held'
    BY <1>1, <2>1, HeldRead
  <2> QED BY <2>1, <2>2 DEF Held, HomeInvariant, PassOwns, SharedOnly, Granting
<1>8. CASE ensureShared
  <2>1. \/ pc' = "idle" /\ inst' = Blank
        \/ pc' = "listStale" /\ UNCHANGED inst
        \/ /\ pc = "shared" /\ pc' = "applyShared" /\ UNCHANGED <<inst, todo>>
           /\ \E t \in todo : cur' = t.key
    BY <1>3, <1>8 DEF ensureShared, Goto
  <2>2. Held'
    BY <1>1, <2>1, HeldRead
  <2> QED BY <2>1, <2>2 DEF Held, HomeInvariant, PassOwns, SharedOnly, Granting
<1>9. CASE applyShared
  <2>1. \/ pc' = "idle" /\ inst' = Blank
        \/ pc = "applyShared" /\ pc' = "shared" /\ todo' \subseteq todo /\ UNCHANGED inst
    BY <1>4, <1>9 DEF applyShared
  <2>2. Held'
    BY <1>1, <2>1, HeldRead
  <2> QED BY <2>1, <2>2 DEF Held, HomeInvariant, PassOwns, SharedOnly, Granting
<1> QED BY <1>5, <1>6, <1>7, <1>8, <1>9

LEMMA HomeReconcile ==
    ASSUME TypeOK, AccessInvariant, HomeInvariant, Reconcile
    PROVE  HomeInvariant'
<1> USE DEF cluster, cached
<1>1. PICK v \in known : /\ Begin(v) /\ inst' = v
                         /\ known' = {u \in known : u.rv >= v.rv}
  BY DEF Reconcile
<1>2. UNCHANGED <<user, home, seenHome>>
  BY DEF Reconcile
<1>3. Versions' \subseteq Versions
  BY <1>1, <1>2 DEF Versions
<1>4. \A u \in known : u.rv \in Nat
  BY DEF TypeOK, User
<1>5. VersionsFollow'
  <2>1. \A u \in known' : v.uid = u.uid /\ v.phase # "live" => u.phase # "live"
    BY <1>1, <1>4 DEF HomeInvariant, VersionsFollow
  <2> QED BY <1>1, <2>1 DEF HomeInvariant, VersionsFollow
<1>6. HomeOwner' /\ HomeCurrent'
  BY <1>2, <1>3 DEF HomeInvariant, HomeOwner, HomeCurrent, OwnHome
<1>7. \A t \in ToGrant(v) : t.key # Personal
  <2>1. \A n \in Namespaces : Shared(n) # Personal
    BY DEF Shared, Personal
  <2> QED BY <2>1 DEF ToGrant
<1>8. PassOwns'
  BY <1>1 DEF Begin, PassOwns, Granting
<1>9. SharedOnly'
  BY <1>1, <1>7 DEF Begin, SharedOnly, Granting
<1> QED BY <1>5, <1>6, <1>8, <1>9 DEF HomeInvariant

(* The steps that write the User.                                          *)
LEMMA HomeObjectSteps ==
    ASSUME TypeOK, TypeOK', AccessInvariant, AccessInvariant', HomeInvariant,
           addFinalizer \/ dropFinalizer \/ markDisabled \/ recordHome \/ markReady
    PROVE  HomeInvariant'
<1> USE DEF object, cluster, cached
<1>1. UNCHANGED <<home, seenHome>>
  BY DEF addFinalizer, dropFinalizer, markDisabled, recordHome, markReady
<1>2. ASSUME NEW o \in User, Store(o), Accepted(inst), o.uid = inst.uid,
             o.phase \in {inst.phase, "gone"}, inst' \in {Blank, user'},
             inst' = user' => user'.phase = "live"
      PROVE  Held'
  BY <1>1, <1>2, AcceptedNewest, StoredFields, HeldStored DEF AccessInvariant
<1>3. (UNCHANGED object /\ inst' \in {inst, Blank}) => Held'
  BY <1>1, HeldRead
<1>4. CASE addFinalizer
  <2>1. /\ [inst EXCEPT !.final = TRUE].uid = inst.uid
        /\ [inst EXCEPT !.final = TRUE].phase = inst.phase
    BY DEF TypeOK, User
  <2>2. pc' = "idle" /\ inst' = Blank /\ inst'.phase = "gone"
    BY <1>4, BlankType DEF addFinalizer, EndPass
  <2>3. CASE Accepted(inst)
    <3>1. Store([inst EXCEPT !.final = TRUE])
      BY <1>4, <2>3 DEF addFinalizer
    <3>2. user'.phase = inst.phase
      BY <2>1, <3>1, StoredFields, WrittenType
    <3>3. inst.phase # "gone"
      BY <2>3, AcceptedNewest DEF Accepted, AccessInvariant
    <3>4. Held'
      BY <1>2, <2>1, <2>2, <2>3, <3>1, <3>2, <3>3, WrittenType
    <3> QED BY <2>2, <3>4, HomeIdle
  <2>4. CASE ~Accepted(inst)
    BY <1>3, <1>4, <2>2, <2>4, HomeIdle DEF addFinalizer
  <2> QED BY <2>3, <2>4
<1>5. CASE dropFinalizer
  <2>1. /\ [inst EXCEPT !.final = FALSE, !.phase = "gone"].uid = inst.uid
        /\ [inst EXCEPT !.final = FALSE, !.phase = "gone"].phase = "gone"
    BY DEF TypeOK, User
  <2>2. pc' = "idle" /\ inst' = Blank
    BY <1>5 DEF dropFinalizer, EndPass
  <2>3. CASE Accepted(inst)
    <3>1. Store([inst EXCEPT !.final = FALSE, !.phase = "gone"])
      BY <1>5, <2>3 DEF dropFinalizer
    <3>2. /\ user'.rv = user.rv + 1 /\ user'.uid = user.uid /\ user'.phase = "gone"
          /\ known' \subseteq known \cup {user, user'}
      BY <2>1, <2>3, <3>1, StoredFields, WrittenType, AcceptedNewest DEF AccessInvariant
    <3>3. user'.rv # 0
      BY <3>2 DEF TypeOK, User
    <3>4. inst' # user'
      BY <2>2, <3>3, BlankType
    <3>5. Held'
      BY <1>1, <2>2, <3>2, <3>4, HeldStored
    <3> QED BY <2>2, <3>5, HomeIdle
  <2>4. CASE ~Accepted(inst)
    BY <1>3, <1>5, <2>2, <2>4, HomeIdle DEF dropFinalizer
  <2> QED BY <2>3, <2>4
<1>6. CASE markDisabled
  <2>1. /\ [inst EXCEPT !.ready = "Disabled"].uid = inst.uid
        /\ [inst EXCEPT !.ready = "Disabled"].phase = inst.phase
    BY DEF TypeOK, User
  <2>2. pc' = "idle" /\ inst' = Blank /\ inst'.phase = "gone"
    BY <1>6, BlankType DEF markDisabled, EndPass
  <2>3. CASE UNCHANGED object
    BY <1>3, <2>2, <2>3, HomeIdle
  <2>4. CASE Accepted(inst) /\ Store([inst EXCEPT !.ready = "Disabled"])
    <3>1. user'.phase = inst.phase
      BY <2>1, <2>4, StoredFields, WrittenType
    <3>2. inst.phase # "gone"
      BY <2>4, AcceptedNewest DEF Accepted, AccessInvariant
    <3>3. Held'
      BY <1>2, <2>1, <2>2, <2>4, <3>1, <3>2, WrittenType
    <3> QED BY <2>2, <3>3, HomeIdle
  <2> QED BY <1>6, <2>3, <2>4 DEF markDisabled, MarkReady
<1>7. CASE recordHome
  <2>0. pc = "recordHome" /\ inst.phase = "live"
    BY <1>7 DEF recordHome, HomeInvariant, PassOwns, Granting
  <2>1. /\ [inst EXCEPT !.personal = TRUE].uid = inst.uid
        /\ [inst EXCEPT !.personal = TRUE].phase = inst.phase
    BY DEF TypeOK, User
  <2>2. CASE pc' = "idle"
    <3>1. UNCHANGED object /\ inst' = Blank
      BY <1>7, <2>2 DEF recordHome, Goto, EndPass
    <3> QED BY <1>3, <2>2, <3>1, HomeIdle
  <2>3. CASE pc' # "idle"
    <3>1. pc' = "shared" /\ UNCHANGED todo
      BY <1>7, <2>3 DEF recordHome, Goto, EndPass
    <3>2. Held'
      <4>1. CASE UNCHANGED object /\ UNCHANGED inst
        BY <1>3, <4>1
      <4>2. CASE /\ Accepted(inst) /\ Store([inst EXCEPT !.personal = TRUE])
                 /\ inst' = user'
        <5>1. user'.phase = "live"
          BY <2>0, <2>1, <4>2, StoredFields, WrittenType
        <5> QED BY <1>2, <2>1, <4>2, <5>1, WrittenType
      <4> QED BY <1>7, <2>3, <4>1, <4>2 DEF recordHome, Goto, EndPass
    <3> QED BY <2>0, <3>1, <3>2
            DEF Held, HomeInvariant, PassOwns, SharedOnly, Granting
  <2> QED BY <2>2, <2>3
<1>8. CASE markReady
  <2>1. pc' = "idle" /\ inst' = Blank
    BY <1>8 DEF markReady, EndPass
  <2>2. CASE UNCHANGED object
    BY <1>3, <2>1, <2>2, HomeIdle
  <2>3. CASE /\ user' = [user EXCEPT !.rv = @ + 1, !.ready = "Reconciled",
                                     !.personal = @ \/ conf # "off"]
             /\ known' = {user, user'}
    <3>1. user'.rv = user.rv + 1 /\ user'.uid = user.uid /\ user'.phase = user.phase
      BY <2>3 DEF TypeOK, User
    <3>2. user'.rv # 0
      BY <3>1 DEF TypeOK, User
    <3>3. inst' # user'
      BY <2>1, <3>2, BlankType
    <3>4. Held'
      BY <1>1, <2>1, <2>3, <3>1, <3>3, HeldStored
    <3> QED BY <2>1, <3>4, HomeIdle
  <2> QED BY <1>8, <2>2, <2>3 DEF markReady
<1> QED BY <1>4, <1>5, <1>6, <1>7, <1>8

(* The steps that write or deliver the namespace.                          *)
LEMMA HomeNamespaceSteps ==
    ASSUME TypeOK, AccessInvariant, HomeInvariant,
           \/ reconcilePersonalNamespace \/ deleteHome \/ RemoveHome
           \/ TakeHomeName \/ DeliverHome
    PROVE  HomeInvariant'
<1> USE DEF object, cluster, cached
<1>1. UNCHANGED <<user, known>> /\ (~DeliverHome => UNCHANGED seenHome)
  BY DEF reconcilePersonalNamespace, deleteHome, RemoveHome, TakeHomeName, DeliverHome
<1>2. inst \in Versions /\ user \in Versions /\ Blank \in Versions
  BY DEF Versions
<1>3. ASSUME inst' \in {inst, Blank}
      PROVE  VersionsFollow' /\ Versions' \subseteq Versions
  BY <1>1, <1>3, BlankType DEF HomeInvariant, VersionsFollow, Versions
<1>4. inst.uid <= user.uid
  BY <1>2 DEF AccessInvariant, VersionsAgree
<1>5. CASE reconcilePersonalNamespace
  <2> DEFINE mine == [home EXCEPT !.kind = "owned", !.uid = inst.uid, !.ver = @ + 1]
  <2>1. pc = "namespace" /\ inst.phase = "live" /\ \A t \in todo : t.key # Personal
    BY <1>5 DEF reconcilePersonalNamespace, HomeInvariant, PassOwns, SharedOnly, Granting
  <2>2. mine.kind = "owned" /\ mine.uid = inst.uid /\ mine.deleting = home.deleting
    BY DEF TypeOK, Namespace
  <2>3. CASE EndPass /\ UNCHANGED home
    <3>1. Held'
      BY <1>1, <1>5, <2>3, HeldRead DEF EndPass, reconcilePersonalNamespace
    <3> QED BY <2>3, <3>1, HomeIdle DEF EndPass
  <2>4. CASE Goto("personal") /\ UNCHANGED home /\ OwnHome(seenHome, inst)
    <3>1. Held'
      BY <1>1, <1>5, <2>4, HeldRead DEF Goto, reconcilePersonalNamespace
    <3>2. OwnHome(home, inst)
      BY <1>2, <2>1, <2>4 DEF HomeInvariant, HomeCurrent
    <3> QED BY <2>1, <2>4, <3>1, <3>2
            DEF Held, HomeInvariant, PassOwns, SharedOnly, Granting, Goto, OwnHome
  <2>5. CASE /\ Goto("personal") /\ seenHome.kind # "owned" /\ ~home'.deleting
             /\ home'.kind = "owned" /\ home'.uid = inst.uid
    <3>1. UNCHANGED <<inst, todo, seenHome>> /\ pc' = "personal"
      BY <1>5, <2>5 DEF Goto, reconcilePersonalNamespace
    <3>2. HomeOwner'
      BY <1>1, <1>4, <2>5, <3>1 DEF HomeInvariant, HomeOwner
    <3>3. HomeCurrent'
      BY <2>5, <3>1 DEF HomeCurrent, OwnHome
    <3>4. PassOwns' /\ SharedOnly'
      BY <2>1, <2>5, <3>1 DEF PassOwns, SharedOnly, Granting, OwnHome
    <3> QED BY <1>3, <3>1, <3>2, <3>3, <3>4 DEF HomeInvariant
  <2>6. CASE /\ seenHome.kind = "absent" /\ home' = [mine EXCEPT !.deleting = FALSE]
             /\ Goto("personal")
    <3>1. home'.kind = "owned" /\ home'.uid = inst.uid /\ ~home'.deleting
      BY <2>6 DEF TypeOK, Namespace
    <3> QED BY <2>5, <2>6, <3>1
  <2>7. CASE /\ personalNamespaceMatches(seenHome, inst, TRUE)
             /\ seenHome.kind # "owned" /\ home.ver = seenHome.ver
             /\ home' = mine /\ Goto("personal")
    <3>1. home = seenHome
      BY <2>7 DEF AccessInvariant, HomeSeen
    <3>2. ~home.deleting
      BY <2>7, <3>1 DEF personalNamespaceMatches
    <3> QED BY <2>2, <2>5, <2>7, <3>2
  <2>8. CASE /\ personalNamespaceMatches(seenHome, inst, TRUE)
             /\ seenHome.kind = "owned" /\ Goto("personal") /\ UNCHANGED home
    <3>1. OwnHome(seenHome, inst)
      BY <2>8 DEF personalNamespaceMatches, OwnHome
    <3> QED BY <2>4, <2>8, <3>1
  <2> HIDE DEF mine
  <2>9. \/ /\ seenHome.kind = "absent" /\ home' = [mine EXCEPT !.deleting = FALSE]
           /\ Goto("personal")
        \/ /\ personalNamespaceMatches(seenHome, inst, TRUE)
           /\ seenHome.kind = "owned" /\ Goto("personal") /\ UNCHANGED home
        \/ /\ personalNamespaceMatches(seenHome, inst, TRUE)
           /\ seenHome.kind # "owned" /\ home.ver = seenHome.ver
           /\ home' = mine /\ Goto("personal")
        \/ EndPass /\ UNCHANGED home
    BY <1>5 DEF reconcilePersonalNamespace, mine
  <2> QED BY <2>3, <2>6, <2>7, <2>8, <2>9
<1>6. CASE deleteHome
  <2>1. inst' \in {inst, Blank} /\ pc' \in {"dropFinalizer", "idle"}
    BY <1>6 DEF deleteHome, Goto, EndPass
  <2>2. CASE UNCHANGED home
    <3>1. Held'
      BY <1>1, <1>6, <2>1, <2>2, HeldRead DEF deleteHome
    <3> QED BY <2>1, <3>1 DEF Held, HomeInvariant, PassOwns, SharedOnly, Granting
  <2>3. CASE /\ personalNamespaceMatches(seenHome, inst, FALSE)
             /\ home.ver = seenHome.ver
             /\ home' = [home EXCEPT !.deleting = TRUE, !.ver = @ + 1]
    <3>1. home = seenHome
      BY <2>3 DEF AccessInvariant, HomeSeen
    <3>2. seenHome.uid = inst.uid
      BY <2>3 DEF personalNamespaceMatches
    <3>3. inst.phase = "deleting"
      BY <1>6 DEF deleteHome, AccessInvariant, UserGoing, Cleaning
    <3>4. \A v \in Versions : v.uid = inst.uid => v.phase # "live"
      BY <1>2, <3>3, BlankType
         DEF Versions, AccessInvariant, VersionsAgree, HomeInvariant, VersionsFollow
    <3>5. HomeCurrent'
      BY <1>1, <1>3, <1>6, <2>1, <3>2, <3>4 DEF HomeCurrent, OwnHome, deleteHome
    <3>6. home'.uid = home.uid
      BY <2>3 DEF TypeOK, Namespace
    <3>7. HomeOwner'
      BY <1>1, <1>6, <3>6 DEF HomeInvariant, HomeOwner, deleteHome
    <3> QED BY <1>3, <2>1, <3>5, <3>7 DEF HomeInvariant, PassOwns, SharedOnly, Granting
  <2> QED BY <1>6, <2>2, <2>3 DEF deleteHome
<1>7. CASE RemoveHome \/ TakeHomeName
  <2>1. UNCHANGED <<pc, inst, todo, cur>> /\ seenHome' = seenHome
    BY <1>7 DEF RemoveHome, TakeHomeName, pass
  <2>2. \A v \in Versions : ~OwnHome(home, v)
    BY <1>7 DEF RemoveHome, TakeHomeName, OwnHome
  <2>3. HomeCurrent'
    BY <1>3, <2>1, <2>2 DEF HomeInvariant, HomeCurrent, OwnHome
  <2>4. home'.uid \in {0, home.uid}
    <3>1. CASE RemoveHome
      BY <3>1 DEF RemoveHome
    <3>2. CASE TakeHomeName
      <4>1. home' = [home EXCEPT !.kind = "foreign", !.ver = @ + 1]
        BY <3>2 DEF TakeHomeName
      <4>2. "uid" # "kind" /\ "uid" # "ver" /\ "uid" \in DOMAIN home
        BY DEF TypeOK, Namespace
      <4> QED BY <4>1, <4>2
    <3> QED BY <1>7, <3>1, <3>2
  <2>5. HomeOwner'
    BY <1>1, <2>1, <2>4 DEF HomeInvariant, HomeOwner, TypeOK, User
  <2>6. PassOwns' /\ SharedOnly'
    BY <1>2, <2>1, <2>2 DEF HomeInvariant, PassOwns, SharedOnly
  <2> QED BY <1>3, <2>1, <2>3, <2>5, <2>6 DEF HomeInvariant
<1>8. CASE DeliverHome
  <2>1. UNCHANGED <<home, pc, inst, todo, cur>> /\ seenHome' = home
    BY <1>8 DEF DeliverHome, pass
  <2>2. HomeCurrent' /\ HomeOwner'
    BY <1>1, <2>1 DEF HomeInvariant, HomeCurrent, HomeOwner, OwnHome
  <2>3. PassOwns' /\ SharedOnly'
    BY <2>1 DEF HomeInvariant, PassOwns, SharedOnly, OwnHome
  <2> QED BY <1>3, <2>1, <2>2, <2>3 DEF HomeInvariant
<1> QED BY <1>5, <1>6, <1>7, <1>8

LEMMA HomeAdmin ==
    ASSUME TypeOK, TypeOK', AccessInvariant, AccessInvariant', HomeInvariant,
           Admin, ~TakeHomeName
    PROVE  HomeInvariant'
<1> USE DEF object, cluster, cached
<1>1. UNCHANGED <<home, seenHome, pass>>
  BY DEF Admin, ChangeAccess, DisableOrEnable, DeleteUser, CreateUser, Login,
         ChangeConfig, UserWrites
<1>2. ASSUME NEW o \in User, UserWrites(o),
             \/ o.uid = user.uid /\ user.phase = "live"
             \/ o.uid = user.uid + 1
      PROVE  Held'
  <2>1. Store(o)
    BY <1>2 DEF UserWrites
  <2>2. inst' = inst
    BY <1>1 DEF pass
  <2>3. user.rv \in Nat /\ inst.rv <= user.rv /\ inst.rv \in Nat
    BY DEF TypeOK, User, AccessInvariant, VersionsAgree, Versions
  <2>4. inst' # user'
    BY <2>1, <2>2, <2>3, StoredFields
  <2> QED BY <1>1, <1>2, <2>1, <2>2, <2>4, StoredFields, HeldStored
<1>3. Held'
  <2>1. CASE ChangeAccess
    <3>1. PICK n \in Namespaces, r \in Roles \cup {NoRole} :
              UserWrites([user EXCEPT !.access[n] = r])
      BY <2>1 DEF ChangeAccess, Namespaces
    <3>2. [user EXCEPT !.access[n] = r].uid = user.uid
      BY DEF TypeOK, User
    <3>3. user.phase = "live" /\ [user EXCEPT !.access[n] = r] \in User
      BY <2>1, WrittenType DEF ChangeAccess
    <3> QED BY <1>2, <3>1, <3>2, <3>3
  <2>2. CASE DisableOrEnable
    <3>1. [user EXCEPT !.disabled = ~@].uid = user.uid
      BY DEF TypeOK, User
    <3> QED BY <1>2, <2>2, <3>1, WrittenType DEF DisableOrEnable
  <2>3. CASE DeleteUser
    <3>1. [user EXCEPT !.phase = IF user.final THEN "deleting" ELSE "gone"].uid = user.uid
      BY DEF TypeOK, User
    <3> QED BY <1>2, <2>3, <3>1, WrittenType DEF DeleteUser
  <2>4. CASE CreateUser
    <3>1. NewUser(user.uid + 1, user.rv).uid = user.uid + 1
      BY DEF NewUser
    <3> QED BY <1>2, <2>4, <3>1, WrittenType DEF CreateUser
  <2>5. CASE Login
    BY <1>2, <2>5 DEF Login, TypeOK
  <2>6. CASE ChangeConfig
    BY <1>1, <2>6, HeldRead DEF ChangeConfig, pass
  <2> QED BY <2>1, <2>2, <2>3, <2>4, <2>5, <2>6 DEF Admin
<1>4. pc \in {"personal", "applyPersonal"} => OwnHome(home', inst)
  BY <1>1 DEF HomeInvariant, PassOwns
<1> QED BY <1>1, <1>3, <1>4, HomeStays

LEMMA NextHome ==
    ASSUME TypeOK, TypeOK', AccessInvariant, AccessInvariant', HomeInvariant,
           [Next]_vars
    PROVE  HomeInvariant'
<1> USE DEF object, cluster, cached
<1>1. ASSUME UNCHANGED <<user, home, seenHome, pass>>, known' \subseteq known
      PROVE  HomeInvariant'
  <2>1. Held'
    BY <1>1, HeldRead DEF pass
  <2>2. pc \in {"personal", "applyPersonal"} => OwnHome(home', inst)
    BY <1>1 DEF HomeInvariant, PassOwns
  <2> QED BY <1>1, <2>1, <2>2, HomeStays
<1>2. CASE Interrupt
  <2>1. Held' /\ pc' = "idle"
    BY <1>2, HeldRead DEF Interrupt, EndPass
  <2> QED BY <2>1, HomeIdle
<1>3. CASE DeliverUser
  BY <1>1, <1>3 DEF DeliverUser
<1>4. ASSUME NEW b \in Bindings, DeliverBinding(b) PROVE HomeInvariant'
  BY <1>1, <1>4 DEF DeliverBinding
<1>5. CASE UNCHANGED vars
  BY <1>1, <1>5 DEF vars, pass
<1> QED BY <1>2, <1>3, <1>4, <1>5, HomeGrantSteps, HomeReconcile, HomeObjectSteps,
           HomeNamespaceSteps, HomeAdmin DEF Next, Pass

(* Only one step gives the personal grant.                                 *)
LEMMA PersonalGiven ==
    ASSUME TypeOK, HomeInvariant, [Next]_vars, grants[Personal].role = NoRole,
           grants'[Personal].role # NoRole
    PROVE  applyPersonal
<1> USE DEF object, cluster, cached
<1>1. ASSUME NEW b, Delete(b) PROVE grants'[Personal].role = NoRole
  BY <1>1, BindingNamespace DEF Delete, SetBinding, TypeOK
<1>2. ASSUME NEW next, RevokeListed(next) PROVE FALSE
  BY <1>1, <1>2 DEF RevokeListed
<1>3. ASSUME NEW b, NEW role, NEW next, ensureRoleBinding(b, role, next)
      PROVE  FALSE
  BY <1>1, <1>3 DEF ensureRoleBinding
<1>4. ASSUME NEW b, b # Personal, NEW role, NEW next, applyRoleBinding(b, role, next)
      PROVE  FALSE
  BY <1>4, BindingNamespace DEF applyRoleBinding, SetBinding, TypeOK
<1>5. ~applyShared
  BY <1>4 DEF applyShared, HomeInvariant, SharedOnly
<1>6. ~revokeDisabled /\ ~cleanupStaleRoleBindings
  BY <1>2 DEF revokeDisabled, cleanupStaleRoleBindings
<1>7. ~ensurePersonal /\ ~ensureShared
  BY <1>3 DEF ensurePersonal, ensureShared
<1>8. ~cleanupUser /\ ~RemoveHome
  BY <1>1, BindingNamespace DEF cleanupUser, RemoveHome
<1>9. CASE Pass
  BY <1>5, <1>6, <1>7, <1>8, <1>9 DEF Pass, Reconcile, addFinalizer, deleteHome,
     dropFinalizer, markDisabled, reconcilePersonalNamespace, ensureResourceQuota,
     recordHome, listStale, markReady
<1>10. CASE Admin
  BY <1>10 DEF Admin, ChangeAccess, DisableOrEnable, DeleteUser, CreateUser,
     Login, ChangeConfig, TakeHomeName, UserWrites
<1>11. CASE Interrupt \/ DeliverUser \/ DeliverHome
            \/ \E b \in Bindings : DeliverBinding(b)
  BY <1>11 DEF Interrupt, DeliverUser, DeliverHome, DeliverBinding
<1>12. CASE UNCHANGED vars
  BY <1>12 DEF vars
<1> QED BY <1>8, <1>9, <1>10, <1>11, <1>12 DEF Next

(* The personal grant is given in the namespace of the very User the pass  *)
(* works for, or not at all (reconcilePersonalNamespace looks in a cache,  *)
(* ensureRoleBinding creates the grant some calls later).                  *)
THEOREM PersonalGrantOwnHolds == Spec => PersonalGrantOwn
<1> DEFINE A == grants[Personal].role = NoRole /\ grants'[Personal].role # NoRole
                  => home.kind = "owned" /\ home.uid = inst.uid /\ ~home.deleting
<1>1. TypeOK /\ HomeInvariant /\ [Next]_vars => [A]_vars
  <2> SUFFICES ASSUME TypeOK, HomeInvariant, [Next]_vars,
                      grants[Personal].role = NoRole, grants'[Personal].role # NoRole
               PROVE  home.kind = "owned" /\ home.uid = inst.uid /\ ~home.deleting
    OBVIOUS
  <2>1. pc = "applyPersonal"
    BY PersonalGiven DEF applyPersonal
  <2> QED BY <2>1 DEF HomeInvariant, PassOwns, OwnHome
<1>2. TypeOK /\ AccessInvariant /\ HomeInvariant /\ TypeOK' /\ AccessInvariant'
        /\ [Next]_vars => HomeInvariant'
  BY NextHome
<1> HIDE DEF A
<1>3. Spec => []HomeInvariant
  BY <1>2, InitHome, AccessInvariantHolds, PTL DEF Spec
<1>4. Spec => [][A]_vars
  BY <1>1, <1>3, AccessInvariantHolds, PTL DEF Spec
<1> QED BY <1>4 DEF A, PersonalGrantOwn

=============================================================================
