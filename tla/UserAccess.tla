----------------------------- MODULE UserAccess -----------------------------
(***************************************************************************)
(* The User controller for one user name: the finalizer, the personal      *)
(* namespace, the RoleBindings that grant access to it and to shared       *)
(* namespaces, and their removal when a grant is withdrawn, the User is    *)
(* disabled, or the User is deleted and perhaps created anew.              *)
(*                                                                         *)
(* Users, Namespaces and RoleBindings are all read through caches, each    *)
(* fed by a watch of its own; writes go to the API server, one call at a   *)
(* time, and are refused there when they rest on an outdated read.         *)
(***************************************************************************)
EXTENDS Integers

CONSTANTS
    Teams,       \* shared namespaces
    Home,        \* the personal namespace the template yields
    Roles,       \* roles a grant can have, "editor" among them
    NoRole,      \* no RoleBinding, or no grant
    NoBinding,   \* no RoleBinding is being applied
    SharedHome,  \* a grant may also name the personal namespace
    MaxUsers,    \* User objects created under the name
    MaxEdits,    \* writes by administrators and by the login service
    MaxFaults    \* passes cut short by a failed call or a restart

Namespaces == Teams \cup {Home}
Personal == [ns |-> Home, kind |-> "personal"]
Shared(n) == [ns |-> n, kind |-> "shared"]
Bindings == {Personal} \cup {Shared(n) : n \in Namespaces}

ASSUME ConstantsAssumption ==
    /\ Home \notin Teams
    /\ "editor" \in Roles
    /\ NoRole \notin Roles
    /\ NoBinding \notin Bindings
    /\ SharedHome \in BOOLEAN
    /\ MaxUsers \in Nat /\ MaxEdits \in Nat /\ MaxFaults \in Nat

VARIABLES
    user,      \* the User object
    known,     \* the version the cache holds and those still to come
    config,    \* personal namespaces: "off", "on", or with a bad quota
    grants,    \* the RoleBindings that carry this user's labels
    seen,      \* the RoleBindings in the cache
    home,      \* the namespace Home
    seenHome,  \* the namespace in the cache
    pc, inst,  \* the step of the pass and its User
    conf,      \* the configuration the pass read
    todo,      \* bindings to ensure, or found to be deleted
    cur,       \* the binding being applied
    edits, faults

vars == <<user, known, config, grants, seen, home, seenHome, pc, inst, conf,
          todo, cur, edits, faults>>
object == <<user, known>>
cluster == <<grants, home>>
cached == <<seen, seenHome>>
pass == <<pc, inst, conf, todo, cur>>
counters == <<edits, faults>>

User == [phase : {"live", "deleting", "gone"}, uid : Nat, rv : Nat,
         final : BOOLEAN, disabled : BOOLEAN,
         access : [Namespaces -> Roles \cup {NoRole}],
         personal : BOOLEAN, ready : {"none", "Disabled", "Reconciled"}]
RoleBinding == [role : Roles \cup {NoRole}, ver : Nat]
Namespace == [kind : {"absent", "foreign", "legacy", "owned"}, uid : Nat,
              deleting : BOOLEAN, ver : Nat]

TypeOK ==
    /\ user \in User
    /\ known \subseteq User
    /\ config \in {"off", "on", "badQuota"}
    /\ grants \in [Bindings -> RoleBinding]
    /\ seen \in [Bindings -> RoleBinding]
    /\ home \in Namespace
    /\ seenHome \in Namespace
    /\ pc \in {"idle", "addFinalizer", "cleanup", "deleteHome",
               "dropFinalizer", "revoke", "markDisabled", "namespace",
               "personal", "applyPersonal", "quota", "recordHome", "shared",
               "applyShared", "listStale", "revokeStale", "markReady"}
    /\ inst \in User
    /\ conf \in {"off", "on", "badQuota"}
    /\ todo \subseteq [key : Bindings, ver : Nat]
    /\ cur \in Bindings \cup {NoBinding}
    /\ edits \in Nat /\ faults \in Nat

NewUser(uid, rv) ==
    [phase |-> "live", uid |-> uid, rv |-> rv, final |-> FALSE,
     disabled |-> FALSE, access |-> [n \in Namespaces |-> NoRole],
     personal |-> FALSE, ready |-> "none"]

Blank == [NewUser(0, 0) EXCEPT !.phase = "gone"]

(* The name may be taken by somebody else's namespace, or by one that an   *)
(* earlier release made for this User without recording its UID.           *)
Init ==
    /\ \E k \in {"absent", "foreign", "legacy"} :
          /\ home = [kind |-> k, uid |-> 0, deleting |-> FALSE, ver |-> 1]
          /\ user = [NewUser(1, 1) EXCEPT !.personal = k = "legacy"]
    /\ known = {user}
    /\ config \in {"off", "on"}
    /\ grants = [b \in Bindings |-> [role |-> NoRole, ver |-> 0]]
    /\ seen = grants /\ seenHome = home
    /\ pc = "idle" /\ inst = Blank /\ conf = "off" /\ todo = {}
    /\ cur = NoBinding
    /\ edits = 0 /\ faults = 0

-----------------------------------------------------------------------------
(* Caches and guarded writes.                                              *)

Accepted(o) == user.phase # "gone" /\ o.rv = user.rv

Store(o) ==
    /\ user' = [o EXCEPT !.rv = user.rv + 1]
    /\ known' = known \cup {user'}

EndPass ==
    /\ pc' = "idle" /\ inst' = Blank /\ conf' = "off" /\ todo' = {}
    /\ cur' = NoBinding

Goto(step) == pc' = step /\ UNCHANGED <<inst, conf, todo, cur>>

SetBinding(b, role) ==
    grants' = [grants EXCEPT ![b] = [role |-> role, ver |-> @.ver + 1]]

(* A deletion that names UID and resourceVersion: absent is as good.       *)
Deletable(b, ver) == grants[b].role = NoRole \/ grants[b].ver = ver

Delete(b) ==
    IF grants[b].role = NoRole THEN UNCHANGED grants ELSE SetBinding(b, NoRole)

-----------------------------------------------------------------------------
(* The pass.                                                               *)

(* The cached RoleBindings with this user's labels.                        *)
Listed(S) == {[key |-> b, ver |-> seen[b].ver] :
                 b \in {c \in S : seen[c].role # NoRole}}

(* Mutants: every namespace stays desired; disablement is not looked at.   *)
DesiredNamespacesAll(o) == IF o.disabled THEN {} ELSE Namespaces
DesiredNamespacesEnabled(o) ==
    {n \in Namespaces : o.access[n] # NoRole \/ (n = Home /\ o.personal)}

(* Where a User should have RoleBindings, by namespace alone.              *)
DesiredNamespaces(o) ==
    {n \in Namespaces : /\ ~o.disabled
                        /\ o.access[n] # NoRole \/ (n = Home /\ o.personal)}

Stale(o) == Listed({b \in Bindings : b.ns \notin DesiredNamespaces(o)})

ToGrant(o) ==
    {[key |-> Shared(n), ver |-> 0] :
        n \in {m \in Namespaces : o.access[m] # NoRole}}

(* Reconcile: deletion first, then the finalizer, disablement, the rest.   *)
Begin(v) ==
    \/ /\ v.phase = "deleting" /\ v.final
       /\ pc' = "cleanup" /\ todo' = Listed(Bindings)
    \/ /\ v.phase = "live" /\ ~v.final
       /\ pc' = "addFinalizer" /\ todo' = {}
    \/ /\ v.phase = "live" /\ v.final /\ v.disabled
       /\ pc' = "revoke" /\ todo' = Stale(v)
    \/ /\ v.phase = "live" /\ v.final /\ ~v.disabled
       /\ pc' = IF config = "off" THEN "shared" ELSE "namespace"
       /\ todo' = ToGrant(v)

Reconcile ==
    /\ pc = "idle"
    /\ \E v \in known :
          /\ Begin(v)
          /\ inst' = v
          /\ known' = {u \in known : u.rv >= v.rv}
    /\ conf' = config
    /\ UNCHANGED <<user, config, cluster, cached, cur, counters>>

addFinalizer ==
    /\ pc = "addFinalizer"
    /\ IF Accepted(inst) THEN Store([inst EXCEPT !.final = TRUE]) ELSE UNCHANGED object
    /\ EndPass
    /\ UNCHANGED <<config, cluster, cached, counters>>

(* cleanupUser: every listed RoleBinding, without preconditions, ...       *)
cleanupUser ==
    /\ pc = "cleanup"
    /\ \/ \E t \in todo :
             /\ Delete(t.key)
             /\ todo' = todo \ {t}
             /\ UNCHANGED <<pc, inst, conf, cur>>
       \/ /\ todo = {}
          /\ Goto("deleteHome")
          /\ UNCHANGED grants
    /\ UNCHANGED <<object, config, home, cached, counters>>

(* Mutant: a namespace with the user's labels is the user's.               *)
personalNamespaceMatchesName(h, o, allowLegacy) ==
    ~h.deleting /\ h.kind \in {"owned", "legacy"}

(* The namespace carries this User's UID, or none and the status names it. *)
personalNamespaceMatches(h, o, allowLegacy) ==
    /\ ~h.deleting
    /\ \/ h.kind = "owned" /\ h.uid = o.uid
       \/ h.kind = "legacy" /\ allowLegacy /\ o.personal

(* ... then the personal namespace, if recorded and this User's.           *)
deleteHome ==
    /\ pc = "deleteHome"
    /\ LET h == seenHome
           theirs == inst.personal /\ personalNamespaceMatches(h, inst, FALSE)
       IN \/ /\ ~theirs \/ home.kind = "absent"
             /\ Goto("dropFinalizer")
             /\ UNCHANGED home
          \/ /\ theirs /\ home.kind # "absent" /\ home.ver = h.ver
             /\ home' = [home EXCEPT !.deleting = TRUE, !.ver = @ + 1]
             /\ Goto("dropFinalizer")
          \/ /\ theirs /\ home.kind # "absent" /\ home.ver # h.ver
             /\ EndPass
             /\ UNCHANGED home
    /\ UNCHANGED <<object, config, grants, cached, counters>>

dropFinalizer ==
    /\ pc = "dropFinalizer"
    /\ IF Accepted(inst)
       THEN Store([inst EXCEPT !.final = FALSE, !.phase = "gone"])
       ELSE UNCHANGED object
    /\ EndPass
    /\ UNCHANGED <<config, cluster, cached, counters>>

(* One deletion of cleanupStaleRoleBindings.                               *)
RevokeListed(next) ==
    \/ \E t \in todo :
          \/ /\ Deletable(t.key, t.ver)
             /\ Delete(t.key)
             /\ todo' = todo \ {t}
             /\ UNCHANGED <<pc, inst, conf, cur>>
          \/ /\ ~Deletable(t.key, t.ver)
             /\ EndPass
             /\ UNCHANGED grants
    \/ /\ todo = {}
       /\ Goto(next)
       /\ UNCHANGED grants

(* A disabled User keeps nothing.                                          *)
revokeDisabled ==
    /\ pc = "revoke"
    /\ RevokeListed("markDisabled")
    /\ UNCHANGED <<object, config, home, cached, counters>>

MarkReady(o, r) ==
    IF o.ready # r /\ Accepted(o)
    THEN Store([o EXCEPT !.ready = r]) ELSE UNCHANGED object

markDisabled ==
    /\ pc = "markDisabled"
    /\ MarkReady(inst, "Disabled")
    /\ EndPass
    /\ UNCHANGED <<config, cluster, cached, counters>>

(* reconcilePersonalNamespace: create it, or adopt what matches; anything  *)
(* else under that name is left alone and ends the pass.                   *)
reconcilePersonalNamespace ==
    /\ pc = "namespace"
    /\ LET h == seenHome
           mine == [home EXCEPT !.kind = "owned", !.uid = inst.uid,
                                !.ver = @ + 1]
       IN \/ /\ h.kind = "absent" /\ home.kind = "absent"
             /\ home' = [mine EXCEPT !.deleting = FALSE]
             /\ Goto("personal")
          \/ /\ h.kind # "absent" /\ personalNamespaceMatches(h, inst, TRUE)
             /\ h.kind = "owned"
             /\ Goto("personal")
             /\ UNCHANGED home
          \/ /\ h.kind # "absent" /\ personalNamespaceMatches(h, inst, TRUE)
             /\ h.kind # "owned" /\ home.ver = h.ver
             /\ home' = mine
             /\ Goto("personal")
          \/ /\ IF h.kind = "absent" THEN home.kind # "absent"
                ELSE \/ ~personalNamespaceMatches(h, inst, TRUE)
                     \/ h.kind # "owned" /\ home.ver # h.ver
             /\ EndPass
             /\ UNCHANGED home
    /\ UNCHANGED <<object, config, grants, cached, counters>>

(* ensureRoleBinding first removes a binding with another role ...         *)
ensureRoleBinding(b, role, next) ==
    \/ /\ seen[b].role \in {NoRole, role}
       /\ pc' = next /\ cur' = b
       /\ UNCHANGED <<grants, inst, conf, todo>>
    \/ /\ seen[b].role \notin {NoRole, role}
       /\ Deletable(b, seen[b].ver)
       /\ Delete(b)
       /\ pc' = next /\ cur' = b
       /\ UNCHANGED <<inst, conf, todo>>
    \/ /\ seen[b].role \notin {NoRole, role}
       /\ ~Deletable(b, seen[b].ver)
       /\ EndPass
       /\ UNCHANGED grants

NamespaceAccepts(n) ==
    n = Home => home.kind # "absent" /\ ~home.deleting

(* ... and then creates it; the cache may still show the old one, whose    *)
(* role cannot be changed in place, or miss one that exists.               *)
applyRoleBinding(b, role, next) ==
    \/ /\ seen[b].role = NoRole
       /\ grants[b].role = NoRole
       /\ NamespaceAccepts(b.ns)
       /\ SetBinding(b, role)
       /\ pc' = next /\ todo' = {t \in todo : t.key # b} /\ cur' = NoBinding
       /\ UNCHANGED <<inst, conf>>
    \/ /\ seen[b].role = role
       /\ pc' = next /\ todo' = {t \in todo : t.key # b} /\ cur' = NoBinding
       /\ UNCHANGED <<grants, inst, conf>>
    \/ /\ seen[b].role # role
       /\ \/ seen[b].role # NoRole
          \/ grants[b].role # NoRole
          \/ ~NamespaceAccepts(b.ns)
       /\ EndPass
       /\ UNCHANGED grants

ensurePersonal ==
    /\ pc = "personal"
    /\ ensureRoleBinding(Personal, "editor", "applyPersonal")
    /\ UNCHANGED <<object, config, home, cached, counters>>

applyPersonal ==
    /\ pc = "applyPersonal"
    /\ applyRoleBinding(Personal, "editor", "quota")
    /\ UNCHANGED <<object, config, home, cached, counters>>

(* ensureResourceQuota rejects a quantity it cannot parse.                 *)
ensureResourceQuota ==
    /\ pc = "quota"
    /\ \/ conf = "on" /\ Goto("recordHome")
       \/ conf = "badQuota" /\ EndPass
    /\ UNCHANGED <<object, config, cluster, cached, counters>>

recordHome ==
    /\ pc = "recordHome"
    /\ \/ /\ inst.personal
          /\ Goto("shared")
          /\ UNCHANGED object
       \/ /\ ~inst.personal /\ Accepted(inst)
          /\ Store([inst EXCEPT !.personal = TRUE])
          /\ inst' = user'
          /\ pc' = "shared"
          /\ UNCHANGED <<conf, todo, cur>>
       \/ /\ ~inst.personal /\ ~Accepted(inst)
          /\ EndPass
          /\ UNCHANGED object
    /\ UNCHANGED <<config, cluster, cached, counters>>

(* reconcileNamespaceAccess: every grant of the specification, ...         *)
ensureShared ==
    /\ pc = "shared"
    /\ \/ \E t \in todo :
             ensureRoleBinding(t.key, inst.access[t.key.ns], "applyShared")
       \/ /\ todo = {}
          /\ Goto("listStale")
          /\ UNCHANGED grants
    /\ UNCHANGED <<object, config, home, cached, counters>>

applyShared ==
    /\ pc = "applyShared"
    /\ applyRoleBinding(cur, inst.access[cur.ns], "shared")
    /\ UNCHANGED <<object, config, home, cached, counters>>

(* ... then the bindings in namespaces that are no longer desired.         *)
listStale ==
    /\ pc = "listStale"
    /\ todo' = Stale(inst)
    /\ pc' = "revokeStale"
    /\ UNCHANGED <<object, config, cluster, cached, inst, conf, cur, counters>>

cleanupStaleRoleBindings ==
    /\ pc = "revokeStale"
    /\ RevokeListed("markReady")
    /\ UNCHANGED <<object, config, home, cached, counters>>

(* The User is read again, from the cache, before it is marked ready.      *)
markReady ==
    /\ pc = "markReady"
    /\ \/ /\ user.phase # "gone" /\ user.ready # "Reconciled"
          /\ user' = [user EXCEPT !.rv = @ + 1, !.ready = "Reconciled",
                                  !.personal = @ \/ conf # "off"]
          /\ known' = {user, user'}
       \/ /\ \E v \in known : v.ready = "Reconciled" \/ v.rv < user.rv
          /\ UNCHANGED object
    /\ EndPass
    /\ UNCHANGED <<config, cluster, cached, counters>>

Interrupt ==
    /\ pc # "idle"
    /\ faults < MaxFaults
    /\ faults' = faults + 1
    /\ EndPass
    /\ UNCHANGED <<object, config, cluster, cached, edits>>

Pass ==
    \/ Reconcile \/ addFinalizer
    \/ cleanupUser \/ deleteHome \/ dropFinalizer
    \/ revokeDisabled \/ markDisabled
    \/ reconcilePersonalNamespace \/ ensurePersonal \/ applyPersonal
    \/ ensureResourceQuota \/ recordHome
    \/ ensureShared \/ applyShared \/ listStale \/ cleanupStaleRoleBindings
    \/ markReady

-----------------------------------------------------------------------------
(* Administrators and the login service.                                   *)

Edit == edits < MaxEdits /\ edits' = edits + 1

UserWrites(o) ==
    /\ Edit
    /\ Store(o)
    /\ UNCHANGED <<config, cluster, cached, pass, faults>>

ChangeAccess ==
    /\ user.phase = "live"
    /\ \E n \in Teams \cup (IF SharedHome THEN {Home} ELSE {}),
          r \in Roles \cup {NoRole} :
          /\ r # user.access[n]
          /\ UserWrites([user EXCEPT !.access[n] = r])

DisableOrEnable ==
    /\ user.phase = "live"
    /\ UserWrites([user EXCEPT !.disabled = ~@])

DeleteUser ==
    /\ user.phase = "live"
    /\ UserWrites([user EXCEPT !.phase = IF user.final THEN "deleting" ELSE "gone"])

CreateUser ==
    /\ user.phase = "gone"
    /\ user.uid < MaxUsers
    /\ UserWrites(NewUser(user.uid + 1, user.rv))

(* A login is recorded in the status and moves the resourceVersion on.     *)
Login ==
    /\ user.phase = "live"
    /\ UserWrites(user)

ChangeConfig ==
    /\ Edit
    /\ config' \in {"off", "on", "badQuota"} \ {config}
    /\ UNCHANGED <<object, cluster, cached, pass, faults>>

(* Somebody creates a namespace of that name for another purpose.          *)
TakeHomeName ==
    /\ Edit
    /\ home.kind = "absent"
    /\ home' = [home EXCEPT !.kind = "foreign", !.ver = @ + 1]
    /\ UNCHANGED <<object, config, grants, cached, pass, faults>>

Admin == ChangeAccess \/ DisableOrEnable \/ DeleteUser \/ CreateUser \/ Login
         \/ ChangeConfig \/ TakeHomeName

-----------------------------------------------------------------------------
(* The watches and the namespace controller.                               *)

DeliverUser ==
    /\ \E v \in known :
          /\ \E u \in known : u.rv < v.rv
          /\ known' = {u \in known : u.rv >= v.rv}
    /\ UNCHANGED <<user, config, cluster, cached, pass, counters>>

DeliverBinding(b) ==
    /\ seen[b] # grants[b]
    /\ seen' = [seen EXCEPT ![b] = grants[b]]
    /\ UNCHANGED <<object, config, cluster, seenHome, pass, counters>>

DeliverHome ==
    /\ seenHome # home
    /\ seenHome' = home
    /\ UNCHANGED <<object, config, cluster, seen, pass, counters>>

(* A deleted namespace takes its RoleBindings with it.                     *)
RemoveHome ==
    /\ home.deleting
    /\ home' = [kind |-> "absent", uid |-> 0, deleting |-> FALSE,
                ver |-> home.ver + 1]
    /\ grants' = [b \in Bindings |->
                     IF b.ns = Home /\ grants[b].role # NoRole
                     THEN [role |-> NoRole, ver |-> grants[b].ver + 1]
                     ELSE grants[b]]
    /\ UNCHANGED <<object, config, cached, pass, counters>>

Next ==
    \/ Pass \/ Interrupt \/ Admin
    \/ DeliverUser \/ DeliverHome \/ RemoveHome
    \/ \E b \in Bindings : DeliverBinding(b)

Spec == Init /\ [][Next]_vars

(* Failed passes are retried, disabled Users are looked at every thirty    *)
(* seconds and all Users on every resync; watches and the namespace        *)
(* controller keep working.                                                *)
FairSpec ==
    /\ Spec
    /\ WF_vars(Pass)
    /\ WF_vars(DeliverUser)
    /\ WF_vars(DeliverHome)
    /\ WF_vars(RemoveHome)
    /\ \A b \in Bindings : WF_vars(DeliverBinding(b))

-----------------------------------------------------------------------------
(* Properties.                                                             *)

Granted == {b \in Bindings : grants[b].role # NoRole}

(* A personal namespace is never handed from one User object to another    *)
(* of the same name, nor taken from a stranger, and is deleted only when   *)
(* the User whose UID it carries is no longer live                         *)
(* (personalNamespaceMatches, with namespaces read from a cache).          *)
PersonalNamespaceKept ==
    [][/\ home.kind \in {"owned", "foreign"} /\ home'.kind # "absent"
             => home'.kind = home.kind /\ home'.uid = home.uid
       /\ ~home.deleting /\ home'.deleting
             => /\ home.kind = "owned"
                /\ home.uid < user.uid \/ user.phase # "live"]_vars

(* Once administrators stop, an enabled User whose namespace is its own    *)
(* has exactly the shared grants of its specification, and the personal    *)
(* one (reconcileNamespaceAccess, ensureRoleBinding).                      *)
Settled ==
    /\ user.phase = "live" /\ ~user.disabled
    /\ config # "badQuota"
    /\ home.kind \in {"absent", "owned"}
    /\ home.kind = "owned" => home.uid = user.uid
    /\ user.access[Home] # NoRole => home.kind = "owned"

GrantsAsSpecified ==
    /\ \A n \in Namespaces : grants[Shared(n)].role = user.access[n]
    /\ config = "on" => grants[Personal].role = "editor"

GrantsConverge == <>[]Settled => <>[]GrantsAsSpecified

(* A User that stays disabled ends up without any managed grant, also when *)
(* the configuration or the personal namespace would fail the pass.        *)
DisabledLosesGrants ==
    <>[](user.phase = "live" /\ user.disabled) => <>[](Granted = {})

(* The personal grant is only ever given in a namespace that carries the   *)
(* UID of the very User the pass works for, and is not on its way out,     *)
(* although the namespace was looked up in a cache, calls earlier, and the *)
(* User may have been re-created, or the name taken by a stranger, since   *)
(* (reconcilePersonalNamespace, ensureRoleBinding).                        *)
PersonalGrantOwn ==
    [][grants[Personal].role = NoRole /\ grants'[Personal].role # NoRole
          => home.kind = "owned" /\ home.uid = inst.uid /\ ~home.deleting]_vars

=============================================================================
