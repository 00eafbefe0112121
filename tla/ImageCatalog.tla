---------------------------- MODULE ImageCatalog ----------------------------
(***************************************************************************)
(* ImageRepositories that import Image manifests from Git into one cluster *)
(* wide catalog.  Several repositories and people write the same Images; a *)
(* label names the repository an Image is assigned to, and a repository    *)
(* prunes what it is assigned but no longer declares.                      *)
(*                                                                         *)
(* One worker runs one sync at a time.  The ImageRepository comes from a   *)
(* cache that may be behind; Images are unstructured and read live, each   *)
(* with a call of its own.  What matters of a resourceVersion is whether   *)
(* the object was written after the pass read it.                          *)
(***************************************************************************)
EXTENDS Integers

CONSTANTS
    Repos,        \* ImageRepositories
    Images,       \* Image names, one manifest file each
    NoRepo,       \* an Image assigned to no repository, a spec from no Git
    MaxCommits,   \* commits pushed to the Git repositories
    MaxEdits,     \* writes by people to ImageRepositories and Images
    MaxFaults     \* clones and calls that fail, and restarts

ASSUME ConstantsAssumption ==
    /\ NoRepo \notin Repos
    /\ MaxCommits \in Nat /\ MaxEdits \in Nat /\ MaxFaults \in Nat

VARIABLES
    tree, head,   \* the files of each Git repository, and its last commit
    repo, cache,  \* ImageRepository objects, and what the cache holds
    lag,          \* repositories the cache is behind on
    due,          \* repositories whose sync interval has run out
    image,        \* Image objects
    pc, me, inst, \* the step of the pass, its repository and its copy
    current,      \* that copy is the server's version
    snap, commit, \* the files and the commit it cloned
    todo,         \* files to import, then Images to prune
    imported,     \* Images it has imported
    changed,      \* Images written by others since the pass read them
    edits, faults

vars == <<tree, head, repo, cache, lag, due, image, pc, me, inst, current,
          snap, commit, todo, imported, changed, edits, faults>>
git == <<tree, head>>
objects == <<repo, cache, lag, due>>
clone == <<snap, commit>>
work == <<todo, imported, changed>>
counters == <<edits, faults>>

Files == {"absent", "valid", "invalid"}
Repository == [sync : Nat, suspend : BOOLEAN, observed : BOOLEAN,
               ready : {"none", "True", "False"}, synced : Nat]
Image == [live : BOOLEAN, owner : Repos \cup {NoRepo},
          by : Repos \cup {NoRepo}, commit : Nat]

TypeOK ==
    /\ tree \in [Repos -> [Images -> Files]]
    /\ head \in [Repos -> Nat]
    /\ repo \in [Repos -> Repository]
    /\ cache \in [Repos -> Repository]
    /\ lag \subseteq Repos
    /\ due \subseteq Repos
    /\ image \in [Images -> Image]
    /\ pc \in {"idle", "suspended", "clone", "read", "write", "prune",
               "clearSync", "status", "failed"}
    /\ me \in Repos
    /\ inst \in Repository
    /\ current \in BOOLEAN
    /\ snap \in [Images -> Files]
    /\ commit \in Nat
    /\ todo \subseteq Images
    /\ imported \subseteq Images
    /\ changed \subseteq Images
    /\ edits \in Nat /\ faults \in Nat

New == [sync |-> 0, suspend |-> FALSE, observed |-> FALSE, ready |-> "none",
        synced |-> 0]
Nothing == [i \in Images |-> "absent"]
NoImage == [live |-> FALSE, owner |-> NoRepo, by |-> NoRepo, commit |-> 0]

Init ==
    /\ tree = [r \in Repos |-> Nothing]
    /\ head = [r \in Repos |-> 1]
    /\ repo = [r \in Repos |-> New] /\ cache = repo
    /\ lag = {} /\ due = {}
    /\ image = [i \in Images |-> NoImage]
    /\ pc = "idle" /\ me \in Repos /\ inst = New /\ current = FALSE
    /\ snap = Nothing /\ commit = 0
    /\ todo = {} /\ imported = {} /\ changed = {}
    /\ edits = 0 /\ faults = 0

-----------------------------------------------------------------------------
(* The pass.                                                               *)

EndPass ==
    /\ pc' = "idle" /\ inst' = New /\ current' = FALSE
    /\ snap' = Nothing /\ commit' = 0
    /\ todo' = {} /\ imported' = {} /\ changed' = {}
    /\ UNCHANGED me

Goto(step) == pc' = step /\ UNCHANGED <<me, inst, current, clone>>

(* A guarded write of the pass to its ImageRepository.                     *)
Put(o) ==
    /\ repo' = [repo EXCEPT ![me] = o]
    /\ lag' = lag \cup {me}
    /\ UNCHANGED <<cache, due>>

(* Mutant: what has once been synced is left alone.                        *)
NeedsSyncOnce(r, o) == o.sync # 0 \/ ~o.observed \/ o.ready # "True"

(* Skipped when synced recently and successfully, unless a sync is asked   *)
(* for or the specification has changed.                                   *)
NeedsSync(r, o) ==
    o.sync # 0 \/ ~o.observed \/ o.ready # "True" \/ r \in due

Reconcile(r) ==
    /\ pc = "idle"
    /\ \/ cache[r].suspend /\ cache[r].ready # "False" /\ pc' = "suspended"
       \/ ~cache[r].suspend /\ NeedsSync(r, cache[r]) /\ pc' = "clone"
    /\ me' = r
    /\ inst' = cache[r]
    /\ current' = (r \notin lag)
    /\ UNCHANGED <<git, objects, image, clone, work, counters>>

markSuspended ==
    /\ pc = "suspended"
    /\ IF current THEN Put([inst EXCEPT !.ready = "False"]) ELSE UNCHANGED objects
    /\ EndPass
    /\ UNCHANGED <<git, image, counters>>

(* syncRepo clones the repository and lists the manifests.                 *)
cloneRepo ==
    /\ pc = "clone"
    /\ snap' = tree[me]
    /\ commit' = head[me]
    /\ todo' = {i \in Images : tree[me][i] # "absent"}
    /\ pc' = "read"
    /\ UNCHANGED <<git, objects, image, me, inst, current, imported, changed, counters>>

Invalid == \E i \in Images : snap[i] = "invalid"

(* syncImageFile: a malformed file is noted and skipped (the order among   *)
(* files makes no difference to it); otherwise an Image is read ...        *)
readImage ==
    /\ pc = "read"
    /\ \E i \in todo :
          \/ /\ snap[i] = "invalid"
             /\ todo' = todo \ {i}
             /\ UNCHANGED <<pc, imported, changed>>
          \/ /\ snap[i] = "valid"
             /\ \A j \in todo : snap[j] # "invalid"
             /\ changed' = {}
             /\ pc' = "write"
             /\ UNCHANGED <<todo, imported>>
    /\ UNCHANGED <<git, objects, image, me, inst, current, clone, counters>>

(* ... and created, or adopted in place, whoever it is assigned to.  One   *)
(* written meanwhile is tried again, until the retries run out.            *)
writeImage ==
    /\ pc = "write"
    /\ \E i \in todo :
          \/ /\ i \notin changed
             /\ image' = [image EXCEPT ![i] =
                             [live |-> TRUE, owner |-> me, by |-> me, commit |-> commit]]
             /\ imported' = imported \cup {i}
             /\ todo' = todo \ {i}
             /\ changed' = {}
             /\ Goto("read")
          \/ /\ i \in changed
             /\ Goto("read")
             /\ UNCHANGED <<image, work>>
          \/ /\ i \in changed
             /\ Goto("failed")
             /\ UNCHANGED <<image, work>>
    /\ UNCHANGED <<git, objects, counters>>

(* Mutant: the Images that were imported are kept, invalid files or not.   *)
PrunableAnyway == {i \in Images : image[i].live /\ image[i].owner = me} \ imported

(* What is assigned to this repository and not declared by it any more;    *)
(* nothing as long as the inventory is incomplete.                         *)
Prunable ==
    IF Invalid THEN {} ELSE {i \in Images : image[i].live /\ image[i].owner = me} \ imported

listImages ==
    /\ pc = "read"
    /\ todo = {}
    /\ todo' = Prunable
    /\ changed' = {}
    /\ Goto("prune")
    /\ UNCHANGED <<git, objects, image, imported, counters>>

AfterPrune == IF inst.sync # 0 THEN "clearSync" ELSE "status"

(* Mutant: the deletion names the Image without UID and resourceVersion.   *)
pruneImageBlindly ==
    /\ pc = "prune"
    /\ \/ \E i \in todo :
             /\ image' = [image EXCEPT ![i] = NoImage]
             /\ todo' = todo \ {i}
             /\ UNCHANGED <<pc, me, inst, current, clone, imported, changed>>
       \/ /\ todo = {}
          /\ Goto(AfterPrune)
          /\ UNCHANGED <<image, work>>
    /\ UNCHANGED <<git, objects, counters>>

(* Each deletion carries UID and resourceVersion of the list.              *)
pruneImage ==
    /\ pc = "prune"
    /\ \/ \E i \in todo :
             \/ /\ i \notin changed \/ ~image[i].live
                /\ image' = [image EXCEPT ![i] = NoImage]
                /\ todo' = todo \ {i}
                /\ UNCHANGED <<pc, me, inst, current, clone, imported, changed>>
             \/ /\ i \in changed /\ image[i].live
                /\ Goto("failed")
                /\ UNCHANGED <<image, work>>
       \/ /\ todo = {}
          /\ Goto(AfterPrune)
          /\ UNCHANGED <<image, work>>
    /\ UNCHANGED <<git, objects, counters>>

(* Mutant: the annotation is removed from whatever version there is.       *)
clearSyncAnyway ==
    /\ pc = "clearSync"
    /\ Put([repo[me] EXCEPT !.sync = 0])
    /\ inst' = repo'[me]
    /\ current' = TRUE
    /\ pc' = "status"
    /\ UNCHANGED <<git, image, me, clone, work, counters>>

(* The request is removed after the sync; a refusal is only logged.        *)
clearSync ==
    /\ pc = "clearSync"
    /\ \/ /\ current
          /\ Put([inst EXCEPT !.sync = 0])
          /\ inst' = repo'[me]
       \/ ~current /\ UNCHANGED <<objects, inst>>
    /\ pc' = "status"
    /\ UNCHANGED <<git, image, me, current, clone, work, counters>>

SyncedStatus(o) ==
    [o EXCEPT !.ready = IF Invalid THEN "False" ELSE "True",
              !.observed = TRUE, !.synced = commit]

writeStatus ==
    /\ pc = "status"
    /\ \/ /\ current
          /\ repo' = [repo EXCEPT ![me] = SyncedStatus(inst)]
          /\ lag' = lag \cup {me}
          /\ due' = due \ {me}
          /\ UNCHANGED cache
       \/ ~current /\ UNCHANGED objects
    /\ EndPass
    /\ UNCHANGED <<git, image, counters>>

(* A failed sync is recorded when possible, and retried.                   *)
writeFailure ==
    /\ pc = "failed"
    /\ IF current
       THEN Put([inst EXCEPT !.ready = "False", !.observed = TRUE])
       ELSE UNCHANGED objects
    /\ EndPass
    /\ UNCHANGED <<git, image, counters>>

(* A clone or an API call fails, or the process restarts.                  *)
CallFails ==
    /\ pc \in {"clone", "read", "write", "prune"}
    /\ faults < MaxFaults
    /\ faults' = faults + 1
    /\ Goto("failed")
    /\ UNCHANGED <<git, objects, image, work, edits>>

Restart ==
    /\ pc # "idle"
    /\ faults < MaxFaults
    /\ faults' = faults + 1
    /\ EndPass
    /\ UNCHANGED <<git, objects, image, edits>>

Steps ==
    \/ markSuspended \/ cloneRepo \/ readImage \/ writeImage \/ listImages
    \/ pruneImage \/ clearSync \/ writeStatus \/ writeFailure

-----------------------------------------------------------------------------
(* Git, people, and the watch.                                             *)

Push(r) ==
    /\ head[r] <= MaxCommits
    /\ head' = [head EXCEPT ![r] = @ + 1]
    /\ \E t \in [Images -> Files] : tree' = [tree EXCEPT ![r] = t]
    /\ UNCHANGED <<objects, image, pc, me, inst, current, clone, work, counters>>

Edit == edits < MaxEdits /\ edits' = edits + 1

RepoWritten(r, o) ==
    /\ Edit
    /\ repo' = [repo EXCEPT ![r] = o]
    /\ lag' = lag \cup {r}
    /\ current' = (current /\ r # me)
    /\ UNCHANGED <<git, cache, due, image, pc, me, inst, clone, work, faults>>

(* The annotation's value: the commit its author wants to see imported.    *)
RequestSync(r) ==
    RepoWritten(r, [repo[r] EXCEPT !.sync = head[r]])

SuspendOrResume(r) ==
    RepoWritten(r, [repo[r] EXCEPT !.suspend = ~@, !.observed = FALSE])

(* Somebody creates, edits, relabels or deletes an Image.                  *)
EditImage(i) ==
    /\ Edit
    /\ \/ /\ image[i].live
          /\ image' = [image EXCEPT ![i] = NoImage]
       \/ \E o \in Repos \cup {NoRepo} :
             image' = [image EXCEPT ![i] = [live |-> TRUE, owner |-> o, by |-> NoRepo, commit |-> 0]]
    /\ changed' = IF pc \in {"write", "prune"} THEN changed \cup {i} ELSE changed
    /\ UNCHANGED <<git, objects, pc, me, inst, current, clone, todo, imported, faults>>

DeliverRepo(r) ==
    /\ r \in lag
    /\ cache' = [cache EXCEPT ![r] = repo[r]]
    /\ lag' = lag \ {r}
    /\ UNCHANGED <<git, repo, due, image, pc, me, inst, current, clone, work, counters>>

IntervalElapses(r) ==
    /\ r \notin due
    /\ due' = due \cup {r}
    /\ UNCHANGED <<git, repo, cache, lag, image, pc, me, inst, current, clone, work, counters>>

Next ==
    \/ Steps \/ CallFails \/ Restart
    \/ \E r \in Repos :
          \/ Reconcile(r) \/ Push(r) \/ RequestSync(r) \/ SuspendOrResume(r)
          \/ DeliverRepo(r) \/ IntervalElapses(r)
    \/ \E i \in Images : EditImage(i)

Spec == Init /\ [][Next]_vars

(* Syncs recur at the interval and are retried after a failure; the watch  *)
(* delivers.                                                               *)
FairSpec ==
    /\ Spec
    /\ WF_vars(Steps)
    /\ \A r \in Repos : /\ SF_vars(Reconcile(r))
                        /\ WF_vars(DeliverRepo(r))
                        /\ WF_vars(IntervalElapses(r))

-----------------------------------------------------------------------------
(* Properties.                                                             *)

(* A sync deletes only Images assigned to its own repository at that very  *)
(* moment, whose manifest is not in the commit it cloned, and none when    *)
(* any manifest of that commit could not be read, although people relabel  *)
(* and edit Images between the list and the deletion (syncRepo).           *)
PrunesOnlyOwn ==
    [][\A i \in Images : pc = "prune" /\ image[i].live /\ ~image'[i].live
                            /\ edits' = edits
          => image[i].owner = me /\ snap[i] = "absent" /\ ~Invalid]_vars

(* A manual sync request goes away only when the commit it asked for, or a *)
(* later one, has been cloned and imported: a request made while a sync is *)
(* under way is not lost (Reconcile).                                      *)
SyncRequestHonoured ==
    [][\A r \in Repos : repo[r].sync # 0 /\ repo'[r].sync = 0
          => me = r /\ commit >= repo[r].sync]_vars

(* Once pushes and edits stop, a repository that is not suspended and has  *)
(* only valid manifests owns an up-to-date Image for each of them and no   *)
(* other, also after Images were edited or removed by hand.                *)
UpToDate(r) ==
    \A i \in Images :
        IF tree[r][i] = "valid"
        THEN image[i] = [live |-> TRUE, owner |-> r, by |-> r, commit |-> head[r]]
        ELSE ~(image[i].live /\ image[i].owner = r)

CatalogConverges ==
    \A r \in Repos :
        <>[](~repo[r].suspend /\ \A i \in Images : tree[r][i] # "invalid")
            => <>[]UpToDate(r)

=============================================================================
