------------------------- MODULE ImageCatalogProofs -------------------------
(***************************************************************************)
(* Proofs about ImageCatalog for any repositories and Images and for every *)
(* value of the bounds.                                                    *)
(***************************************************************************)
EXTENDS ImageCatalog, TLAPS

USE ConstantsAssumption

-----------------------------------------------------------------------------
(* The inductive invariant.                                                *)

(* The cache shows what it is not behind on, a pass whose copy is current  *)
(* has the server's version, and nobody asks for a commit that Git does    *)
(* not have; what a pass has cloned covers the request it has read.        *)
RequestsCovered ==
    /\ \A r \in Repos : /\ head[r] # 0
                        /\ repo[r].sync <= head[r]
                        /\ cache[r].sync <= head[r]
                        /\ r \notin lag => cache[r] = repo[r]
    /\ inst.sync <= head[me]
    /\ current => inst = repo[me]
    /\ pc \in {"read", "write", "prune", "clearSync"} => inst.sync <= commit

(* Until the files have all been looked at, a valid manifest is to be      *)
(* imported or has been; what is to be pruned is declared no more, and is  *)
(* the repository's own as long as nobody has written it.                  *)
InventoryComplete ==
    /\ pc \in {"read", "write"} =>
          \A i \in Images : snap[i] = "valid" => i \in todo \cup imported
    /\ pc = "prune" =>
          \A i \in todo : /\ ~Invalid /\ snap[i] = "absent"
                          /\ i \notin changed => image[i].owner = me

CatalogInvariant == RequestsCovered /\ InventoryComplete

-----------------------------------------------------------------------------
(* Types.                                                                  *)

LEMMA NewType == New \in Repository
BY DEF New, Repository

LEMMA NothingType == Nothing \in [Images -> Files]
BY DEF Nothing, Files

LEMMA NoImageType == NoImage \in Image
BY DEF NoImage, Image

LEMMA InitType == Init => TypeOK
<1> SUFFICES ASSUME Init PROVE TypeOK
  OBVIOUS
<1>1. tree \in [Repos -> [Images -> Files]] /\ repo \in [Repos -> Repository]
  BY NewType, NothingType DEF Init
<1> QED BY <1>1, NewType, NothingType, NoImageType DEF Init, TypeOK

LEMMA PutType ==
    ASSUME TypeOK, NEW o \in Repository, Put(o)
    PROVE  /\ repo' \in [Repos -> Repository] /\ cache' \in [Repos -> Repository]
           /\ lag' \subseteq Repos /\ due' \subseteq Repos
           /\ repo'[me] = o
           /\ \A r \in Repos \ {me} : repo'[r] = repo[r]
BY DEF TypeOK, Put

LEMMA EndPassType ==
    ASSUME TypeOK, EndPass
    PROVE  /\ pc' = "idle" /\ me' \in Repos /\ inst' \in Repository
           /\ current' \in BOOLEAN /\ snap' \in [Images -> Files]
           /\ commit' \in Nat /\ todo' \subseteq Images
           /\ imported' \subseteq Images /\ changed' \subseteq Images
BY NewType, NothingType DEF EndPass, TypeOK

(* What the steps write are ImageRepositories.                             *)
LEMMA WrittenType ==
    ASSUME TypeOK
    PROVE  /\ [inst EXCEPT !.ready = "False"] \in Repository
           /\ [inst EXCEPT !.sync = 0] \in Repository
           /\ SyncedStatus(inst) \in Repository
           /\ [inst EXCEPT !.ready = "False", !.observed = TRUE] \in Repository
           /\ \A r \in Repos :
                 /\ [repo[r] EXCEPT !.sync = head[r]] \in Repository
                 /\ [repo[r] EXCEPT !.suspend = ~@, !.observed = FALSE] \in Repository
<1>1. /\ [inst EXCEPT !.ready = "False"] \in Repository
      /\ [inst EXCEPT !.sync = 0] \in Repository
      /\ [inst EXCEPT !.ready = "False", !.observed = TRUE] \in Repository
  BY DEF TypeOK, Repository
<1>2. SyncedStatus(inst) \in Repository
  BY DEF TypeOK, Repository, SyncedStatus
<1>3. ASSUME NEW r \in Repos
      PROVE  /\ [repo[r] EXCEPT !.sync = head[r]] \in Repository
             /\ [repo[r] EXCEPT !.suspend = ~@, !.observed = FALSE] \in Repository
  <2>1. repo[r] \in Repository /\ head[r] \in Nat
    BY DEF TypeOK
  <2> QED BY <2>1 DEF Repository
<1> QED BY <1>1, <1>2, <1>3

LEMMA NextType ==
    ASSUME TypeOK, [Next]_vars
    PROVE  TypeOK'
<1> USE DEF git, objects, clone, work, counters
<1>1. CASE markSuspended
  BY <1>1, PutType, WrittenType, EndPassType DEF markSuspended, TypeOK
<1>2. CASE cloneRepo
  BY <1>2 DEF cloneRepo, TypeOK
<1>3. CASE readImage
  BY <1>3 DEF readImage, TypeOK
<1>4. CASE writeImage
  <2>1. /\ pc' \in {"read", "failed"} /\ todo' \subseteq Images
        /\ imported' \subseteq Images /\ changed' \subseteq Images
        /\ UNCHANGED <<git, objects, me, inst, current, clone, counters>>
    BY <1>4 DEF writeImage, Goto, TypeOK
  <2>2. image' \in [Images -> Image]
    <3>1. [live |-> TRUE, owner |-> me, by |-> me, commit |-> commit] \in Image
      BY DEF TypeOK, Image
    <3> QED BY <1>4, <3>1 DEF writeImage, TypeOK
  <2> QED BY <2>1, <2>2 DEF TypeOK
<1>5. CASE listImages
  BY <1>5 DEF listImages, Prunable, Goto, TypeOK
<1>6. CASE pruneImage
  <2>1. /\ pc' \in {"prune", "failed", "clearSync", "status"}
        /\ todo' \subseteq Images
        /\ UNCHANGED <<git, objects, me, inst, current, clone, imported, changed,
                       counters>>
    BY <1>6 DEF pruneImage, Goto, AfterPrune, TypeOK
  <2>2. image' \in [Images -> Image]
    BY <1>6, NoImageType DEF pruneImage, TypeOK
  <2> QED BY <2>1, <2>2 DEF TypeOK
<1>7. CASE clearSync
  <2>1. CASE current
    BY <1>7, <2>1, PutType, WrittenType DEF clearSync, TypeOK
  <2>2. CASE ~current
    BY <1>7, <2>2 DEF clearSync, TypeOK
  <2> QED BY <2>1, <2>2
<1>8. CASE writeStatus
  <2>1. /\ repo' \in [Repos -> Repository] /\ cache' \in [Repos -> Repository]
        /\ lag' \subseteq Repos /\ due' \subseteq Repos
    BY <1>8, WrittenType DEF writeStatus, TypeOK
  <2> QED BY <1>8, <2>1, EndPassType DEF writeStatus, TypeOK
<1>9. CASE writeFailure
  BY <1>9, PutType, WrittenType, EndPassType DEF writeFailure, TypeOK
<1>10. CASE CallFails
  <2>1. faults' \in Nat
    BY <1>10 DEF CallFails, TypeOK
  <2> QED BY <1>10, <2>1 DEF CallFails, Goto, TypeOK
<1>11. CASE Restart
  <2>1. faults' \in Nat
    BY <1>11 DEF Restart, TypeOK
  <2> QED BY <1>11, <2>1, EndPassType DEF Restart, TypeOK
<1>12. ASSUME NEW r \in Repos, Reconcile(r)
       PROVE  TypeOK'
  BY <1>12 DEF Reconcile, TypeOK
<1>13. ASSUME NEW r \in Repos, Push(r)
       PROVE  TypeOK'
  BY <1>13 DEF Push, TypeOK
<1>14. ASSUME NEW r \in Repos, RequestSync(r) \/ SuspendOrResume(r)
       PROVE  TypeOK'
  <2>1. PICK o \in Repository : RepoWritten(r, o)
    BY <1>14, WrittenType DEF RequestSync, SuspendOrResume
  <2>2. edits' \in Nat
    BY <2>1 DEF RepoWritten, Edit, TypeOK
  <2> QED BY <2>1, <2>2 DEF RepoWritten, TypeOK
<1>15. ASSUME NEW r \in Repos, DeliverRepo(r) \/ IntervalElapses(r)
       PROVE  TypeOK'
  BY <1>15 DEF DeliverRepo, IntervalElapses, TypeOK
<1>16. ASSUME NEW i \in Images, EditImage(i)
       PROVE  TypeOK'
  <2>1. edits' \in Nat
    BY <1>16 DEF EditImage, Edit, TypeOK
  <2>2. image' \in [Images -> Image]
    <3>1. \A o \in Repos \cup {NoRepo} :
              [live |-> TRUE, owner |-> o, by |-> NoRepo, commit |-> 0] \in Image
      BY DEF Image
    <3> QED BY <1>16, <3>1, NoImageType DEF EditImage, TypeOK
  <2> QED BY <1>16, <2>1, <2>2 DEF EditImage, TypeOK
<1>17. CASE UNCHANGED vars
  BY <1>17 DEF vars, TypeOK
<1> QED BY <1>1, <1>2, <1>3, <1>4, <1>5, <1>6, <1>7, <1>8, <1>9, <1>10,
           <1>11, <1>12, <1>13, <1>14, <1>15, <1>16, <1>17 DEF Next, Steps

-----------------------------------------------------------------------------
(* The invariant.                                                          *)

Cloned == {"read", "write", "prune", "clearSync"}

LEMMA InitInvariant == Init => CatalogInvariant
BY DEF Init, CatalogInvariant, RequestsCovered, InventoryComplete, New

(* A step that leaves the repositories and the clone alone.                *)
LEMMA RequestsKept ==
    ASSUME RequestsCovered, UNCHANGED <<head, repo, cache, lag, me, inst, current, commit>>,
           pc' \in Cloned => pc \in Cloned
    PROVE  RequestsCovered'
BY DEF RequestsCovered, Cloned

(* The end of a pass, after a write of the copy it read or without one.    *)
LEMMA PassEnded ==
    ASSUME TypeOK, CatalogInvariant, EndPass, UNCHANGED <<head, cache>>,
           \/ UNCHANGED <<repo, lag>>
           \/ \E o \in Repository : /\ o.sync = inst.sync
                                    /\ repo' = [repo EXCEPT ![me] = o]
                                    /\ lag' = lag \cup {me}
    PROVE  CatalogInvariant'
<1>1. /\ pc' = "idle" /\ me' = me /\ me \in Repos
      /\ inst'.sync = 0 /\ ~current'
  BY DEF EndPass, New, TypeOK
<1>2. head[me] \in Nat
  BY <1>1 DEF TypeOK
<1>3. RequestsCovered'
  <2>1. CASE UNCHANGED <<repo, lag>>
    BY <1>1, <1>2, <2>1 DEF CatalogInvariant, RequestsCovered
  <2>2. CASE \E o \in Repository : /\ o.sync = inst.sync
                                   /\ repo' = [repo EXCEPT ![me] = o]
                                   /\ lag' = lag \cup {me}
    <3>1. /\ repo'[me].sync = inst.sync
          /\ \A r \in Repos \ {me} : repo'[r] = repo[r]
      BY <1>1, <2>2 DEF TypeOK
    <3> QED BY <1>1, <1>2, <2>2, <3>1 DEF CatalogInvariant, RequestsCovered
  <2> QED BY <2>1, <2>2
<1>4. InventoryComplete'
  BY <1>1 DEF InventoryComplete
<1> QED BY <1>3, <1>4 DEF CatalogInvariant

LEMMA StepsInvariant ==
    ASSUME TypeOK, CatalogInvariant, Steps
    PROVE  CatalogInvariant'
<1> USE DEF git, objects, clone, work, counters
<1>1. CASE markSuspended
  <2>1. [inst EXCEPT !.ready = "False"].sync = inst.sync
    BY DEF TypeOK, Repository
  <2> QED BY <1>1, <2>1, WrittenType, PassEnded DEF markSuspended, Put
<1>2. CASE cloneRepo
  <2>1. RequestsCovered'
    BY <1>2 DEF cloneRepo, CatalogInvariant, RequestsCovered
  <2>2. InventoryComplete'
    BY <1>2 DEF cloneRepo, InventoryComplete, TypeOK
  <2> QED BY <2>1, <2>2 DEF CatalogInvariant
<1>3. CASE readImage
  <2>1. /\ pc = "read" /\ pc' \in {"read", "write"}
        /\ UNCHANGED <<git, objects, image, me, inst, current, clone, imported>>
        /\ \A i \in todo : snap[i] = "valid" => i \in todo'
    BY <1>3 DEF readImage
  <2>2. RequestsCovered'
    BY <2>1, RequestsKept DEF CatalogInvariant, Cloned
  <2>3. InventoryComplete'
    BY <2>1 DEF CatalogInvariant, InventoryComplete
  <2> QED BY <2>2, <2>3 DEF CatalogInvariant
<1>4. CASE writeImage
  <2>1. /\ pc = "write" /\ pc' \in {"read", "failed"}
        /\ UNCHANGED <<git, objects, me, inst, current, clone>>
        /\ todo \cup imported \subseteq todo' \cup imported'
    BY <1>4 DEF writeImage, Goto
  <2>2. RequestsCovered'
    BY <2>1, RequestsKept DEF CatalogInvariant, Cloned
  <2>3. InventoryComplete'
    BY <2>1 DEF CatalogInvariant, InventoryComplete
  <2> QED BY <2>2, <2>3 DEF CatalogInvariant
<1>5. CASE listImages
  <2>1. /\ pc = "read" /\ pc' = "prune" /\ todo = {} /\ todo' = Prunable
        /\ UNCHANGED <<git, objects, image, me, inst, current, clone, imported>>
    BY <1>5 DEF listImages, Goto
  <2>2. RequestsCovered'
    BY <2>1, RequestsKept DEF CatalogInvariant, Cloned
  <2>3. ASSUME NEW i \in Prunable
        PROVE  ~Invalid /\ snap[i] = "absent" /\ image[i].owner = me
    <3>1. i \in Images /\ ~Invalid /\ image[i].owner = me /\ i \notin imported
      BY DEF Prunable
    <3>2. snap[i] # "valid"
      BY <2>1, <3>1 DEF CatalogInvariant, InventoryComplete
    <3>3. snap[i] # "invalid"
      BY <3>1 DEF Invalid
    <3> QED BY <3>1, <3>2, <3>3 DEF TypeOK, Files
  <2>4. InventoryComplete'
    BY <2>1, <2>3 DEF InventoryComplete, Invalid
  <2> QED BY <2>2, <2>4 DEF CatalogInvariant
<1>6. CASE pruneImage
  <2>1. /\ pc = "prune" /\ pc' \in {"prune", "failed", "clearSync", "status"}
        /\ UNCHANGED <<git, objects, me, inst, current, clone, imported, changed>>
    BY <1>6 DEF pruneImage, Goto, AfterPrune
  <2>2. RequestsCovered'
    BY <2>1, RequestsKept DEF CatalogInvariant, Cloned
  <2>3. todo' \subseteq todo /\ \A i \in todo' : image'[i] = image[i]
    BY <1>6 DEF pruneImage, TypeOK
  <2>4. InventoryComplete'
    BY <2>1, <2>3 DEF CatalogInvariant, InventoryComplete, Invalid
  <2> QED BY <2>2, <2>4 DEF CatalogInvariant
<1>7. CASE clearSync
  <2>1. pc' = "status" /\ UNCHANGED <<git, image, me, current, clone, work, cache>>
    BY <1>7 DEF clearSync, Put
  <2>2. InventoryComplete'
    BY <2>1 DEF InventoryComplete
  <2>3. CASE current
    <3>1. /\ repo'[me].sync = 0 /\ inst' = repo'[me] /\ lag' = lag \cup {me}
          /\ \A r \in Repos \ {me} : repo'[r] = repo[r]
      <4> DEFINE o == [inst EXCEPT !.sync = 0]
      <4>1. o \in Repository /\ o.sync = 0
        BY WrittenType DEF TypeOK, Repository
      <4>2. Put(o) /\ inst' = repo'[me]
        BY <1>7, <2>3 DEF clearSync
      <4> HIDE DEF o
      <4> QED BY <4>1, <4>2, PutType DEF Put
    <3>2. \A r \in Repos : head[r] \in Nat
      BY DEF TypeOK
    <3>3. RequestsCovered'
      BY <2>1, <3>1, <3>2 DEF CatalogInvariant, RequestsCovered, TypeOK
    <3> QED BY <2>2, <3>3 DEF CatalogInvariant
  <2>4. CASE ~current
    BY <1>7, <2>1, <2>2, <2>4, RequestsKept DEF clearSync, CatalogInvariant, Cloned
  <2> QED BY <2>3, <2>4
<1>8. CASE writeStatus
  <2>1. SyncedStatus(inst).sync = inst.sync
    BY DEF TypeOK, Repository, SyncedStatus
  <2> QED BY <1>8, <2>1, WrittenType, PassEnded DEF writeStatus
<1>9. CASE writeFailure
  <2>1. [inst EXCEPT !.ready = "False", !.observed = TRUE].sync = inst.sync
    BY DEF TypeOK, Repository
  <2> QED BY <1>9, <2>1, WrittenType, PassEnded DEF writeFailure, Put
<1> QED BY <1>1, <1>2, <1>3, <1>4, <1>5, <1>6, <1>7, <1>8, <1>9 DEF Steps

LEMMA NextInvariant ==
    ASSUME TypeOK, CatalogInvariant, [Next]_vars
    PROVE  CatalogInvariant'
<1> USE DEF git, objects, clone, work, counters
<1>0. me \in Repos /\ \A r \in Repos : head[r] \in Nat
  BY DEF TypeOK
<1>1. CASE CallFails
  <2>1. pc' = "failed" /\ UNCHANGED <<head, repo, cache, lag, me, inst, current, commit>>
    BY <1>1 DEF CallFails, Goto
  <2> QED BY <2>1, RequestsKept DEF CatalogInvariant, InventoryComplete, Cloned
<1>2. CASE Restart
  BY <1>2, PassEnded DEF Restart
<1>3. ASSUME NEW r \in Repos, Reconcile(r)
      PROVE  CatalogInvariant'
  <2>1. /\ pc' \in {"suspended", "clone"} /\ me' = r /\ inst' = cache[r]
        /\ current' = (r \notin lag) /\ UNCHANGED <<git, objects>>
    BY <1>3 DEF Reconcile
  <2> QED BY <2>1 DEF CatalogInvariant, RequestsCovered, InventoryComplete
<1>4. ASSUME NEW r \in Repos, Push(r)
      PROVE  CatalogInvariant'
  <2>1. /\ \A q \in Repos : head'[q] \in {head[q], head[q] + 1}
        /\ UNCHANGED <<objects, image, pc, me, inst, current, clone, work>>
    BY <1>4 DEF Push, TypeOK
  <2>2. \A q \in Repos : repo[q].sync \in Nat /\ cache[q].sync \in Nat
    BY DEF TypeOK, Repository
  <2>3. inst.sync \in Nat
    BY DEF TypeOK, Repository
  <2>4. RequestsCovered'
    BY <1>0, <2>1, <2>2, <2>3 DEF CatalogInvariant, RequestsCovered
  <2>5. InventoryComplete'
    BY <2>1 DEF CatalogInvariant, InventoryComplete, Invalid
  <2> QED BY <2>4, <2>5 DEF CatalogInvariant
<1>5. ASSUME NEW r \in Repos, RequestSync(r) \/ SuspendOrResume(r)
      PROVE  CatalogInvariant'
  <2>1. PICK o \in Repository : RepoWritten(r, o) /\ o.sync <= head[r]
    <3>1. repo[r] \in Repository /\ head[r] \in Nat /\ repo[r].sync <= head[r]
      BY DEF TypeOK, CatalogInvariant, RequestsCovered
    <3>2. [repo[r] EXCEPT !.sync = head[r]].sync <= head[r]
      BY <3>1 DEF Repository
    <3>3. [repo[r] EXCEPT !.suspend = ~@, !.observed = FALSE].sync = repo[r].sync
      BY <3>1 DEF Repository
    <3>4. CASE RequestSync(r)
      BY <3>2, <3>4, WrittenType, Zenon DEF RequestSync
    <3>5. CASE SuspendOrResume(r)
      BY <3>1, <3>3, <3>5, WrittenType DEF SuspendOrResume
    <3> QED BY <1>5, <3>4, <3>5
  <2>2. /\ repo'[r] = o /\ \A q \in Repos \ {r} : repo'[q] = repo[q]
        /\ lag' = lag \cup {r} /\ current' = (current /\ r # me)
        /\ UNCHANGED <<git, cache, image, pc, me, inst, clone, work>>
    BY <2>1 DEF RepoWritten, TypeOK
  <2>3. RequestsCovered'
    BY <1>0, <2>1, <2>2 DEF CatalogInvariant, RequestsCovered
  <2>4. InventoryComplete'
    BY <2>2 DEF CatalogInvariant, InventoryComplete, Invalid
  <2> QED BY <2>3, <2>4 DEF CatalogInvariant
<1>6. ASSUME NEW r \in Repos, DeliverRepo(r)
      PROVE  CatalogInvariant'
  <2>1. /\ cache'[r] = repo[r] /\ \A q \in Repos \ {r} : cache'[q] = cache[q]
        /\ lag' = lag \ {r}
        /\ UNCHANGED <<git, repo, image, pc, me, inst, current, clone, work>>
    BY <1>6 DEF DeliverRepo, TypeOK
  <2>2. RequestsCovered'
    BY <2>1 DEF CatalogInvariant, RequestsCovered
  <2>3. InventoryComplete'
    BY <2>1 DEF CatalogInvariant, InventoryComplete, Invalid
  <2> QED BY <2>2, <2>3 DEF CatalogInvariant
<1>7. ASSUME NEW r \in Repos, IntervalElapses(r)
      PROVE  CatalogInvariant'
  BY <1>7, RequestsKept DEF IntervalElapses, CatalogInvariant,
                            InventoryComplete, Invalid
<1>8. ASSUME NEW i \in Images, EditImage(i)
      PROVE  CatalogInvariant'
  <2>1. /\ UNCHANGED <<git, objects, pc, me, inst, current, clone, todo, imported>>
        /\ changed' = IF pc \in {"write", "prune"} THEN changed \cup {i} ELSE changed
        /\ \A j \in Images \ {i} : image'[j] = image[j]
    BY <1>8 DEF EditImage, TypeOK
  <2>2. RequestsCovered'
    BY <2>1, RequestsKept DEF CatalogInvariant
  <2>3. InventoryComplete'
    BY <2>1 DEF CatalogInvariant, InventoryComplete, Invalid, TypeOK
  <2> QED BY <2>2, <2>3 DEF CatalogInvariant
<1>9. CASE UNCHANGED vars
  BY <1>9, RequestsKept DEF vars, CatalogInvariant, InventoryComplete, Invalid
<1> QED BY <1>1, <1>2, <1>3, <1>4, <1>5, <1>6, <1>7, <1>8, <1>9,
           StepsInvariant DEF Next

-----------------------------------------------------------------------------
(* Theorems.                                                               *)

(* Every reachable state has the stated types and satisfies the inductive  *)
(* invariant: no request asks for more than Git has, a pass that has       *)
(* cloned covers the request it read, and what it is about to prune is     *)
(* declared no more and its own unless somebody has written it since.      *)
THEOREM CatalogInvariantHolds == Spec => [](TypeOK /\ CatalogInvariant)
<1>1. Init => TypeOK /\ CatalogInvariant
  BY InitType, InitInvariant
<1>2. TypeOK /\ CatalogInvariant /\ [Next]_vars => (TypeOK /\ CatalogInvariant)'
  BY NextType, NextInvariant
<1> QED BY <1>1, <1>2, PTL DEF Spec

(* A sync deletes only Images that are its repository's at that moment and *)
(* that the complete inventory of the cloned commit does not declare, also *)
(* when people write Images between the list and the deletion (syncRepo).  *)
THEOREM PrunesOnlyOwnHolds == Spec => PrunesOnlyOwn
<1> DEFINE A == \A i \in Images : pc = "prune" /\ image[i].live /\ ~image'[i].live
                                     /\ edits' = edits
                   => image[i].owner = me /\ snap[i] = "absent" /\ ~Invalid
<1>1. ASSUME TypeOK, CatalogInvariant, [Next]_vars
      PROVE  A
  <2> USE <1>1 DEF git, objects, clone, work, counters
  <2> SUFFICES ASSUME NEW i \in Images, pc = "prune", image[i].live,
                      ~image'[i].live, edits' = edits
               PROVE  image[i].owner = me /\ snap[i] = "absent" /\ ~Invalid
    OBVIOUS
  <2>1. CASE pruneImage
    <3>1. i \in todo /\ i \notin changed
      BY <2>1 DEF pruneImage, TypeOK
    <3> QED BY <3>1 DEF CatalogInvariant, InventoryComplete
  <2>2. ASSUME NEW j \in Images PROVE ~EditImage(j)
    BY DEF EditImage, Edit, TypeOK
  <2>3. ~UNCHANGED image
    OBVIOUS
  <2> QED
    BY <2>1, <2>2, <2>3 DEF Next, Steps, markSuspended, cloneRepo, readImage,
       writeImage, listImages, clearSync, writeStatus, writeFailure, CallFails,
       Restart, Reconcile, Push, RequestSync, SuspendOrResume, RepoWritten,
       DeliverRepo, IntervalElapses, vars
<1>2. TypeOK /\ CatalogInvariant /\ [Next]_vars => [A]_vars
  BY <1>1
<1> HIDE DEF A
<1>3. Spec => [][A]_vars
  BY <1>2, CatalogInvariantHolds, PTL DEF Spec
<1> QED BY <1>3 DEF A, PrunesOnlyOwn

(* A manual sync request is removed only by a sync that cloned the commit  *)
(* it asked for or a later one: a request made during a sync survives it   *)
(* (Reconcile).                                                            *)
THEOREM SyncRequestHonouredHolds == Spec => SyncRequestHonoured
<1> DEFINE A == \A r \in Repos : repo[r].sync # 0 /\ repo'[r].sync = 0
                   => me = r /\ commit >= repo[r].sync
<1>1. ASSUME TypeOK, CatalogInvariant, [Next]_vars
      PROVE  A
  <2> USE <1>1 DEF git, objects, clone, work, counters
  <2> SUFFICES ASSUME NEW r \in Repos, repo[r].sync # 0, repo'[r].sync = 0
               PROVE  me = r /\ commit >= repo[r].sync
    OBVIOUS
  <2>0. me \in Repos /\ repo[me] \in Repository /\ inst \in Repository
        /\ (current => inst = repo[me])
    BY DEF TypeOK, CatalogInvariant, RequestsCovered
  <2>1. CASE clearSync
    <3>1. CASE current
      <4>1. me = r
        BY <2>1, <3>1 DEF clearSync, Put, TypeOK
      <4>2. inst.sync <= commit /\ inst = repo[me]
        BY <2>1, <3>1 DEF clearSync, CatalogInvariant, RequestsCovered
      <4> QED BY <4>1, <4>2 DEF TypeOK, Repository
    <3>2. CASE ~current
      BY <2>1, <3>2 DEF clearSync
    <3> QED BY <3>1, <3>2
  <2>2. ASSUME NEW o \in Repository, o.sync = inst.sync, current,
               repo' = [repo EXCEPT ![me] = o]
        PROVE  FALSE
    BY <2>0, <2>2 DEF TypeOK
  <2>3. ~markSuspended
    <3>1. [inst EXCEPT !.ready = "False"].sync = inst.sync
      BY <2>0 DEF Repository
    <3> QED BY <2>2, <3>1, WrittenType DEF markSuspended, Put
  <2>4. ~writeStatus
    <3>1. SyncedStatus(inst).sync = inst.sync
      BY <2>0 DEF Repository, SyncedStatus
    <3> QED BY <2>2, <3>1, WrittenType DEF writeStatus
  <2>5. ~writeFailure
    <3>1. [inst EXCEPT !.ready = "False", !.observed = TRUE].sync = inst.sync
      BY <2>0 DEF Repository
    <3> QED BY <2>2, <3>1, WrittenType DEF writeFailure, Put
  <2>6. ASSUME NEW q \in Repos PROVE ~RequestSync(q) /\ ~SuspendOrResume(q)
    <3>1. repo[q] \in Repository /\ head[q] # 0
      BY DEF TypeOK, CatalogInvariant, RequestsCovered
    <3>2. [repo[q] EXCEPT !.sync = head[q]].sync # 0
      BY <3>1 DEF Repository
    <3>3. [repo[q] EXCEPT !.suspend = ~@, !.observed = FALSE].sync = repo[q].sync
      BY <3>1 DEF Repository
    <3> QED BY <3>1, <3>2, <3>3 DEF RequestSync, SuspendOrResume, RepoWritten, TypeOK
  <2>7. ~UNCHANGED repo
    OBVIOUS
  <2> QED
    BY <2>1, <2>3, <2>4, <2>5, <2>6, <2>7 DEF Next, Steps, cloneRepo, readImage,
       writeImage, listImages, pruneImage, CallFails, Restart, Reconcile, Push,
       EditImage, DeliverRepo, IntervalElapses, vars
<1>2. TypeOK /\ CatalogInvariant /\ [Next]_vars => [A]_vars
  BY <1>1
<1> HIDE DEF A
<1>3. Spec => [][A]_vars
  BY <1>2, CatalogInvariantHolds, PTL DEF Spec
<1> QED BY <1>3 DEF A, SyncRequestHonoured

=============================================================================
