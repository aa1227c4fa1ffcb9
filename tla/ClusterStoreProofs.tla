------------------------ MODULE ClusterStoreProofs ------------------------
(***************************************************************************)
(* Theorems about ClusterStore: its types, and that it lists nothing that  *)
(* was not uploaded and nothing twice, for any number of overlapping       *)
(* commands; that an add takes effect and that the store changes as        *)
(* StoreContents says, for one terminal; and what a remove takes out.      *)
(***************************************************************************)
EXTENDS ClusterStore, MergePatchProofs, FiniteSetTheorems

-----------------------------------------------------------------------------
(* The helpers *)

\* A patch of a spec either leaves the list of sources alone or replaces it
\* whole: the server never merges two lists.
LEMMA PatchIsAllOrNothing ==
  ASSUME NEW s \in [sources: Sources], NEW b \in [sources: Sources], NEW n \in [sources: Sources]
  PROVE  ApplyMergePatch(s, CreatePatch(b, n)) \in {s, n}
<1> DEFINE patch == CreatePatch(b, n)
<1>1. DOMAIN b = {"sources"} /\ DOMAIN n = {"sources"} /\ DOMAIN s = {"sources"}
  OBVIOUS
<1>2. patch = [f \in {g \in {"sources"} : b[g] # n[g]} |-> n[f]]
  BY <1>1 DEF CreatePatch
<1>3. ApplyMergePatch(s, patch)
        = [f \in {"sources"} |-> IF f \in DOMAIN patch THEN patch[f] ELSE s[f]]
  BY <1>1 DEF ApplyMergePatch
<1>4. CASE b.sources = n.sources
  <2>1. ApplyMergePatch(s, patch) = [f \in {"sources"} |-> s[f]]
    BY <1>2, <1>3, <1>4
  <2> QED
    BY <1>1, <2>1
<1>5. CASE b.sources # n.sources
  <2>1. ApplyMergePatch(s, patch) = [f \in {"sources"} |-> n[f]]
    BY <1>2, <1>3, <1>5
  <2> QED
    BY <1>1, <2>1
<1> QED
  BY <1>4, <1>5

\* RemoveFromStore returns a list, and lists no image more often than before.
LEMMA RemoveSourcesShrinks ==
  ASSUME NEW s \in Sources, NEW bps \in Seq(Buildpacks), NEW f
  PROVE  /\ RemoveSources(s, bps, f) \in Sources
         /\ \A i \in Images : RemoveSources(s, bps, f)[i] <= s[i]
<1> DEFINE Hits(i) == {k \in DOMAIN bps : f[bps[k]] = i}
           n(i) == Cardinality(Hits(i))
<1>1. IsFiniteSet(DOMAIN bps)
  <2>1. DOMAIN bps = 1..Len(bps)
    OBVIOUS
  <2> QED
    BY <2>1, FS_Interval
<1>2. \A i \in Images : n(i) \in Nat
  BY <1>1, FS_Subset, FS_CardinalityType
<1>3. RemoveSources(s, bps, f) = [i \in Images |-> IF n(i) <= s[i] THEN s[i] - n(i) ELSE 0]
  BY DEF RemoveSources
<1> HIDE DEF n
<1>4. \A i \in Images : /\ (IF n(i) <= s[i] THEN s[i] - n(i) ELSE 0) \in Nat
                        /\ (IF n(i) <= s[i] THEN s[i] - n(i) ELSE 0) <= s[i]
  BY <1>2 DEF Sources
<1> QED
  BY <1>3, <1>4 DEF Sources

LEMMA AppendSourceType ==
  ASSUME NEW s \in Sources, NEW i \in Images
  PROVE  AppendSource(s, i) \in Sources /\ AddSource(s, i) \in Sources
  BY DEF AppendSource, AddSource, Sources

-----------------------------------------------------------------------------
(* Types *)

\* Uploads have somewhere to go to: ReadConfig fails without a default repository
\* and skips the loop without buildpackages.  TypeOK needs this to be inductive.
UploadReady == \A p \in Procs : pc[p] = "upload" => dest[p] \in Repos /\ todo[p] # <<>>

TypeInv == TypeOK /\ UploadReady

\* save becomes add or create, and stays a command line.
LEMMA KindChanges ==
  ASSUME NEW c \in CommandType, NEW k \in Kinds
  PROVE  [c EXCEPT !.kind = k] \in CommandType
  BY DEF CommandType

LEMMA TypeInvInductive == Spec => []TypeInv
<1>1. Init => TypeInv
  BY DEF Init, TypeInv, TypeOK, UploadReady, PCs, NoCommand, CommandType, Kinds, Modes, NoStore, NoStatus, Status,
         Spec1, NoSources, Sources
<1>2. TypeInv /\ [Next]_vars => TypeInv'
  <2> SUFFICES ASSUME TypeInv, [Next]_vars
               PROVE  TypeInv'
    OBVIOUS
  <2> USE DEF TypeInv, TypeOK, UploadReady, Goto, Succeed, Fail, locals
  <2>1. ASSUME NEW p \in Procs, Start(p)
        PROVE  TypeInv'
    BY <2>1, CommandsAssumption DEF Start, CommandType, Kinds, PCs
  <2>2. ASSUME NEW p \in Procs, GetForUpdate(p)
        PROVE  TypeInv'
    <3>1. CASE store.exists
      <4>1. /\ base' = [base EXCEPT ![p] = store.spec]
            /\ next' = [next EXCEPT ![p] = store.spec]
            /\ cmd' = [cmd EXCEPT ![p].kind = "add"]
            /\ pc' = [pc EXCEPT ![p] = "config"]
            /\ UNCHANGED <<repo, registry, store, todo, dest, want>>
        BY <2>2, <3>1 DEF GetForUpdate
      <4>2. cmd[p] \in CommandType /\ cmd \in [Procs -> CommandType]
        OBVIOUS
      <4>3. [cmd[p] EXCEPT !.kind = "add"] \in CommandType
        BY <4>2, KindChanges DEF Kinds
      <4>4. cmd' \in [Procs -> CommandType]
        BY <4>1, <4>2, <4>3, Zenon
      <4> QED
        BY <4>1, <4>4 DEF PCs
    <3>2. CASE ~store.exists /\ cmd[p].kind = "save"
      <4>1. /\ cmd' = [cmd EXCEPT ![p].kind = "create"]
            /\ pc' = [pc EXCEPT ![p] = "config"]
            /\ UNCHANGED <<repo, registry, store, todo, dest, base, next, want>>
        BY <2>2, <3>2 DEF GetForUpdate
      <4>2. cmd[p] \in CommandType /\ cmd \in [Procs -> CommandType]
        OBVIOUS
      <4>3. [cmd[p] EXCEPT !.kind = "create"] \in CommandType
        BY <4>2, KindChanges DEF Kinds
      <4>4. cmd' \in [Procs -> CommandType]
        BY <4>1, <4>2, <4>3, Zenon
      <4> QED
        BY <4>1, <4>4 DEF PCs
    <3>3. CASE ~store.exists /\ cmd[p].kind # "save"
      BY <2>2, <3>3 DEF GetForUpdate, PCs
    <3> QED
      BY <3>1, <3>2, <3>3
  <2>3. ASSUME NEW p \in Procs, GetForRemove(p)
        PROVE  TypeInv'
    <3>1. CASE Fail(p)
      BY <3>1 DEF PCs
    <3>2. CASE ~Fail(p)
      <4>1. PICK f : next' = [next EXCEPT ![p] =
                       Spec1(RemoveSources(store.spec.sources, cmd[p].buildpacks, f))]
        BY <2>3, <3>2 DEF GetForRemove
      <4>2. store.spec.sources \in Sources /\ cmd[p].buildpacks \in Seq(Buildpacks)
        BY DEF CommandType
      <4>3. RemoveSources(store.spec.sources, cmd[p].buildpacks, f) \in Sources
        BY <4>2, RemoveSourcesShrinks
      <4>4. next' \in [Procs -> [sources: Sources]]
        BY <4>1, <4>3 DEF Spec1
      <4> QED
        BY <2>3, <3>2, <4>4 DEF GetForRemove, PCs
    <3> QED
      BY <3>1, <3>2
  <2>4. ASSUME NEW p \in Procs, ReadConfig(p)
        PROVE  TypeInv'
    <3>1. CASE Fail(p)
      BY <3>1 DEF PCs
    <3>2. CASE ~Fail(p)
      <4>1. /\ repo # NoRepo
            /\ dest' = [dest EXCEPT ![p] = repo]
            /\ UNCHANGED <<repo, registry, store, cmd, todo, base, next, want>>
        BY <2>4, <3>2 DEF ReadConfig
      <4>2. PICK l \in {"upload", "create", "update"} :
              pc' = [pc EXCEPT ![p] = l] /\ (l = "upload" => todo[p] # <<>>)
        BY <2>4, <3>2 DEF ReadConfig, Loop
      <4> QED
        BY <4>1, <4>2 DEF PCs
    <3> QED
      BY <3>1, <3>2
  <2>5. ASSUME NEW p \in Procs, UploadBuildpackage(p)
        PROVE  TypeInv'
    <3> DEFINE image == <<dest[p], Head(todo[p])>>
    <3>1. image \in Images /\ Tail(todo[p]) \in Seq(Packages)
      <4>1. dest[p] \in Repos /\ todo[p] \in Seq(Packages) /\ todo[p] # <<>>
        BY <2>5 DEF UploadBuildpackage
      <4> QED
        BY <4>1 DEF Images
    <3>2. /\ AppendSource(next[p].sources, image) \in Sources
          /\ AddSource(next[p].sources, image) \in Sources
      BY <3>1, AppendSourceType
    <3>3. next' \in [Procs -> [sources: Sources]]
      BY <2>5, <3>2 DEF UploadBuildpackage, Spec1
    <3> QED
      BY <2>5, <3>1, <3>3 DEF UploadBuildpackage, Loop, Spec1, PCs
  <2>6. ASSUME NEW p \in Procs, CreateStore(p)
        PROVE  TypeInv'
    <3>1. CASE Fail(p) \/ Succeed(p)
      BY <3>1 DEF PCs
    <3>2. CASE ~(Fail(p) \/ Succeed(p))
      <4>1. /\ store' = [exists |-> TRUE, spec |-> next[p], gen |-> 1, status |-> NoStatus]
            /\ want' = [want EXCEPT ![p] = 1]
            /\ pc' = [pc EXCEPT ![p] = "wait"]
            /\ UNCHANGED <<repo, registry, cmd, todo, dest, base, next>>
        BY <2>6, <3>2 DEF CreateStore
      <4>2. NoStatus \in Status
        BY DEF NoStatus, Status
      <4> QED
        BY <4>1, <4>2 DEF PCs
    <3> QED
      BY <3>1, <3>2
  <2>patch. ASSUME NEW p \in Procs, PatchStore(p)
            PROVE  TypeInv'
    <3> DEFINE spec == ApplyMergePatch(store.spec, CreatePatch(base[p], next[p]))
    <3>1. store.spec \in [sources: Sources] /\ base[p] \in [sources: Sources]
            /\ next[p] \in [sources: Sources]
      OBVIOUS
    <3>2. spec \in {store.spec, next[p]}
      BY <3>1, PatchIsAllOrNothing
    <3> HIDE DEF spec
    <3>5. spec \in [sources: Sources]
      BY <3>1, <3>2
    <3>3. CASE Fail(p)
      BY <3>3 DEF PCs
    <3>4. CASE ~Fail(p)
      <4>1. PICK gen \in Nat :
              /\ store' = [exists |-> TRUE, spec |-> spec, gen |-> gen, status |-> store.status]
              /\ want' = [want EXCEPT ![p] = gen]
        BY <2>patch, <3>4 DEF PatchStore, spec
      <4>2. pc' = [pc EXCEPT ![p] = "wait"]
              /\ UNCHANGED <<repo, registry, cmd, todo, dest, base, next>>
        BY <2>patch, <3>4 DEF PatchStore
      <4>3. store' \in [exists: BOOLEAN, spec: [sources: Sources], gen: Nat, status: Status]
        BY <3>5, <4>1
      <4>4. want' \in [Procs -> Nat] /\ pc' \in [Procs -> PCs]
        BY <4>1, <4>2 DEF PCs
      <4> QED
        BY <4>2, <4>3, <4>4
    <3> QED
      BY <3>3, <3>4
  <2>7. ASSUME NEW p \in Procs, UpdateStore(p)
        PROVE  TypeInv'
    BY <2>7, <2>patch DEF UpdateStore, PCs
  <2>8. ASSUME NEW p \in Procs, PatchRemoved(p)
        PROVE  TypeInv'
    BY <2>8, <2>patch DEF PatchRemoved, PCs
  <2>9. ASSUME NEW p \in Procs, DeleteStore(p)
        PROVE  TypeInv'
    <3>1. NoStore \in [exists: BOOLEAN, spec: [sources: Sources], gen: Nat, status: Status]
      BY DEF NoStore, NoStatus, Status, Spec1, NoSources, Sources
    <3> QED
      BY <2>9, <3>1 DEF DeleteStore, PCs
  <2>10. ASSUME NEW p \in Procs, WaitResolved(p) \/ WaitTimeout(p) \/ Crash(p)
         PROVE  TypeInv'
    BY <2>10 DEF WaitResolved, WaitTimeout, Crash, PCs
  <2>11. ASSUME NEW p \in Procs, Finish(p)
         PROVE  TypeInv'
    BY <2>11 DEF Finish, NoCommand, CommandType, Kinds, Modes, Spec1, NoSources, Sources, PCs
  <2>12. ASSUME Reconcile
         PROVE  TypeInv'
    <3>1. PICK ready \in BOOLEAN :
            store' = [exists |-> TRUE, spec |-> store.spec, gen |-> store.gen,
                      status |-> [buildpacks |-> Provided(store.spec.sources),
                                  observed |-> store.gen, ready |-> ready]]
      BY <2>12 DEF Reconcile
    <3>2. Provided(store.spec.sources) \in SUBSET (Buildpacks \X Images)
      BY DEF Provided
    <3>3. store' \in [exists: BOOLEAN, spec: [sources: Sources], gen: Nat, status: Status]
      BY <3>1, <3>2 DEF Status
    <3> QED
      BY <2>12, <3>3 DEF Reconcile
  <2>13. ASSUME SetDefaultRepository
         PROVE  TypeInv'
    BY <2>13 DEF SetDefaultRepository
  <2>14. CASE UNCHANGED vars
    BY <2>14 DEF vars
  <2> QED
    BY <2>1, <2>2, <2>3, <2>4, <2>5, <2>6, <2>7, <2>8, <2>9, <2>10, <2>11, <2>12, <2>13, <2>14
    DEF Next, Command
<1> QED
  BY <1>1, <1>2, PTL DEF Spec

\* Every command keeps every variable in its type, for all constants.
THEOREM TypeCorrect == Spec => []TypeOK
<1>1. TypeInv => TypeOK
  BY DEF TypeInv
<1> QED
  BY <1>1, TypeInvInductive, PTL
-----------------------------------------------------------------------------
(* Nothing is listed that was not uploaded *)

Uploaded(sources) == \A i \in Images : sources[i] > 0 => i \in registry

\* What a process may write has been uploaded; a dry run may plan to list images
\* it never uploads, and no step that writes is reached by one.
NextUploaded == \A p \in Procs : ~IsDryRun(p) => Uploaded(next[p].sources)
IdleHasNothing == \A p \in Procs : pc[p] = "idle" => next[p] = Spec1(NoSources)
DryRunNeverPatches == \A p \in Procs : pc[p] = "patch" => ~IsDryRun(p)

UploadInv == SourcesUploaded /\ NextUploaded /\ IdleHasNothing /\ DryRunNeverPatches

LEMMA UploadInit == Init => UploadInv
  BY DEF Init, UploadInv, SourcesUploaded, NextUploaded, Uploaded, IdleHasNothing, DryRunNeverPatches,
         NoStore, NoStatus, Spec1, NoSources

LEMMA UploadStep == TypeInv /\ TypeInv' /\ UploadInv /\ [Next]_vars => UploadInv'
<1> SUFFICES ASSUME TypeInv, TypeInv', UploadInv, [Next]_vars
             PROVE  UploadInv'
  OBVIOUS
<1> USE DEF UploadInv, SourcesUploaded, NextUploaded, Uploaded, IdleHasNothing, DryRunNeverPatches,
            IsDryRun, TypeInv, TypeOK, Goto, Succeed, Fail, locals
<1>1. ASSUME NEW p \in Procs, Start(p)
      PROVE  UploadInv'
  BY <1>1 DEF Start, Spec1, NoSources
<1>2. ASSUME NEW p \in Procs, GetForUpdate(p)
      PROVE  UploadInv'
  <2>1. CASE store.exists
    <3>1. /\ next' = [next EXCEPT ![p] = store.spec]
          /\ cmd' = [cmd EXCEPT ![p].kind = "add"]
          /\ pc' = [pc EXCEPT ![p] = "config"]
          /\ UNCHANGED <<registry, store>>
      BY <1>2, <2>1 DEF GetForUpdate
    <3>2. \A q \in Procs : cmd'[q].mode = cmd[q].mode
      BY <3>1 DEF CommandType
    <3> QED
      BY <3>1, <3>2
  <2>2. CASE ~store.exists
    <3>1. CASE Fail(p)
      BY <3>1
    <3>2. CASE ~Fail(p)
      <4>1. /\ cmd' = [cmd EXCEPT ![p].kind = "create"]
            /\ pc' = [pc EXCEPT ![p] = "config"]
            /\ UNCHANGED <<registry, store, next>>
        BY <1>2, <2>2, <3>2 DEF GetForUpdate
      <4>2. \A q \in Procs : cmd'[q].mode = cmd[q].mode
        BY <4>1 DEF CommandType
      <4> QED
        BY <4>1, <4>2
    <3> QED
      BY <3>1, <3>2
  <2> QED
    BY <2>1, <2>2
<1>3. ASSUME NEW p \in Procs, GetForRemove(p)
      PROVE  UploadInv'
  <2>1. CASE Fail(p)
    BY <2>1
  <2>2. CASE ~Fail(p)
    <3>1. PICK f : next' = [next EXCEPT ![p] =
                     Spec1(RemoveSources(store.spec.sources, cmd[p].buildpacks, f))]
      BY <1>3, <2>2 DEF GetForRemove
    <3> DEFINE s == RemoveSources(store.spec.sources, cmd[p].buildpacks, f)
    <3>2. \A i \in Images : s[i] \in Nat /\ s[i] <= store.spec.sources[i]
      <4>1. store.spec.sources \in Sources /\ cmd[p].buildpacks \in Seq(Buildpacks)
        BY DEF CommandType
      <4>2. s \in Sources /\ \A i \in Images : s[i] <= store.spec.sources[i]
        BY <4>1, RemoveSourcesShrinks
      <4> QED
        BY <4>2 DEF Sources
    <3> HIDE DEF s
    <3>3. \A i \in Images : s[i] > 0 => i \in registry
      BY <3>2 DEF Sources
    <3>4. next'[p].sources = s /\ \A q \in Procs : q # p => next'[q] = next[q]
      BY <3>1 DEF Spec1, s
    <3>5. UNCHANGED <<registry, store, cmd>> /\ pc' = [pc EXCEPT ![p] = IF IsDryRun(p) THEN "ok" ELSE "patch"]
      BY <1>3, <2>2 DEF GetForRemove
    <3> QED
      BY <3>3, <3>4, <3>5
  <2> QED
    BY <2>1, <2>2
<1>4. ASSUME NEW p \in Procs, ReadConfig(p)
      PROVE  UploadInv'
  BY <1>4 DEF ReadConfig, Loop
<1>5. ASSUME NEW p \in Procs, UploadBuildpackage(p)
      PROVE  UploadInv'
  <2> DEFINE image == <<dest[p], Head(todo[p])>>
  <2>1. image \in Images
    <3>1. dest[p] \in Repos /\ todo[p] \in Seq(Packages) /\ todo[p] # <<>>
      BY <1>5 DEF UploadBuildpackage, UploadReady
    <3> QED
      BY <3>1 DEF Images
  <2>2. \A i \in Images : i # image => next'[p].sources[i] = next[p].sources[i]
    BY <1>5 DEF UploadBuildpackage, Spec1, AppendSource, AddSource, Sources
  <2>3. /\ registry \subseteq registry'
        /\ ~IsDryRun(p) => image \in registry'
    BY <1>5 DEF UploadBuildpackage, IsUploading
  <2>4. \A q \in Procs : q # p => next'[q] = next[q]
    BY <1>5 DEF UploadBuildpackage
  <2>5. UNCHANGED <<store, cmd>> /\ pc' \in {[pc EXCEPT ![p] = l] : l \in {"upload", "create", "update"}}
    BY <1>5 DEF UploadBuildpackage, Loop
  <2>6. ~IsDryRun(p) => \A i \in Images : next'[p].sources[i] > 0 => i \in registry'
    BY <2>2, <2>3
  <2> QED
    BY <2>3, <2>4, <2>5, <2>6
<1>6. ASSUME NEW p \in Procs, CreateStore(p)
      PROVE  UploadInv'
  BY <1>6 DEF CreateStore
<1>patch. ASSUME NEW p \in Procs, PatchStore(p), ~IsDryRun(p)
          PROVE  UploadInv'
  <2>1. CASE Fail(p)
    BY <2>1
  <2>2. CASE ~Fail(p)
    <3>1. /\ store'.spec = ApplyMergePatch(store.spec, CreatePatch(base[p], next[p]))
          /\ pc' = [pc EXCEPT ![p] = "wait"]
          /\ UNCHANGED <<repo, registry, cmd, todo, dest, base, next>>
      BY <1>patch, <2>2 DEF PatchStore
    <3>2. store'.spec \in {store.spec, next[p]}
      BY <3>1, PatchIsAllOrNothing
    <3> QED
      BY <1>patch, <3>1, <3>2
  <2> QED
    BY <2>1, <2>2
<1>7. ASSUME NEW p \in Procs, UpdateStore(p)
      PROVE  UploadInv'
  BY <1>7, <1>patch DEF UpdateStore
<1>8. ASSUME NEW p \in Procs, PatchRemoved(p)
      PROVE  UploadInv'
  BY <1>8, <1>patch DEF PatchRemoved
<1>9. ASSUME NEW p \in Procs, DeleteStore(p)
      PROVE  UploadInv'
  <2>1. \/ UNCHANGED store
        \/ store'.spec.sources = [i \in Images |-> 0]
    BY <1>9 DEF DeleteStore, NoStore, Spec1, NoSources
  <2>2. UNCHANGED <<registry, next, cmd>> /\ pc' \in {[pc EXCEPT ![p] = l] : l \in {"ok", "failed"}}
    BY <1>9 DEF DeleteStore
  <2> QED
    BY <2>1, <2>2
<1>10. ASSUME NEW p \in Procs, WaitResolved(p) \/ WaitTimeout(p) \/ Crash(p)
       PROVE  UploadInv'
  BY <1>10 DEF WaitResolved, WaitTimeout, Crash
<1>11. ASSUME NEW p \in Procs, Finish(p)
       PROVE  UploadInv'
  BY <1>11 DEF Finish, Spec1, NoSources
<1>12. ASSUME Reconcile
       PROVE  UploadInv'
  BY <1>12 DEF Reconcile
<1>13. ASSUME SetDefaultRepository
       PROVE  UploadInv'
  BY <1>13 DEF SetDefaultRepository
<1>14. CASE UNCHANGED vars
  BY <1>14 DEF vars
<1> QED
  BY <1>1, <1>2, <1>3, <1>4, <1>5, <1>6, <1>7, <1>8, <1>9, <1>10, <1>11, <1>12, <1>13, <1>14
  DEF Next, Command

\* Whatever commands overlap, crash or run dry, in whatever repository they find in
\* kp-config: an image a store names is in the registry.
THEOREM UploadedCorrect == Spec => []SourcesUploaded
<1>1. UploadInv => SourcesUploaded
  BY DEF UploadInv
<1> QED
  BY <1>1, UploadInit, UploadStep, TypeInvInductive, PTL DEF Spec
-----------------------------------------------------------------------------
(* No digest is listed twice *)

Distinct(s) == \A j, k \in 1..Len(s) : s[j] = s[k] => j = k

\* AddToStore looks for a digest before it appends; MakeStore does not, so a
\* command line that may create must not repeat a buildpackage.
CreatesDistinct == \A c \in Commands : c.kind \in {"create", "save"} => Distinct(c.packages)

NextUnique == \A p \in Procs : Unique(next[p].sources)

\* What create has still to append is not listed yet.
CreateFresh ==
  \A p \in Procs :
    cmd[p].kind \in {"create", "save"} /\ pc[p] \in {"get", "config", "upload"}
    => /\ Distinct(todo[p])
       /\ \A k \in 1..Len(todo[p]), i \in Images :
            next[p].sources[i] > 0 => Digest(i) # todo[p][k]

DigestInv == DigestsUnique /\ NextUnique /\ CreateFresh /\ IdleHasNothing

LEMMA ShrunkUnique ==
  ASSUME NEW s \in Sources, NEW t \in Sources, Unique(s), \A i \in Images : t[i] <= s[i]
  PROVE  Unique(t)
  BY DEF Unique, Sources

LEMMA NoSourcesUnique == Unique(NoSources)
  BY DEF Unique, NoSources

LEMMA AppendUnique ==
  ASSUME NEW s \in Sources, NEW image \in Images, Unique(s), ~StoreContains(s, image)
  PROVE  Unique(AppendSource(s, image))
<1>1. \A i \in Images : AppendSource(s, image)[i] = IF i = image THEN s[i] + 1 ELSE s[i]
  BY DEF AppendSource, Sources
<1>2. \A i \in Images : Digest(i) = Digest(image) => s[i] = 0
  BY DEF StoreContains, Sources
<1>3. s[image] = 0
  BY <1>2
<1> QED
  BY <1>1, <1>2, <1>3 DEF Unique, Sources

LEMMA DigestInit == Init => DigestInv
  BY NoSourcesUnique DEF Init, DigestInv, DigestsUnique, NextUnique, CreateFresh, IdleHasNothing,
         NoStore, Spec1, NoCommand

LEMMA DigestStep ==
  ASSUME CreatesDistinct
  PROVE  TypeInv /\ TypeInv' /\ DigestInv /\ [Next]_vars => DigestInv'
<1> SUFFICES ASSUME TypeInv, TypeInv', DigestInv, [Next]_vars
             PROVE  DigestInv'
  OBVIOUS
<1> USE DEF DigestInv, DigestsUnique, NextUnique, CreateFresh, IdleHasNothing,
            TypeInv, TypeOK, Goto, Succeed, Fail, locals
<1>1. ASSUME NEW p \in Procs, Start(p)
      PROVE  DigestInv'
  <2>1. PICK c \in Commands : /\ cmd' = [cmd EXCEPT ![p] = c]
                              /\ todo' = [todo EXCEPT ![p] = c.packages]
    BY <1>1 DEF Start
  <2>2. UNCHANGED <<store, next>> /\ next[p] = Spec1(NoSources)
          /\ pc' \in {[pc EXCEPT ![p] = l] : l \in {"config", "delete", "get"}}
    BY <1>1 DEF Start
  <2>3. c.kind \in {"create", "save"} => Distinct(todo'[p])
    BY <2>1, CreatesDistinct DEF CreatesDistinct
  <2>4. \A i \in Images : ~(next'[p].sources[i] > 0)
    BY <2>2 DEF Spec1, NoSources
  <2> QED
    BY <2>1, <2>2, <2>3, <2>4
<1>2. ASSUME NEW p \in Procs, GetForUpdate(p)
      PROVE  DigestInv'
  <2>1. CASE store.exists
    <3>1. /\ next' = [next EXCEPT ![p] = store.spec]
          /\ cmd' = [cmd EXCEPT ![p].kind = "add"]
          /\ pc' = [pc EXCEPT ![p] = "config"]
          /\ UNCHANGED <<store, todo>>
      BY <1>2, <2>1 DEF GetForUpdate
    <3>2. cmd'[p].kind = "add" /\ \A q \in Procs : q # p => cmd'[q] = cmd[q]
      BY <3>1 DEF CommandType
    <3> QED
      BY <3>1, <3>2
  <2>2. CASE ~store.exists
    <3>1. CASE Fail(p)
      BY <3>1
    <3>2. CASE ~Fail(p)
      <4>1. /\ cmd' = [cmd EXCEPT ![p].kind = "create"]
            /\ cmd[p].kind = "save" /\ pc[p] = "get"
            /\ pc' = [pc EXCEPT ![p] = "config"]
            /\ UNCHANGED <<store, todo, next>>
        BY <1>2, <2>2, <3>2 DEF GetForUpdate
      <4>2. \A q \in Procs : q # p => cmd'[q] = cmd[q]
        BY <4>1
      <4> QED
        BY <4>1, <4>2
    <3> QED
      BY <3>1, <3>2
  <2> QED
    BY <2>1, <2>2
<1>3. ASSUME NEW p \in Procs, GetForRemove(p)
      PROVE  DigestInv'
  <2>1. CASE Fail(p)
    BY <2>1
  <2>2. CASE ~Fail(p)
    <3>1. PICK f : next' = [next EXCEPT ![p] =
                     Spec1(RemoveSources(store.spec.sources, cmd[p].buildpacks, f))]
      BY <1>3, <2>2 DEF GetForRemove
    <3> DEFINE s == RemoveSources(store.spec.sources, cmd[p].buildpacks, f)
    <3>2. store.spec.sources \in Sources /\ cmd[p].buildpacks \in Seq(Buildpacks)
      BY DEF CommandType
    <3>3. s \in Sources /\ \A i \in Images : s[i] <= store.spec.sources[i]
      BY <3>2, RemoveSourcesShrinks
    <3> HIDE DEF s
    <3>7. Unique(store.spec.sources)
      OBVIOUS
    <3>4. Unique(s)
      BY <3>2, <3>3, <3>7, ShrunkUnique
    <3>5. next'[p].sources = s /\ \A q \in Procs : q # p => next'[q] = next[q]
      BY <3>1 DEF Spec1, s
    <3>6. /\ pc[p] = "get" /\ UNCHANGED <<store, cmd, todo>>
          /\ pc'[p] \in {"ok", "patch"} /\ \A q \in Procs : q # p => pc'[q] = pc[q]
      BY <1>3, <2>2 DEF GetForRemove
    <3>8. NextUnique'
      BY <3>4, <3>5
    <3>9. CreateFresh'
      BY <3>5, <3>6
    <3>10. IdleHasNothing'
      BY <3>5, <3>6
    <3> QED
      BY <3>6, <3>8, <3>9, <3>10
  <2> QED
    BY <2>1, <2>2
<1>4. ASSUME NEW p \in Procs, ReadConfig(p)
      PROVE  DigestInv'
  BY <1>4 DEF ReadConfig, Loop
<1>5. ASSUME NEW p \in Procs, UploadBuildpackage(p)
      PROVE  DigestInv'
  <2> DEFINE image == <<dest[p], Head(todo[p])>>
             listed == next[p].sources
  <2>1. /\ todo[p] \in Seq(Packages) /\ todo[p] # <<>> /\ pc[p] = "upload"
        /\ UNCHANGED <<store, cmd>>
        /\ todo' = [todo EXCEPT ![p] = Tail(todo[p])]
        /\ pc'[p] \in {"upload", "create", "update"}
        /\ \A q \in Procs : q # p => pc'[q] = pc[q]
    BY <1>5 DEF UploadBuildpackage, Loop, UploadReady
  <2>2. image \in Images
    <3>1. dest[p] \in Repos
      BY <2>1 DEF UploadReady
    <3> QED
      BY <2>1, <3>1 DEF Images
  <2>3. \A q \in Procs : q # p => next'[q] = next[q]
    BY <1>5 DEF UploadBuildpackage
  <2>4. listed \in Sources /\ Unique(listed)
    OBVIOUS
  <2>5. Digest(image) = todo[p][1]
    BY <2>1 DEF Digest
  <2>8. Len(todo[p]) \in Nat \ {0}
    BY <2>1
  <2>9. 1 \in 1..Len(todo[p])
    BY <2>8
  <2>6. CASE cmd[p].kind \in {"create", "save"}
    <3> HIDE DEF image
    <3>0. \A i \in Images : listed[i] > 0 => Digest(i) # todo[p][1]
      BY <2>1, <2>6, <2>9
    <3>1. ~StoreContains(listed, image)
      BY <2>5, <3>0 DEF StoreContains
    <3>2. Unique(AppendSource(listed, image))
      BY <2>2, <2>4, <3>1, AppendUnique
    <3>3. next'[p].sources = AppendSource(listed, image)
      BY <1>5, <3>1 DEF UploadBuildpackage, Spec1, AddSource, image
    <3>4. \A i \in Images : next'[p].sources[i] > 0 => i = image \/ listed[i] > 0
      BY <3>3, <2>4 DEF AppendSource, Sources
    <3>5. /\ Len(todo'[p]) = Len(todo[p]) - 1
          /\ \A k \in 1..Len(todo'[p]) : k + 1 \in 1..Len(todo[p]) /\ todo'[p][k] = todo[p][k + 1]
      BY <2>1
    <3>6. Distinct(todo'[p])
      <4>1. Distinct(todo[p])
        BY <2>1, <2>6
      <4> QED
        BY <2>8, <3>5, <4>1 DEF Distinct
    <3>7. \A k \in 1..Len(todo'[p]), i \in Images :
            next'[p].sources[i] > 0 => Digest(i) # todo'[p][k]
      <4> SUFFICES ASSUME NEW k \in 1..Len(todo'[p]), NEW i \in Images, next'[p].sources[i] > 0
                   PROVE  Digest(i) # todo'[p][k]
        OBVIOUS
      <4>1. CASE i = image
        <5>1. todo[p][1] # todo[p][k + 1]
          <6>1. Distinct(todo[p]) /\ k + 1 \in 1..Len(todo[p]) /\ k + 1 # 1
            BY <2>1, <2>6, <3>5
          <6> QED
            BY <2>9, <6>1 DEF Distinct
        <5> QED
          BY <2>5, <3>5, <4>1, <5>1
      <4>2. CASE listed[i] > 0
        BY <2>1, <2>6, <3>5, <4>2
      <4> QED
        BY <3>4, <4>1, <4>2
    <3>8. NextUnique'
      BY <2>3, <3>2, <3>3
    <3>9. CreateFresh'
      BY <2>1, <2>3, <3>6, <3>7
    <3>10. IdleHasNothing' /\ DigestsUnique'
      BY <2>1, <2>3
    <3> QED
      BY <3>8, <3>9, <3>10
  <2>7. CASE cmd[p].kind \notin {"create", "save"}
    <3>1. next'[p].sources = AddSource(listed, image)
      BY <1>5, <2>7 DEF UploadBuildpackage, Spec1
    <3>2. Unique(AddSource(listed, image))
      BY <2>2, <2>4, AppendUnique DEF AddSource
    <3>8. NextUnique'
      BY <2>3, <3>1, <3>2
    <3>9. CreateFresh'
      BY <2>1, <2>3, <2>7
    <3>10. IdleHasNothing' /\ DigestsUnique'
      BY <2>1, <2>3
    <3> QED
      BY <3>8, <3>9, <3>10
  <2> QED
    BY <2>6, <2>7
<1>6. ASSUME NEW p \in Procs, CreateStore(p)
      PROVE  DigestInv'
  <2>1. store'.spec \in {store.spec, next[p]}
    BY <1>6 DEF CreateStore
  <2>2. /\ UNCHANGED <<next, cmd, todo>>
        /\ pc' \in {[pc EXCEPT ![p] = l] : l \in {"ok", "failed", "wait"}}
    BY <1>6 DEF CreateStore
  <2>3. Unique(store.spec.sources) /\ Unique(next[p].sources)
    OBVIOUS
  <2>4. DigestsUnique'
    BY <2>1, <2>3
  <2> QED
    BY <2>2, <2>4
<1>patch. ASSUME NEW p \in Procs, PatchStore(p)
          PROVE  DigestInv'
  <2>1. CASE Fail(p)
    BY <2>1
  <2>2. CASE ~Fail(p)
    <3>1. /\ store'.spec = ApplyMergePatch(store.spec, CreatePatch(base[p], next[p]))
          /\ pc' = [pc EXCEPT ![p] = "wait"]
          /\ UNCHANGED <<cmd, todo, next>>
      BY <1>patch, <2>2 DEF PatchStore
    <3>2. store'.spec \in {store.spec, next[p]}
      BY <3>1, PatchIsAllOrNothing
    <3>3. Unique(store.spec.sources) /\ Unique(next[p].sources)
      OBVIOUS
    <3>4. DigestsUnique'
      BY <3>2, <3>3
    <3> QED
      BY <3>1, <3>4
  <2> QED
    BY <2>1, <2>2
<1>ok. ASSUME NEW p \in Procs, Succeed(p)
       PROVE  DigestInv'
  BY <1>ok
<1>fail. ASSUME NEW p \in Procs, Fail(p)
         PROVE  DigestInv'
  BY <1>fail
<1>7. ASSUME NEW p \in Procs, UpdateStore(p)
      PROVE  DigestInv'
  <2>1. PatchStore(p) \/ Succeed(p)
    BY <1>7 DEF UpdateStore
  <2> QED
    BY <2>1, <1>patch, <1>ok
<1>8. ASSUME NEW p \in Procs, PatchRemoved(p)
      PROVE  DigestInv'
  <2>1. PatchStore(p) \/ Fail(p)
    BY <1>8 DEF PatchRemoved
  <2> QED
    BY <2>1, <1>patch, <1>fail
<1>9. ASSUME NEW p \in Procs, DeleteStore(p)
      PROVE  DigestInv'
  <2>1. store'.spec \in {store.spec, Spec1(NoSources)}
    BY <1>9 DEF DeleteStore, NoStore
  <2>2. /\ UNCHANGED <<next, cmd, todo>>
        /\ pc' \in {[pc EXCEPT ![p] = l] : l \in {"ok", "failed"}}
    BY <1>9 DEF DeleteStore
  <2>3. Unique(store'.spec.sources)
    BY <2>1, NoSourcesUnique DEF Spec1
  <2> QED
    BY <2>2, <2>3
<1>10. ASSUME NEW p \in Procs, WaitResolved(p) \/ WaitTimeout(p) \/ Crash(p)
       PROVE  DigestInv'
  BY <1>10 DEF WaitResolved, WaitTimeout, Crash
<1>11. ASSUME NEW p \in Procs, Finish(p)
       PROVE  DigestInv'
  BY <1>11, NoSourcesUnique DEF Finish, Spec1
<1>12. ASSUME Reconcile
       PROVE  DigestInv'
  BY <1>12 DEF Reconcile
<1>13. ASSUME SetDefaultRepository
       PROVE  DigestInv'
  BY <1>13 DEF SetDefaultRepository
<1>14. CASE UNCHANGED vars
  BY <1>14 DEF vars
<1> QED
  BY <1>1, <1>2, <1>3, <1>4, <1>5, <1>6, <1>7, <1>8, <1>9, <1>10, <1>11, <1>12, <1>13, <1>14
  DEF Next, Command

\* However often the default repository moves and however commands overlap, no
\* buildpackage is listed twice, if no command line that creates a store repeats one.
THEOREM DigestsUniqueCorrect ==
  ASSUME CreatesDistinct
  PROVE  Spec => []DigestsUnique
<1>1. DigestInv => DigestsUnique
  BY DEF DigestInv
<1>2. TypeInv /\ TypeInv' /\ DigestInv /\ [Next]_vars => DigestInv'
  BY DigestStep
<1> QED
  BY <1>1, <1>2, DigestInit, TypeInvInductive, PTL DEF Spec
-----------------------------------------------------------------------------
(* What a list of sources holds *)

\* MakeStore's append adds the digest of the image.
LEMMA AppendDigests ==
  ASSUME NEW s \in Sources, NEW image \in Images
  PROVE  Digests(AppendSource(s, image)) = Digests(s) \cup {Digest(image)}
<1>1. \A i \in Images : AppendSource(s, image)[i] = IF i = image THEN s[i] + 1 ELSE s[i]
  BY DEF AppendSource, Sources
<1>2. \A i \in Images : s[i] \in Nat
  BY DEF Sources
<1>3. {i \in Images : AppendSource(s, image)[i] > 0} = {i \in Images : s[i] > 0} \cup {image}
  BY <1>1, <1>2
<1> QED
  BY <1>3 DEF Digests

\* AddToStore adds the digest of the image, or finds it there under some repository.
LEMMA AddDigests ==
  ASSUME NEW s \in Sources, NEW image \in Images
  PROVE  Digests(AddSource(s, image)) = Digests(s) \cup {Digest(image)}
<1>1. CASE StoreContains(s, image)
  <2>1. AddSource(s, image) = s
    BY <1>1 DEF AddSource
  <2>2. Digest(image) \in Digests(s)
    BY <1>1 DEF StoreContains, Digests
  <2> QED
    BY <2>1, <2>2
<1>2. CASE ~StoreContains(s, image)
  <2>1. AddSource(s, image) = AppendSource(s, image)
    BY <1>2 DEF AddSource
  <2> QED
    BY <2>1, AppendDigests
<1> QED
  BY <1>1, <1>2

\* Each buildpack the status lists is in the image it lists it under.
TruthfulStatus(status) == \A bi \in status.buildpacks : bi[1] \in Provides[Digest(bi[2])]

\* RemoveFromStore adds nothing, and takes out only images that hold a buildpack it was given.
LEMMA RemoveDigests ==
  ASSUME NEW s \in Sources, NEW bps \in Seq(Buildpacks), NEW status \in Status,
         TruthfulStatus(status), NEW f \in StoreImages(status, bps)
  PROVE  /\ Digests(RemoveSources(s, bps, f)) \subseteq Digests(s)
         /\ Digests(s) \ Providers(bps) \subseteq Digests(RemoveSources(s, bps, f))
<1> DEFINE t == RemoveSources(s, bps, f)
           Hits(i) == {k \in DOMAIN bps : f[bps[k]] = i}
<1>1. t \in Sources /\ \A i \in Images : t[i] <= s[i]
  BY RemoveSourcesShrinks
<1>2. t = [i \in Images |-> LET n == Cardinality(Hits(i)) IN IF n <= s[i] THEN s[i] - n ELSE 0]
  BY DEF RemoveSources
<1>3. \A k \in DOMAIN bps : bps[k] \in Provides[Digest(f[bps[k]])]
  <2> SUFFICES ASSUME NEW k \in DOMAIN bps
               PROVE  bps[k] \in Provides[Digest(f[bps[k]])]
    OBVIOUS
  <2>1. <<bps[k], f[bps[k]]>> \in status.buildpacks
    BY DEF StoreImages
  <2> QED
    BY <2>1 DEF TruthfulStatus
<1>4. ASSUME NEW i \in Images, s[i] > 0, Digest(i) \notin Providers(bps)
      PROVE  t[i] > 0
  <2>1. Digest(i) \in Packages
    BY DEF Digest, Images
  <2>2. Provides[Digest(i)] \cap Elements(bps) = {}
    BY <1>4, <2>1 DEF Providers
  <2>3. \A k \in DOMAIN bps : f[bps[k]] # i
    BY <1>3, <2>2 DEF Elements
  <2>4. Hits(i) = {}
    BY <2>3
  <2>5. Cardinality(Hits(i)) = 0
    BY <2>4, FS_EmptySet
  <2>6. s[i] \in Nat
    BY DEF Sources
  <2>7. t[i] = s[i]
    BY <1>2, <2>5, <2>6
  <2> QED
    BY <1>4, <2>7
<1> HIDE DEF t
<1>5. \A i \in Images : t[i] > 0 => s[i] > 0
  BY <1>1 DEF Sources
<1>6. Digests(t) \subseteq Digests(s)
  BY <1>5 DEF Digests
<1>7. Digests(s) \ Providers(bps) \subseteq Digests(t)
  BY <1>4 DEF Digests
<1> QED
  BY <1>6, <1>7 DEF t

\* No two buildpackages hold the same buildpack.
ProvidesApart == \A d, e \in Packages : d # e => Provides[d] \cap Provides[e] = {}

\* With a status that is up to date RemoveFromStore takes out exactly the images that hold
\* a buildpack it was given, be the buildpack named once or twice.
LEMMA RemoveIsExact ==
  ASSUME NEW s \in Sources, Unique(s), NEW bps \in Seq(Buildpacks), NEW status \in Status,
         status.buildpacks = Provided(s), ProvidesApart, NEW f \in StoreImages(status, bps)
  PROVE  Digests(RemoveSources(s, bps, f)) = Digests(s) \ Providers(bps)
<1> DEFINE t == RemoveSources(s, bps, f)
           Hits(i) == {k \in DOMAIN bps : f[bps[k]] = i}
<1>1. TruthfulStatus(status)
  BY DEF TruthfulStatus, Provided
<1>2. Digests(t) \subseteq Digests(s) /\ Digests(s) \ Providers(bps) \subseteq Digests(t)
  BY <1>1, RemoveDigests
<1>3. t = [i \in Images |-> LET n == Cardinality(Hits(i)) IN IF n <= s[i] THEN s[i] - n ELSE 0]
  BY DEF RemoveSources
<1>4. ASSUME NEW i \in Images, Digest(i) \in Providers(bps)
      PROVE  ~(t[i] > 0)
  <2>1. s[i] \in {0, 1}
    BY DEF Unique, Sources
  <2>2. PICK k \in DOMAIN bps : bps[k] \in Provides[Digest(i)]
    BY <1>4 DEF Providers, Elements
  <2>3. <<bps[k], f[bps[k]]>> \in Provided(s)
    BY <2>2 DEF StoreImages
  <2>4. /\ f[bps[k]] \in Images
        /\ s[f[bps[k]]] > 0
        /\ bps[k] \in Provides[Digest(f[bps[k]])]
    BY <2>3 DEF Provided
  <2>5. Digest(i) \in Packages /\ Digest(f[bps[k]]) \in Packages
    BY <2>4 DEF Digest, Images
  <2>6. Digest(f[bps[k]]) = Digest(i)
    BY <2>2, <2>4, <2>5 DEF ProvidesApart
  <2>7. CASE s[i] = 1
    <3>1. f[bps[k]] = i
      BY <2>4, <2>6, <2>7 DEF Unique
    <3>2. IsFiniteSet(DOMAIN bps)
      <4>1. DOMAIN bps = 1..Len(bps)
        OBVIOUS
      <4> QED
        BY <4>1, FS_Interval
    <3>3. IsFiniteSet(Hits(i)) /\ Hits(i) # {}
      BY <2>2, <3>1, <3>2, FS_Subset
    <3>4. Cardinality(Hits(i)) \in Nat /\ Cardinality(Hits(i)) # 0
      BY <3>3, FS_CardinalityType, FS_EmptySet
    <3> DEFINE n == Cardinality(Hits(i))
    <3>5. t[i] = IF n <= s[i] THEN s[i] - n ELSE 0
      BY <1>3
    <3> HIDE DEF n, t
    <3>6. n \in Nat /\ n # 0
      BY <3>4 DEF n
    <3> QED
      BY <2>7, <3>5, <3>6
  <2>8. CASE s[i] = 0
    <3>1. t \in Sources /\ t[i] <= s[i]
      BY RemoveSourcesShrinks
    <3> HIDE DEF t
    <3> QED
      BY <2>8, <3>1 DEF Sources
  <2> QED
    BY <2>1, <2>7, <2>8
<1> HIDE DEF t
<1>5. Digests(t) \cap Providers(bps) = {}
  BY <1>4 DEF Digests
<1> QED
  BY <1>2, <1>5 DEF t

\* A list is its head and its tail.
LEMMA HeadTail ==
  ASSUME NEW s \in Seq(Packages), s # <<>>
  PROVE  Elements(s) = {Head(s)} \cup Elements(Tail(s))
<1>1. Len(s) \in Nat \ {0} /\ DOMAIN s = 1..Len(s) /\ Head(s) = s[1]
  OBVIOUS
<1>2. /\ Len(Tail(s)) = Len(s) - 1 /\ Tail(s) \in Seq(Packages)
      /\ DOMAIN Tail(s) = 1..(Len(s) - 1)
      /\ \A k \in 1..(Len(s) - 1) : Tail(s)[k] = s[k + 1]
  OBVIOUS
<1>3. \A k \in 1..Len(s) : k = 1 \/ (k - 1 \in 1..(Len(s) - 1) /\ s[k] = Tail(s)[k - 1])
  BY <1>1, <1>2
<1>4. \A k \in 1..(Len(s) - 1) : k + 1 \in 1..Len(s)
  BY <1>1
<1>5. Elements(s) \subseteq {Head(s)} \cup Elements(Tail(s))
  <2> SUFFICES ASSUME NEW k \in 1..Len(s)
               PROVE  s[k] \in {Head(s)} \cup Elements(Tail(s))
    BY <1>1 DEF Elements
  <2>1. CASE k = 1
    BY <1>1, <2>1
  <2>2. CASE k # 1
    BY <1>2, <1>3, <2>2 DEF Elements
  <2> QED
    BY <2>1, <2>2
<1>6. Head(s) \in Elements(s)
  BY <1>1 DEF Elements
<1>7. Elements(Tail(s)) \subseteq Elements(s)
  BY <1>1, <1>2, <1>4 DEF Elements
<1> QED
  BY <1>5, <1>6, <1>7

LEMMA NoElements == Elements(<<>>) = {}
  BY DEF Elements

\* A patch made from the spec that is there turns it into the spec it was made for.
LEMMA PatchArrives ==
  ASSUME NEW b \in [sources: Sources], NEW n \in [sources: Sources]
  PROVE  /\ ApplyMergePatch(b, CreatePatch(b, n)) = n
         /\ ~HasPatch(CreatePatch(b, n)) => b = n
<1>1. b \in [{"sources"} -> Sources] /\ n \in [{"sources"} -> Sources]
  OBVIOUS
<1> QED
  BY <1>1, PatchCompletes, NoPatchNoChange

LEMMA NoSourcesNoDigests == Digests(NoSources) = {}
  BY DEF Digests, NoSources

LEMMA NonEmpty ==
  ASSUME NEW s \in Seq(Packages), s # <<>>
  PROVE  Elements(s) # {}
  BY HeadTail

-----------------------------------------------------------------------------
(* Commands that do not overlap *)

\* Which commands come where, and what they have when they are there.
AtItsPlace(p) ==
  /\ pc[p] \in {"idle", "get"} => next[p] = Spec1(NoSources)
  /\ pc[p] = "get" => cmd[p].kind \in {"add", "save", "remove"}
  /\ pc[p] \in {"get", "config"} => todo[p] = cmd[p].packages
  /\ pc[p] \in {"config", "upload"} => cmd[p].kind \in {"create", "add"}
  /\ pc[p] = "create" => cmd[p].kind = "create" /\ todo[p] = <<>>
  /\ pc[p] = "update" => cmd[p].kind = "add" /\ todo[p] = <<>>
  /\ pc[p] = "patch" => cmd[p].kind = "remove" /\ cmd[p].mode = "live"
  /\ pc[p] = "delete" => cmd[p].kind = "delete" /\ cmd[p].mode = "live"
  /\ pc[p] \in {"upload", "create"} /\ cmd[p].kind = "create" => cmd[p].packages # <<>>

\* What p is about to write and what it has still to upload make up what was asked for.
Collected(p) ==
  /\ pc[p] \in {"config", "upload", "create"} /\ cmd[p].kind = "create"
     => Digests(next[p].sources) \cup Elements(todo[p]) = Elements(cmd[p].packages)
  /\ pc[p] \in {"config", "upload", "update"} /\ cmd[p].kind = "add"
     => Digests(next[p].sources) \cup Elements(todo[p])
          = Digests(base[p].sources) \cup Elements(cmd[p].packages)
  /\ pc[p] = "patch"
     => /\ Digests(next[p].sources) \subseteq Digests(base[p].sources)
        /\ Digests(base[p].sources) \ Providers(cmd[p].buildpacks) \subseteq Digests(next[p].sources)

\* What p read is what is there: only p itself writes the spec.
ReadIsCurrent(p) ==
  /\ pc[p] \in {"config", "upload", "update"} /\ cmd[p].kind = "add"
     => store.exists /\ store.spec = base[p]
  /\ pc[p] = "patch" => store.exists /\ store.spec = base[p]

\* AddTakesEffect from the write on.
IsInEffect(p) ==
  pc[p] \in {"wait", "ok"} /\ cmd[p].mode = "live" /\ cmd[p].kind \in {"create", "add"}
  => Elements(cmd[p].packages) \subseteq Listed

SoleInv(p) ==
  /\ AtItsPlace(p) /\ Collected(p) /\ ReadIsCurrent(p) /\ IsInEffect(p)
  /\ TruthfulStatus(store.status)

\* A step of StoreContents that p takes, or none.
ContentsStep(p) ==
  Contents!Step(p) \/ UNCHANGED <<store.exists, Listed, Phases, Lines>>

\* Where a process is, as StoreContents sees it, before a step and after it.
Running == {"get", "config", "upload", "create", "update", "patch", "delete"}

LEMMA PhaseOf ==
  ASSUME NEW p
  PROVE  /\ pc[p] = "idle" => Phase(p) = "idle"
         /\ pc[p] \in {"wait", "ok"} => Phase(p) = "done"
         /\ pc[p] = "failed" => Phase(p) = "stopped"
         /\ pc[p] \in Running => Phase(p) = "running"
         /\ pc'[p] = "idle" => Phase(p)' = "idle"
         /\ pc'[p] \in {"wait", "ok"} => Phase(p)' = "done"
         /\ pc'[p] = "failed" => Phase(p)' = "stopped"
         /\ pc'[p] \in Running => Phase(p)' = "running"
<1>1. /\ pc[p] = "idle" => Phase(p) = "idle"
      /\ pc[p] \in {"wait", "ok"} => Phase(p) = "done"
      /\ pc[p] = "failed" => Phase(p) = "stopped"
      /\ pc[p] \in Running => Phase(p) = "running"
  BY DEF Phase, Running
<1>2. /\ pc'[p] = "idle" => Phase(p)' = "idle"
      /\ pc'[p] \in {"wait", "ok"} => Phase(p)' = "done"
      /\ pc'[p] = "failed" => Phase(p)' = "stopped"
      /\ pc'[p] \in Running => Phase(p)' = "running"
  BY DEF Phase, Running
<1> QED
  BY <1>1, <1>2

\* When there is one process, the functions of StoreContents say no more than it does.
LEMMA SolePhase ==
  ASSUME NEW p \in Procs, Procs = {p}, NEW a, NEW b, Phase(p) = a, Phase(p)' = b
  PROVE  Contents!Moves(p, a, b) /\ (a = b => UNCHANGED Phases)
<1>1. Phases[p] = a /\ Phases' = [Phases EXCEPT ![p] = b]
  BY DEF Phases
<1>2. a = b => UNCHANGED Phases
  BY DEF Phases
<1> QED
  BY <1>1, <1>2 DEF Contents!Moves

LEMMA SoleLine ==
  ASSUME NEW p \in Procs, Procs = {p}
  PROVE  /\ Lines[p] = LineOf(cmd[p])
         /\ Lines' = [Lines EXCEPT ![p] = LineOf(cmd'[p])]
         /\ LineOf(cmd'[p]) = LineOf(cmd[p]) => UNCHANGED Lines
  BY DEF Lines

\* What StoreContents knows of a command line.
LEMMA LineFields ==
  ASSUME NEW c
  PROVE  /\ LineOf(c).kind = c.kind
         /\ LineOf(c).live <=> c.mode = "live"
         /\ c.kind = "remove" => LineOf(c).names = Providers(c.buildpacks)
         /\ c.kind # "remove" => LineOf(c).names = Elements(c.packages)
  BY DEF LineOf

LEMMA LineKindChanges ==
  ASSUME NEW c \in CommandType, NEW k, c.kind # "remove", k # "remove"
  PROVE  LineOf([c EXCEPT !.kind = k]) = [LineOf(c) EXCEPT !.kind = k]
  BY DEF LineOf, CommandType

\* A step that shows neither in the store nor in the phase nor in the line of p.
LEMMA Stutters ==
  ASSUME NEW p \in Procs, Procs = {p}, UNCHANGED <<store.exists, store.spec>>, cmd'[p] = cmd[p],
         Phase(p)' = Phase(p)
  PROVE  ContentsStep(p)
<1>1. UNCHANGED Phases
  BY SolePhase
<1>2. UNCHANGED Lines
  BY SoleLine
<1>3. UNCHANGED Listed
  BY DEF Listed
<1> QED
  BY <1>1, <1>2, <1>3 DEF ContentsStep

LEMMA SoleInit ==
  ASSUME NEW p \in Procs, Procs = {p}
  PROVE  Init => SoleInv(p) /\ Contents!Init
<1> SUFFICES ASSUME Init
             PROVE  SoleInv(p) /\ Contents!Init
  OBVIOUS
<1>1. SoleInv(p)
  BY DEF Init, SoleInv, AtItsPlace, Collected, ReadIsCurrent, IsInEffect, TruthfulStatus,
         NoStore, NoStatus
<1>2. Contents!Init
  <2>1. Phases = [q \in Procs |-> "idle"] /\ Lines = [q \in Procs |-> LineOf(NoCommand)]
    BY DEF Init, Phases, Phase, Lines
  <2>2. ~store.exists /\ Listed = {}
    BY NoSourcesNoDigests DEF Init, Listed, NoStore, Spec1
  <2> QED
    BY <2>1, <2>2 DEF Contents!Init
<1> QED
  BY <1>1, <1>2

\* The end of a command that fails.
LEMMA FailStep ==
  ASSUME NEW p \in Procs, Procs = {p}, TypeInv, SoleInv(p), Fail(p), pc[p] \in Running \cup {"wait"}
  PROVE  SoleInv(p)' /\ ContentsStep(p)
<1>1. pc'[p] = "failed" /\ UNCHANGED <<store, cmd, todo, base, next>>
  BY DEF Fail, Goto, locals, TypeInv, TypeOK
<1>2. UNCHANGED <<store.exists, Listed, Lines>>
  BY <1>1 DEF Listed, Lines
<1>3. Contents!Moves(p, "running", "stopped") \/ Contents!Moves(p, "done", "stopped")
  BY <1>1, PhaseOf, SolePhase
<1>4. ContentsStep(p)
  BY <1>2, <1>3 DEF ContentsStep, Contents!Step, Contents!Stop, Contents!store
<1> QED
  BY <1>1, <1>2, <1>4 DEF SoleInv, AtItsPlace, Collected, ReadIsCurrent, IsInEffect

\* The server applies p's patch to the spec p read.
LEMMA PatchStep ==
  ASSUME NEW p \in Procs, Procs = {p}, TypeInv, SoleInv(p), PatchStore(p), pc[p] \in {"update", "patch"},
         ~IsDryRun(p)
  PROVE  SoleInv(p)' /\ ContentsStep(p)
<1>1. store.exists /\ store.spec = base[p]
  BY DEF SoleInv, ReadIsCurrent, AtItsPlace
<1>2. base[p] \in [sources: Sources] /\ next[p] \in [sources: Sources]
        /\ cmd[p] \in CommandType /\ pc \in [Procs -> PCs]
  BY DEF TypeInv, TypeOK
<1>3. PICK gen :
        /\ store' = [exists |-> TRUE, spec |-> ApplyMergePatch(store.spec, CreatePatch(base[p], next[p])),
                     gen |-> gen, status |-> store.status]
        /\ pc' = [pc EXCEPT ![p] = "wait"]
        /\ UNCHANGED <<cmd, todo, base, next>>
  BY <1>1 DEF PatchStore, Goto
<1>4. store'.spec = next[p]
  BY <1>1, <1>2, <1>3, PatchArrives
<1>5. Listed' = Digests(next[p].sources) /\ Listed = Digests(base[p].sources)
  BY <1>1, <1>4 DEF Listed, Digests
<1>6. pc'[p] = "wait" /\ store'.exists /\ store'.status = store.status
  BY <1>2, <1>3
<1>7. /\ Contents!Moves(p, "running", "done") /\ UNCHANGED Lines
      /\ Lines[p].kind = cmd[p].kind /\ Lines[p].live
  <2>1. Phase(p) = "running" /\ Phase(p)' = "done"
    BY <1>6, PhaseOf DEF Running
  <2>2. cmd[p].mode = "live" /\ cmd'[p] = cmd[p]
    BY <1>3 DEF IsDryRun
  <2> QED
    BY <2>1, <2>2, SolePhase, SoleLine, LineFields
<1>8. CASE pc[p] = "update"
  <2>1. cmd[p].kind = "add" /\ todo[p] = <<>>
    BY <1>8 DEF SoleInv, AtItsPlace
  <2>2. Listed' = Listed \cup Elements(cmd[p].packages)
    <3>1. Digests(next[p].sources) \cup Elements(todo[p])
            = Digests(base[p].sources) \cup Elements(cmd[p].packages)
      BY <1>8, <2>1 DEF SoleInv, Collected
    <3> QED
      BY <1>5, <2>1, <3>1, NoElements
  <2>3. Contents!Add(p)
    <3>1. Lines[p].names = Elements(cmd[p].packages)
      BY <2>1, SoleLine, LineFields
    <3> QED
      BY <1>1, <1>6, <1>7, <2>1, <2>2, <3>1 DEF Contents!Add, Contents!Takes
  <2>4. SoleInv(p)'
    BY <1>3, <1>6, <2>1, <2>2
    DEF SoleInv, AtItsPlace, Collected, ReadIsCurrent, IsInEffect
  <2> QED
    BY <2>3, <2>4 DEF ContentsStep, Contents!Step
<1>9. CASE pc[p] = "patch"
  <2>1. cmd[p].kind = "remove"
    BY <1>9 DEF SoleInv, AtItsPlace
  <2>2. Listed' \subseteq Listed /\ Listed \ Providers(cmd[p].buildpacks) \subseteq Listed'
    BY <1>5, <1>9 DEF SoleInv, Collected
  <2>3. Contents!Remove(p)
    <3> DEFINE t == Providers(cmd[p].buildpacks) \cap (Listed \ Listed')
    <3>1. Listed' = Listed \ t
      BY <2>2
    <3>2. Lines[p].names = Providers(cmd[p].buildpacks)
      BY <2>1, SoleLine, LineFields
    <3>3. t \in SUBSET Lines[p].names
      BY <3>2
    <3> HIDE DEF t
    <3> QED
      BY <1>1, <1>6, <1>7, <2>1, <3>1, <3>3 DEF Contents!Remove, Contents!Takes
  <2>4. SoleInv(p)'
    BY <1>3, <1>6, <2>1
    DEF SoleInv, AtItsPlace, Collected, ReadIsCurrent, IsInEffect
  <2> QED
    BY <2>3, <2>4 DEF ContentsStep, Contents!Step
<1> QED
  BY <1>8, <1>9

LEMMA SoleStep ==
  ASSUME NEW p \in Procs, Procs = {p}
  PROVE  TypeInv /\ TypeInv' /\ SoleInv(p) /\ [Next]_vars => SoleInv(p)' /\ ContentsStep(p)
<1> SUFFICES ASSUME TypeInv, TypeInv', SoleInv(p), [Next]_vars
             PROVE  SoleInv(p)' /\ ContentsStep(p)
  OBVIOUS
<1>types. /\ pc \in [Procs -> PCs] /\ cmd \in [Procs -> CommandType] /\ todo \in [Procs -> Seq(Packages)]
          /\ base \in [Procs -> [sources: Sources]] /\ next \in [Procs -> [sources: Sources]]
          /\ store.spec \in [sources: Sources] /\ store.status \in Status
          /\ cmd[p] \in CommandType /\ todo[p] \in Seq(Packages)
  BY DEF TypeInv, TypeOK
<1>parts. /\ AtItsPlace(p) /\ Collected(p) /\ ReadIsCurrent(p) /\ IsInEffect(p)
          /\ TruthfulStatus(store.status)
  BY DEF SoleInv
<1>1. CASE Start(p)
  <2>1. PICK c \in Commands :
          /\ cmd' = [cmd EXCEPT ![p] = c]
          /\ todo' = [todo EXCEPT ![p] = c.packages]
          /\ pc' = [pc EXCEPT ![p] = IF c.kind = "create" THEN "config" ELSE IF c.kind = "delete" THEN "delete" ELSE "get"]
    BY <1>1 DEF Start, Goto
  <2>2. pc[p] = "idle" /\ UNCHANGED <<store, base, next>>
    BY <1>1 DEF Start
  <2>3. cmd'[p] = c /\ todo'[p] = c.packages /\ c.kind \in Kinds /\ (c.kind = "delete" => c.mode = "live")
    BY <1>types, <2>1, CommandsAssumption DEF CommandType
  <2>4. /\ pc'[p] \in {"config", "delete", "get"}
        /\ pc'[p] = "config" => c.kind = "create"
        /\ pc'[p] = "delete" => c.kind = "delete"
        /\ pc'[p] = "get" => c.kind \in {"add", "save", "remove"}
    BY <1>types, <2>1, <2>3 DEF Kinds
  <2>5. next'[p] = Spec1(NoSources) /\ Digests(next'[p].sources) = {}
    BY <1>parts, <2>2, NoSourcesNoDigests DEF AtItsPlace, Spec1
  <2>6. AtItsPlace(p)' /\ Collected(p)' /\ ReadIsCurrent(p)' /\ IsInEffect(p)'
    BY <2>3, <2>4, <2>5 DEF AtItsPlace, Collected, ReadIsCurrent, IsInEffect
  <2>7. ContentsStep(p)
    <3>1. Contents!Moves(p, "idle", "running")
      BY <2>2, <2>4, PhaseOf, SolePhase DEF Running
    <3>2. Lines' = [Lines EXCEPT ![p] = LineOf(c)]
      BY <2>3, SoleLine
    <3>3. UNCHANGED <<store.exists, Listed>>
      BY <2>2 DEF Listed
    <3> QED
      BY <3>1, <3>2, <3>3 DEF ContentsStep, Contents!Step, Contents!Begin, Contents!store
  <2> QED
    BY <1>parts, <2>2, <2>6, <2>7 DEF SoleInv
<1>2. CASE GetForUpdate(p)
  <2>0. pc[p] = "get" /\ cmd[p].kind \in {"add", "save"}
    BY <1>2 DEF GetForUpdate
  <2>r. ASSUME NEW k \in {"add", "create"}, cmd' = [cmd EXCEPT ![p].kind = k], UNCHANGED store,
               pc'[p] = "config", cmd[p].kind = "add" => k = "add",
               cmd[p].kind = "save" => k = IF store.exists THEN "add" ELSE "create"
        PROVE  ContentsStep(p)
    <3>1. LineOf(cmd'[p]) = [LineOf(cmd[p]) EXCEPT !.kind = k]
      BY <1>types, <2>0, <2>r, LineKindChanges
    <3>2. UNCHANGED <<store.exists, Listed, Phases>>
      BY <2>0, <2>r, PhaseOf, SolePhase DEF Running, Listed
    <3>3. CASE cmd[p].kind = "add"
      <4>1. cmd'[p] = cmd[p]
        BY <1>types, <2>r, <3>3 DEF CommandType
      <4> QED
        BY <3>2, <4>1, SoleLine DEF ContentsStep
    <3>4. CASE cmd[p].kind = "save"
      <4>1. Phases[p] = "running" /\ Lines[p] = LineOf(cmd[p]) /\ Lines[p].kind = "save"
        BY <2>0, <3>4, PhaseOf, SoleLine, LineFields DEF Running, Phases
      <4>2. Lines' = [Lines EXCEPT ![p] = [Lines[p] EXCEPT !.kind = k]]
        BY <3>1, <4>1, SoleLine
      <4> QED
        BY <2>r, <3>2, <3>4, <4>1, <4>2
        DEF ContentsStep, Contents!Step, Contents!Resolve, Contents!store
    <3> QED
      BY <2>0, <3>3, <3>4
  <2>1. CASE store.exists
    <3>1. /\ base' = [base EXCEPT ![p] = store.spec] /\ next' = [next EXCEPT ![p] = store.spec]
          /\ cmd' = [cmd EXCEPT ![p].kind = "add"] /\ pc' = [pc EXCEPT ![p] = "config"]
          /\ UNCHANGED <<store, todo>>
      BY <1>2, <2>1 DEF GetForUpdate, Goto
    <3>2. /\ base'[p] = store.spec /\ next'[p] = store.spec /\ pc'[p] = "config"
          /\ cmd'[p].kind = "add" /\ cmd'[p].packages = cmd[p].packages /\ todo'[p] = cmd'[p].packages
      BY <1>types, <1>parts, <2>0, <3>1 DEF CommandType, AtItsPlace
    <3>3. AtItsPlace(p)' /\ Collected(p)' /\ ReadIsCurrent(p)' /\ IsInEffect(p)'
      BY <2>1, <3>1, <3>2 DEF AtItsPlace, Collected, ReadIsCurrent, IsInEffect
    <3>4. ContentsStep(p)
      BY <2>1, <2>r, <3>1, <3>2
    <3> QED
      BY <1>parts, <3>1, <3>3, <3>4 DEF SoleInv
  <2>2. CASE ~store.exists /\ cmd[p].kind = "save"
    <3>1. /\ cmd' = [cmd EXCEPT ![p].kind = "create"] /\ pc' = [pc EXCEPT ![p] = "config"]
          /\ UNCHANGED <<store, todo, base, next>>
      BY <1>2, <2>2 DEF GetForUpdate, Goto
    <3>2. /\ pc'[p] = "config" /\ cmd'[p].kind = "create"
          /\ cmd'[p].packages = cmd[p].packages /\ todo'[p] = cmd'[p].packages
      BY <1>types, <1>parts, <2>0, <3>1 DEF CommandType, AtItsPlace
    <3>3. Digests(next'[p].sources) = {}
      BY <1>parts, <2>0, <3>1, NoSourcesNoDigests DEF AtItsPlace, Spec1
    <3>4. AtItsPlace(p)' /\ Collected(p)' /\ ReadIsCurrent(p)' /\ IsInEffect(p)'
      BY <3>1, <3>2, <3>3 DEF AtItsPlace, Collected, ReadIsCurrent, IsInEffect
    <3>5. ContentsStep(p)
      BY <2>2, <2>r, <3>1, <3>2
    <3> QED
      BY <1>parts, <3>1, <3>4, <3>5 DEF SoleInv
  <2>3. CASE ~store.exists /\ cmd[p].kind # "save"
    <3>1. Fail(p)
      BY <1>2, <2>3 DEF GetForUpdate
    <3> QED
      BY <2>0, <3>1, FailStep DEF Running
  <2> QED
    BY <2>1, <2>2, <2>3
<1>3. CASE GetForRemove(p)
  <2>0. pc[p] = "get" /\ cmd[p].kind = "remove"
    BY <1>3 DEF GetForRemove
  <2>1. CASE Fail(p)
    BY <2>0, <2>1, FailStep DEF Running
  <2>2. CASE ~Fail(p)
    <3>1. PICK f \in StoreImages(store.status, cmd[p].buildpacks) :
            next' = [next EXCEPT ![p] =
              Spec1(RemoveSources(store.spec.sources, cmd[p].buildpacks, f))]
      BY <1>3, <2>2 DEF GetForRemove
    <3>2. /\ store.exists /\ base' = [base EXCEPT ![p] = store.spec]
          /\ pc' = [pc EXCEPT ![p] = IF IsDryRun(p) THEN "ok" ELSE "patch"]
          /\ UNCHANGED <<store, cmd, todo>>
      BY <1>3, <2>2 DEF GetForRemove, Goto
    <3> DEFINE t == RemoveSources(store.spec.sources, cmd[p].buildpacks, f)
    <3>3. /\ next'[p].sources = t /\ base'[p] = store.spec /\ pc'[p] \in {"ok", "patch"}
          /\ pc'[p] = "patch" => cmd[p].mode = "live"
      BY <1>types, <3>1, <3>2 DEF Spec1, IsDryRun
    <3>4. /\ Digests(t) \subseteq Digests(store.spec.sources)
          /\ Digests(store.spec.sources) \ Providers(cmd[p].buildpacks) \subseteq Digests(t)
      <4>1. store.spec.sources \in Sources /\ cmd[p].buildpacks \in Seq(Buildpacks)
        BY <1>types DEF CommandType
      <4> QED
        BY <1>types, <1>parts, <4>1, RemoveDigests
    <3> HIDE DEF t
    <3>5. AtItsPlace(p)' /\ Collected(p)' /\ ReadIsCurrent(p)' /\ IsInEffect(p)'
      BY <1>parts, <2>0, <3>2, <3>3, <3>4 DEF AtItsPlace, Collected, ReadIsCurrent, IsInEffect
    <3>6. ContentsStep(p)
      <4>1. CASE IsDryRun(p)
        <5>1. Phase(p) = "running" /\ Phase(p)' = "done"
          BY <1>types, <2>0, <3>2, <4>1, PhaseOf DEF Running
        <5>2. Contents!Moves(p, "running", "done") /\ ~Lines[p].live /\ UNCHANGED <<store.exists, Listed, Lines>>
          BY <3>2, <4>1, <5>1, SolePhase, SoleLine, LineFields DEF IsDryRun, Listed
        <5> QED
          BY <3>2, <5>2 DEF ContentsStep, Contents!Step, Contents!DryRun, Contents!store
      <4>2. CASE ~IsDryRun(p)
        <5>1. Phase(p)' = Phase(p)
          BY <1>types, <2>0, <3>2, <4>2, PhaseOf DEF Running
        <5> QED
          BY <3>2, <5>1, Stutters
      <4> QED
        BY <4>1, <4>2
    <3> QED
      BY <1>parts, <3>2, <3>5, <3>6 DEF SoleInv
  <2> QED
    BY <2>1, <2>2
<1>4. CASE ReadConfig(p)
  <2>0. pc[p] = "config"
    BY <1>4 DEF ReadConfig
  <2>1. CASE Fail(p)
    BY <2>0, <2>1, FailStep DEF Running
  <2>2. CASE ~Fail(p)
    <3>1. /\ cmd[p].kind = "create" => todo[p] # <<>>
          /\ Loop(p, todo[p])
          /\ UNCHANGED <<store, cmd, todo, base, next>>
      BY <1>4, <2>2 DEF ReadConfig
    <3>2. /\ pc'[p] \in {"upload", "create", "update"}
          /\ pc'[p] = "create" => cmd[p].kind = "create" /\ todo[p] = <<>>
          /\ pc'[p] = "update" => cmd[p].kind # "create" /\ todo[p] = <<>>
      BY <1>types, <3>1 DEF Loop, Goto
    <3>3. AtItsPlace(p)' /\ Collected(p)' /\ ReadIsCurrent(p)' /\ IsInEffect(p)'
      BY <1>parts, <2>0, <3>1, <3>2 DEF AtItsPlace, Collected, ReadIsCurrent, IsInEffect
    <3>4. ContentsStep(p)
      <4>1. Phase(p)' = Phase(p)
        BY <2>0, <3>2, PhaseOf DEF Running
      <4> QED
        BY <3>1, <4>1, Stutters
    <3> QED
      BY <1>parts, <3>1, <3>3, <3>4 DEF SoleInv
  <2> QED
    BY <2>1, <2>2
<1>5. CASE UploadBuildpackage(p)
  <2> DEFINE image == <<dest[p], Head(todo[p])>>
             listed == next[p].sources
  <2>0. pc[p] = "upload" /\ UNCHANGED <<store, cmd, base>>
    BY <1>5 DEF UploadBuildpackage
  <2>1. dest[p] \in Repos /\ todo[p] # <<>>
    BY <2>0 DEF TypeInv, UploadReady
  <2>2. image \in Images /\ Digest(image) = Head(todo[p]) /\ listed \in Sources
    BY <1>types, <2>1 DEF Images, Digest
  <2>3. todo'[p] = Tail(todo[p])
    BY <1>5, <1>types DEF UploadBuildpackage
  <2>4. /\ pc'[p] \in {"upload", "create", "update"}
        /\ pc'[p] = "create" => cmd[p].kind = "create" /\ todo'[p] = <<>>
        /\ pc'[p] = "update" => cmd[p].kind # "create" /\ todo'[p] = <<>>
    BY <1>5, <1>types, <2>3 DEF UploadBuildpackage, Loop, Goto
  <2>5. next'[p].sources \in {AppendSource(listed, image), AddSource(listed, image)}
    BY <1>5, <1>types DEF UploadBuildpackage, Spec1
  <2>6. Digests(next'[p].sources) = Digests(listed) \cup {Head(todo[p])}
    <3> HIDE DEF image, listed
    <3> QED
      BY <2>2, <2>5, AppendDigests, AddDigests
  <2>7. Digests(next'[p].sources) \cup Elements(todo'[p]) = Digests(listed) \cup Elements(todo[p])
    BY <1>types, <2>1, <2>3, <2>6, HeadTail
  <2>8. AtItsPlace(p)' /\ Collected(p)' /\ ReadIsCurrent(p)' /\ IsInEffect(p)'
    BY <1>parts, <2>0, <2>4, <2>7 DEF AtItsPlace, Collected, ReadIsCurrent, IsInEffect
  <2>9. ContentsStep(p)
    <3>1. Phase(p)' = Phase(p)
      BY <2>0, <2>4, PhaseOf DEF Running
    <3> QED
      BY <2>0, <3>1, Stutters
  <2> QED
    BY <1>parts, <2>0, <2>8, <2>9 DEF SoleInv
<1>6. CASE CreateStore(p)
  <2>0. pc[p] = "create"
    BY <1>6 DEF CreateStore
  <2>1. CASE Fail(p)
    BY <2>0, <2>1, FailStep DEF Running
  <2>2. CASE IsDryRun(p) /\ Succeed(p)
    <3>1. pc'[p] = "ok" /\ UNCHANGED <<store, cmd, todo, base, next>> /\ cmd[p].mode # "live"
      BY <1>types, <2>2 DEF Succeed, Goto, locals, IsDryRun
    <3>2. AtItsPlace(p)' /\ Collected(p)' /\ ReadIsCurrent(p)' /\ IsInEffect(p)'
      BY <1>parts, <2>0, <3>1 DEF AtItsPlace, Collected, ReadIsCurrent, IsInEffect
    <3>3. ContentsStep(p)
      <4>1. Contents!Moves(p, "running", "done")
        BY <2>0, <3>1, PhaseOf, SolePhase DEF Running
      <4>2. ~Lines[p].live /\ Lines[p].kind = "create" /\ UNCHANGED <<store.exists, Listed, Lines>>
        BY <1>parts, <2>0, <3>1, SoleLine, LineFields DEF AtItsPlace, Listed
      <4> QED
        BY <4>1, <4>2 DEF ContentsStep, Contents!Step, Contents!DryRun, Contents!store
    <3> QED
      BY <1>parts, <3>1, <3>2, <3>3 DEF SoleInv
  <2>3. CASE ~Fail(p) /\ ~(IsDryRun(p) /\ Succeed(p))
    <3>1. /\ ~store.exists
          /\ store' = [exists |-> TRUE, spec |-> next[p], gen |-> 1, status |-> NoStatus]
          /\ pc' = [pc EXCEPT ![p] = "wait"]
          /\ UNCHANGED <<cmd, todo, base, next>>
          /\ cmd[p].mode = "live"
      BY <1>6, <2>3 DEF CreateStore, Goto, IsDryRun
    <3>2. cmd[p].kind = "create" /\ todo[p] = <<>> /\ cmd[p].packages # <<>>
      BY <1>parts, <2>0 DEF AtItsPlace
    <3>3. Listed' = Elements(cmd[p].packages)
      <4>1. Listed' = Digests(next[p].sources)
        BY <3>1 DEF Listed, Digests
      <4>2. Digests(next[p].sources) \cup Elements(todo[p]) = Elements(cmd[p].packages)
        BY <1>parts, <2>0, <3>2 DEF Collected
      <4> QED
        BY <3>2, <4>1, <4>2, NoElements
    <3>4. Contents!Create(p)
      <4>1. cmd[p].packages \in Seq(Packages)
        BY <1>types DEF CommandType
      <4>2. Elements(cmd[p].packages) # {}
        BY <3>2, <4>1, NonEmpty
      <4>3. Phase(p) = "running" /\ Phase(p)' = "done"
        BY <1>types, <2>0, <3>1, PhaseOf DEF Running
      <4>4. /\ Lines[p].kind = "create" /\ Lines[p].live
            /\ Lines[p].names = Elements(cmd[p].packages) /\ UNCHANGED Lines
        BY <3>1, <3>2, SoleLine, LineFields
      <4>5. Contents!Takes(p, "create")
        BY <4>3, <4>4, SolePhase DEF Contents!Takes
      <4> QED
        BY <3>1, <3>3, <4>2, <4>4, <4>5 DEF Contents!Create
    <3>5. pc'[p] = "wait" /\ TruthfulStatus(store'.status)
      BY <1>types, <3>1 DEF TruthfulStatus, NoStatus
    <3>6. AtItsPlace(p)' /\ Collected(p)' /\ ReadIsCurrent(p)' /\ IsInEffect(p)'
      BY <1>parts, <2>0, <3>1, <3>3, <3>5 DEF AtItsPlace, Collected, ReadIsCurrent, IsInEffect
    <3> QED
      BY <3>4, <3>5, <3>6 DEF SoleInv, ContentsStep, Contents!Step
  <2> QED
    BY <2>1, <2>2, <2>3
<1>7. CASE UpdateStore(p)
  <2>0. pc[p] = "update"
    BY <1>7 DEF UpdateStore
  <2>1. CASE PatchStore(p) /\ ~IsDryRun(p)
    BY <2>0, <2>1, PatchStep
  <2>2. CASE ~(PatchStore(p) /\ ~IsDryRun(p))
    <3>1. /\ ~HasPatch(CreatePatch(base[p], next[p])) \/ cmd[p].mode # "live"
          /\ pc' = [pc EXCEPT ![p] = "ok"] /\ UNCHANGED <<store, cmd, todo, base, next>>
      BY <1>7, <2>2 DEF UpdateStore, Succeed, Goto, locals, IsDryRun
    <3>2. cmd[p].kind = "add" /\ todo[p] = <<>> /\ store.spec = base[p]
      BY <1>parts, <2>0 DEF AtItsPlace, ReadIsCurrent
    <3>3. cmd[p].mode = "live" => Elements(cmd[p].packages) \subseteq Listed
      <4> SUFFICES ASSUME cmd[p].mode = "live"
                   PROVE  Elements(cmd[p].packages) \subseteq Listed
        OBVIOUS
      <4>1. base[p] = next[p]
        <5>1. base[p] \in [sources: Sources] /\ next[p] \in [sources: Sources]
          BY <1>types
        <5> QED
          BY <3>1, <5>1, PatchArrives
      <4>2. Digests(next[p].sources) \cup Elements(todo[p])
              = Digests(base[p].sources) \cup Elements(cmd[p].packages)
        BY <1>parts, <2>0, <3>2 DEF Collected
      <4> QED
        BY <3>2, <4>1, <4>2, NoElements DEF Listed
    <3>4. UNCHANGED <<store.exists, Listed, Lines>> /\ pc'[p] = "ok"
      BY <1>types, <3>1 DEF Listed, Lines
    <3>6. ContentsStep(p)
      <4>1. Contents!Moves(p, "running", "done")
        BY <2>0, <3>4, PhaseOf, SolePhase DEF Running
      <4>2. /\ Lines[p].kind = "add" /\ Lines[p].names = Elements(cmd[p].packages)
            /\ Lines[p].live <=> cmd[p].mode = "live"
        BY <3>2, SoleLine, LineFields
      <4>3. store.exists
        BY <1>parts, <2>0, <3>2 DEF ReadIsCurrent
      <4>4. CASE cmd[p].mode = "live"
        <5>1. Listed' = Listed \cup Lines[p].names
          BY <3>3, <3>4, <4>2, <4>4
        <5> QED
          BY <3>4, <4>1, <4>2, <4>3, <4>4, <5>1 DEF ContentsStep, Contents!Step, Contents!Add, Contents!Takes
      <4>5. CASE cmd[p].mode # "live"
        BY <3>4, <4>1, <4>2, <4>3, <4>5 DEF ContentsStep, Contents!Step, Contents!DryRun, Contents!store
      <4> QED
        BY <4>4, <4>5
    <3>5. AtItsPlace(p)' /\ Collected(p)' /\ ReadIsCurrent(p)' /\ IsInEffect(p)'
      BY <1>parts, <2>0, <3>1, <3>3, <3>4 DEF AtItsPlace, Collected, ReadIsCurrent, IsInEffect
    <3> QED
      BY <1>parts, <3>1, <3>5, <3>6 DEF SoleInv
  <2> QED
    BY <2>1, <2>2
<1>8. CASE PatchRemoved(p)
  <2>1. pc[p] = "patch" /\ (PatchStore(p) \/ Fail(p))
    BY <1>8 DEF PatchRemoved
  <2>2. ~IsDryRun(p)
    BY <1>parts, <2>1 DEF AtItsPlace, IsDryRun
  <2> QED
    BY <2>1, <2>2, PatchStep, FailStep DEF Running
<1>9. CASE DeleteStore(p)
  <2>0. pc[p] = "delete" /\ cmd[p].kind = "delete"
    BY <1>9, <1>parts DEF DeleteStore, AtItsPlace
  <2>1. CASE Fail(p)
    BY <2>0, <2>1, FailStep DEF Running
  <2>2. CASE ~Fail(p)
    <3>1. /\ pc' = [pc EXCEPT ![p] = "ok"] /\ UNCHANGED <<cmd, todo, base, next>>
          /\ UNCHANGED store \/ (store.exists /\ store' = NoStore)
      BY <1>9, <2>2 DEF DeleteStore, Succeed, Goto, locals
    <3>2. pc'[p] = "ok"
      BY <1>types, <3>1
    <3>3. AtItsPlace(p)' /\ Collected(p)' /\ ReadIsCurrent(p)' /\ IsInEffect(p)'
      BY <1>parts, <2>0, <3>1, <3>2 DEF AtItsPlace, Collected, ReadIsCurrent, IsInEffect
    <3>4. TruthfulStatus(store'.status)
      BY <1>parts, <3>1 DEF TruthfulStatus, NoStore, NoStatus
    <3>5. ContentsStep(p)
      <4>t. Contents!Takes(p, "delete")
        <5>1. Contents!Moves(p, "running", "done")
          BY <2>0, <3>2, PhaseOf, SolePhase DEF Running
        <5>2. Lines[p].kind = "delete" /\ Lines[p].live /\ UNCHANGED Lines
          BY <1>parts, <2>0, <3>1, SoleLine, LineFields DEF AtItsPlace
        <5> QED
          BY <5>1, <5>2 DEF Contents!Takes
      <4>1. CASE UNCHANGED store
        <5>1. UNCHANGED <<store.exists, Listed>>
          BY <4>1 DEF Listed
        <5> QED
          BY <4>t, <5>1 DEF ContentsStep, Contents!Step, Contents!Decline, Contents!store
      <4>2. CASE store.exists /\ store' = NoStore
        <5>1. Listed' = {} /\ ~store'.exists
          BY <4>2, NoSourcesNoDigests DEF Listed, Digests, NoStore, Spec1
        <5> QED
          BY <4>t, <4>2, <5>1 DEF ContentsStep, Contents!Step, Contents!Delete
      <4> QED
        BY <3>1, <4>1, <4>2
    <3> QED
      BY <3>3, <3>4, <3>5 DEF SoleInv
  <2> QED
    BY <2>1, <2>2
<1>10. CASE WaitResolved(p)
  <2>1. pc[p] = "wait" /\ (Succeed(p) \/ Fail(p))
    BY <1>10 DEF WaitResolved
  <2>2. CASE Fail(p)
    BY <2>1, <2>2, FailStep DEF Running
  <2>3. CASE Succeed(p)
    <3>1. pc'[p] = "ok" /\ UNCHANGED <<store, cmd, todo, base, next>>
      BY <1>types, <2>3 DEF Succeed, Goto, locals
    <3>2. AtItsPlace(p)' /\ Collected(p)' /\ ReadIsCurrent(p)' /\ IsInEffect(p)'
      BY <1>parts, <2>1, <3>1 DEF AtItsPlace, Collected, ReadIsCurrent, IsInEffect, Listed
    <3>3. ContentsStep(p)
      <4>1. Phase(p)' = Phase(p)
        BY <2>1, <3>1, PhaseOf
      <4> QED
        BY <3>1, <4>1, Stutters
    <3> QED
      BY <1>parts, <3>1, <3>2, <3>3 DEF SoleInv
  <2> QED
    BY <2>1, <2>2, <2>3
<1>11. CASE WaitTimeout(p) \/ Crash(p)
  <2>1. pc[p] \in Running \cup {"wait"} /\ Fail(p)
    BY <1>11, <1>types DEF WaitTimeout, Crash, PCs, Running
  <2> QED
    BY <2>1, FailStep
<1>12. CASE Finish(p)
  <2>1. /\ pc[p] \in {"ok", "failed"} /\ pc'[p] = "idle"
        /\ cmd'[p] = NoCommand /\ next'[p] = Spec1(NoSources) /\ UNCHANGED store
    BY <1>12, <1>types DEF Finish, Goto
  <2>2. AtItsPlace(p)' /\ Collected(p)' /\ ReadIsCurrent(p)' /\ IsInEffect(p)'
    BY <2>1 DEF AtItsPlace, Collected, ReadIsCurrent, IsInEffect
  <2>3. ContentsStep(p)
    <3>1. Contents!Moves(p, "done", "idle") \/ Contents!Moves(p, "stopped", "idle")
      BY <2>1, PhaseOf, SolePhase
    <3>2. Lines' = [Lines EXCEPT ![p] = LineOf(NoCommand)]
      BY <2>1, SoleLine
    <3>3. UNCHANGED <<store.exists, Listed>>
      BY <2>1 DEF Listed
    <3> QED
      BY <3>1, <3>2, <3>3 DEF ContentsStep, Contents!Step, Contents!End, Contents!store
  <2> QED
    BY <1>parts, <2>1, <2>2, <2>3 DEF SoleInv
<1>13. CASE Reconcile
  <2>1. PICK ready \in BOOLEAN :
          store' = [exists |-> TRUE, spec |-> store.spec, gen |-> store.gen,
                    status |-> [buildpacks |-> Provided(store.spec.sources),
                                observed |-> store.gen, ready |-> ready]]
    BY <1>13 DEF Reconcile
  <2>2. store.exists /\ UNCHANGED <<pc, cmd, todo, base, next>>
    BY <1>13 DEF Reconcile, locals
  <2>3. store'.spec = store.spec /\ store'.exists = store.exists /\ TruthfulStatus(store'.status)
    BY <2>1, <2>2 DEF TruthfulStatus, Provided, TypeInv, TypeOK
  <2>4. UNCHANGED Listed
    BY <2>3 DEF Listed
  <2>6. ContentsStep(p)
    <3>1. Phase(p)' = Phase(p)
      BY <2>2 DEF Phase
    <3> QED
      BY <2>2, <2>3, <3>1, Stutters
  <2>5. AtItsPlace(p)' /\ Collected(p)' /\ ReadIsCurrent(p)' /\ IsInEffect(p)'
    BY <1>parts, <2>2, <2>3, <2>4 DEF AtItsPlace, Collected, ReadIsCurrent, IsInEffect
  <2> QED
    BY <2>3, <2>5, <2>6 DEF SoleInv
<1>14. CASE SetDefaultRepository
  <2>1. UNCHANGED <<store, pc, cmd, todo, base, next>>
    BY <1>14 DEF SetDefaultRepository, locals
  <2>2. ContentsStep(p)
    <3>1. Phase(p)' = Phase(p)
      BY <2>1 DEF Phase
    <3> QED
      BY <2>1, <3>1, Stutters
  <2> QED
    BY <1>parts, <2>1, <2>2
    DEF SoleInv, AtItsPlace, Collected, ReadIsCurrent, IsInEffect, Listed
<1>15. CASE UNCHANGED vars
  <2>1. UNCHANGED <<store, pc, cmd, todo, base, next>>
    BY <1>15 DEF vars
  <2>2. ContentsStep(p)
    <3>1. Phase(p)' = Phase(p)
      BY <2>1 DEF Phase
    <3> QED
      BY <2>1, <3>1, Stutters
  <2> QED
    BY <1>parts, <2>1, <2>2
    DEF SoleInv, AtItsPlace, Collected, ReadIsCurrent, IsInEffect, Listed
<1> QED
  BY <1>1, <1>2, <1>3, <1>4, <1>5, <1>6, <1>7, <1>8, <1>9, <1>10, <1>11, <1>12, <1>13, <1>14, <1>15
  DEF Next, Command

\* With one terminal, a live create, add or save that reports success has its buildpackages
\* in the store, whatever failed or ran dry before it.
THEOREM AddTakesEffectCorrect ==
  ASSUME NEW p \in Procs, Procs = {p}
  PROVE  Spec => []AddTakesEffect
<1>1. Init => SoleInv(p)
  BY SoleInit
<1>2. TypeInv /\ TypeInv' /\ SoleInv(p) /\ [Next]_vars => SoleInv(p)'
  BY SoleStep
<1>3. SoleInv(p) => AddTakesEffect
  BY DEF SoleInv, IsInEffect, AddTakesEffect, Succeeded
<1> QED
  BY <1>1, <1>2, <1>3, TypeInvInductive, PTL DEF Spec

\* With one terminal, the store changes as StoreContents says: a run of kp changes it once, in
\* the step in which it is done, and by what its own command line names; a dry run, a run that
\* fails before its write and everybody else change nothing.
THEOREM ImplementsStoreContentsCorrect ==
  ASSUME NEW p \in Procs, Procs = {p}
  PROVE  Spec => ImplementsStoreContents
<1>1. Init => SoleInv(p) /\ Contents!Init
  BY SoleInit
<1>2. TypeInv /\ TypeInv' /\ SoleInv(p) /\ [Next]_vars => SoleInv(p)' /\ ContentsStep(p)
  BY SoleStep
<1>3. ContentsStep(p) => [Contents!Next]_(Contents!vars)
  BY DEF ContentsStep, Contents!Next, Contents!vars
<1> QED
  BY <1>1, <1>2, <1>3, TypeInvInductive, PTL DEF Spec, ImplementsStoreContents, Contents!Spec

-----------------------------------------------------------------------------
(* What a remove takes out, when its status is up to date *)

\* A status that observed the last generation lists what the store lists.
StatusIsFresh ==
  /\ store.status.observed <= store.gen
  /\ store.exists => store.gen > 0
  /\ store.exists /\ store.status.observed = store.gen
     => store.status.buildpacks = Provided(store.spec.sources)

LEMMA FreshInit == Init => StatusIsFresh
  BY DEF Init, StatusIsFresh, NoStore, NoStatus

LEMMA FreshStep == TypeInv /\ StatusIsFresh /\ [Next]_vars => StatusIsFresh'
<1> SUFFICES ASSUME TypeInv, StatusIsFresh, [Next]_vars
             PROVE  StatusIsFresh'
  OBVIOUS
<1>types. store.gen \in Nat /\ store.status.observed \in Nat
  BY DEF TypeInv, TypeOK, Status
<1>kept. ASSUME UNCHANGED store
         PROVE  StatusIsFresh'
  BY <1>kept DEF StatusIsFresh
<1>1. ASSUME NEW p \in Procs, CreateStore(p)
      PROVE  StatusIsFresh'
  <2>1. \/ UNCHANGED store
        \/ store' = [exists |-> TRUE, spec |-> next[p], gen |-> 1, status |-> NoStatus]
    BY <1>1 DEF CreateStore, Succeed, Fail
  <2> QED
    BY <2>1, <1>kept DEF StatusIsFresh, NoStatus
<1>2. ASSUME NEW p \in Procs, PatchStore(p)
      PROVE  StatusIsFresh'
  <2>1. CASE Fail(p)
    BY <2>1, <1>kept DEF Fail
  <2>2. CASE ~Fail(p)
    <3>1. PICK spec, gen :
            /\ gen = (IF spec = store.spec THEN store.gen ELSE store.gen + 1)
            /\ store' = [exists |-> TRUE, spec |-> spec, gen |-> gen, status |-> store.status]
            /\ store.exists
      BY <1>2, <2>2 DEF PatchStore
    <3>2. CASE spec = store.spec
      BY <3>1, <3>2 DEF StatusIsFresh
    <3>3. CASE spec # store.spec
      BY <1>types, <3>1, <3>3 DEF StatusIsFresh
    <3> QED
      BY <3>2, <3>3
  <2> QED
    BY <2>1, <2>2
<1>3. ASSUME NEW p \in Procs, UpdateStore(p) \/ PatchRemoved(p)
      PROVE  StatusIsFresh'
  <2>1. PatchStore(p) \/ UNCHANGED store
    BY <1>3 DEF UpdateStore, PatchRemoved, Succeed, Fail
  <2> QED
    BY <2>1, <1>2, <1>kept
<1>4. ASSUME NEW p \in Procs, DeleteStore(p)
      PROVE  StatusIsFresh'
  <2>1. UNCHANGED store \/ store' = NoStore
    BY <1>4 DEF DeleteStore, Succeed, Fail
  <2> QED
    BY <2>1, <1>kept DEF StatusIsFresh, NoStore, NoStatus
<1>5. ASSUME Reconcile
      PROVE  StatusIsFresh'
  <2>1. PICK ready \in BOOLEAN :
          store' = [exists |-> TRUE, spec |-> store.spec, gen |-> store.gen,
                    status |-> [buildpacks |-> Provided(store.spec.sources),
                                observed |-> store.gen, ready |-> ready]]
    BY <1>5 DEF Reconcile
  <2>2. store.exists
    BY <1>5 DEF Reconcile
  <2> QED
    BY <1>types, <2>1, <2>2 DEF StatusIsFresh
<1>6. ASSUME NEW p \in Procs,
             \/ Start(p) \/ GetForUpdate(p) \/ GetForRemove(p) \/ ReadConfig(p) \/ UploadBuildpackage(p)
             \/ WaitResolved(p) \/ WaitTimeout(p) \/ Crash(p) \/ Finish(p)
      PROVE  StatusIsFresh'
  <2>1. UNCHANGED store
    BY <1>6 DEF Start, GetForUpdate, GetForRemove, ReadConfig, UploadBuildpackage, WaitResolved,
                WaitTimeout, Crash, Finish, Succeed, Fail
  <2> QED
    BY <2>1, <1>kept
<1>7. CASE SetDefaultRepository \/ UNCHANGED vars
  BY <1>7, <1>kept DEF SetDefaultRepository, vars
<1> QED
  BY <1>1, <1>3, <1>4, <1>5, <1>6, <1>7 DEF Next, Command

LEMMA ExactStep ==
  ASSUME ProvidesApart
  PROVE  TypeInv /\ DigestsUnique /\ StatusIsFresh /\ [Next]_vars => [ExactRemoval]_vars
<1> SUFFICES ASSUME TypeInv, DigestsUnique, StatusIsFresh, NEW p \in Procs, GetForRemove(p),
                    pc'[p] # "failed", store.status.observed = store.gen
             PROVE  Digests(next'[p].sources) = Listed \ Providers(cmd[p].buildpacks)
  BY DEF ExactRemoval
<1>types. /\ pc \in [Procs -> PCs] /\ next \in [Procs -> [sources: Sources]]
          /\ store.spec.sources \in Sources /\ store.status \in Status
          /\ cmd[p].buildpacks \in Seq(Buildpacks)
  BY DEF TypeInv, TypeOK, CommandType
<1>1. ~Fail(p)
  BY <1>types DEF Fail, Goto
<1>2. PICK f \in StoreImages(store.status, cmd[p].buildpacks) :
        next' = [next EXCEPT ![p] =
          Spec1(RemoveSources(store.spec.sources, cmd[p].buildpacks, f))]
  BY <1>1 DEF GetForRemove
<1>3. next'[p].sources = RemoveSources(store.spec.sources, cmd[p].buildpacks, f)
  BY <1>types, <1>2 DEF Spec1
<1>4. store.exists
  BY <1>1 DEF GetForRemove
<1>5. store.status.buildpacks = Provided(store.spec.sources) /\ Unique(store.spec.sources)
  BY <1>4 DEF StatusIsFresh, DigestsUnique
<1> QED
  BY <1>types, <1>3, <1>5, RemoveIsExact DEF Listed

\* Whatever commands overlap: a remove that read an up to date status plans to take out what
\* its command line names and nothing else, if no two buildpackages hold the same buildpack
\* and no command line that creates a store repeats one.
THEOREM RemovesWhatIsNamed ==
  ASSUME CreatesDistinct, ProvidesApart
  PROVE  Spec => RemovalIsExact
<1>1. Spec => []DigestsUnique
  BY DigestsUniqueCorrect
<1>2. TypeInv /\ DigestsUnique /\ StatusIsFresh /\ [Next]_vars => [ExactRemoval]_vars
  BY ExactStep
<1> QED
  BY <1>1, <1>2, FreshInit, FreshStep, TypeInvInductive, PTL DEF Spec, RemovalIsExact
=============================================================================
