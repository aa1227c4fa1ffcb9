------------------------ MODULE LifecycleConfigProofs ------------------------
(***************************************************************************)
(* Proofs about `kp lifecycle patch` for any number of commands, writers   *)
(* and changes of the map.                                                 *)
(***************************************************************************)
EXTENDS LifecycleConfig, TLAPS

-----------------------------------------------------------------------------
(* Types                                                                   *)

\* What a command has read and worked out by the time it needs it.
Prepared ==
  \A p \in Procs :
    /\ pc[p] \in Working => source[p] \in Sources /\ old[p] \in ConfigMaps
    /\ pc[p] \in Working \ {"fetch"} => ref[p] \in Refs
    /\ pc[p] = "patch" => existing[p] \in ConfigMaps

\* A map that is patched stays a map.
LEMMA PatchedMap ==
  ASSUME NEW map \in ConfigMaps, NEW a \in ConfigMaps, NEW b \in ConfigMaps, NEW v \in Nat \ {0}
  PROVE  [ApplyMergePatch(map, CreatePatch(a, b)) EXCEPT !.version = v] \in ConfigMaps
<1> DEFINE m == ApplyMergePatch(map, CreatePatch(a, b))
<1>0. DOMAIN map = {"version", "image", "other"} /\ DOMAIN b = {"version", "image", "other"}
  BY DEF ConfigMaps
<1>1. m = [version |-> m.version, image |-> m.image, other |-> m.other]
  BY <1>0 DEF ApplyMergePatch
<1>2. m.image \in {map.image, b.image} /\ m.other \in {map.other, b.other}
  BY <1>0 DEF ApplyMergePatch, CreatePatch
<1>3. m.image \in Refs \cup {Elsewhere, NoValue} /\ m.other \in Settings \cup {NoValue}
  BY <1>2 DEF ConfigMaps
<1> HIDE DEF m
<1>4. [m EXCEPT !.version = v] = [version |-> v, image |-> m.image, other |-> m.other]
  BY <1>1
<1> QED BY <1>3, <1>4 DEF ConfigMaps, m

\* What others write is a map, too.
LEMMA ElsewhereTyped ==
  ASSUME TypeOK, EditElsewhere
  PROVE  cm' \in ConfigMaps \cup {NoValue} /\ version' \in Nat
<1>1. version \in Nat /\ version' = version + 1
  BY DEF TypeOK, EditElsewhere
<1>2. ASSUME NEW s \in Settings, cm # NoValue, cm' = [cm EXCEPT !.version = version + 1, !.other = s]
      PROVE  cm' \in ConfigMaps
  <2>1. cm \in ConfigMaps /\ cm' = [[cm EXCEPT !.version = version + 1] EXCEPT !.other = s]
    BY <1>2 DEF TypeOK
  <2>2. cm' = [version |-> version + 1, image |-> cm.image, other |-> s]
    BY <2>1 DEF ConfigMaps
  <2> QED BY <1>1, <2>1, <2>2 DEF ConfigMaps
<1>3. ASSUME cm # NoValue, cm' = [cm EXCEPT !.version = version + 1, !.image = Elsewhere]
      PROVE  cm' \in ConfigMaps
  <2>1. cm \in ConfigMaps /\ cm' = [[cm EXCEPT !.version = version + 1] EXCEPT !.image = Elsewhere]
    BY <1>3 DEF TypeOK
  <2>2. cm' = [version |-> version + 1, image |-> Elsewhere, other |-> cm.other]
    BY <2>1 DEF ConfigMaps
  <2> QED BY <1>1, <2>1, <2>2 DEF ConfigMaps
<1>4. ASSUME NEW s \in Settings \cup {NoValue},
             cm' = [version |-> version + 1, image |-> NoValue, other |-> s]
      PROVE  cm' \in ConfigMaps
  BY <1>1, <1>4 DEF ConfigMaps
<1>5. \/ \E s \in Settings : cm # NoValue /\ cm' = [cm EXCEPT !.version = version + 1, !.other = s]
      \/ cm # NoValue /\ cm' = [cm EXCEPT !.version = version + 1, !.image = Elsewhere]
      \/ \E s \in Settings \cup {NoValue} :
           cm' = [version |-> version + 1, image |-> NoValue, other |-> s]
      \/ cm' = NoValue
  BY DEF EditElsewhere
<1>6. cm' \in ConfigMaps \/ cm' = NoValue
  BY <1>2, <1>3, <1>4, <1>5
<1> QED BY <1>1, <1>6

\* The types of TypeOK, and that nobody works with what it has not read.
LEMMA TypesHold == Spec => [](TypeOK /\ Prepared)
<1>1. Init => TypeOK /\ Prepared
  <2> SUFFICES ASSUME Init PROVE TypeOK /\ Prepared
    OBVIOUS
  <2>1. cm \in ConfigMaps \cup {NoValue}
    BY DEF Init, ConfigMaps
  <2> QED BY <2>1 DEF Init, TypeOK, Prepared, Working, Modes
<1>2. TypeOK /\ Prepared /\ [Next]_vars => (TypeOK /\ Prepared)'
  <2> SUFFICES ASSUME TypeOK, Prepared, [Next]_vars PROVE (TypeOK /\ Prepared)'
    OBVIOUS
  <2>1. ASSUME NEW p \in Procs, Start(p) PROVE (TypeOK /\ Prepared)'
    BY <2>1 DEF Start, Goto, cluster, terminal, TypeOK, Prepared, Working, Modes
  <2>2. ASSUME NEW p \in Procs, Step(p) PROVE (TypeOK /\ Prepared)'
    <3>1. CASE Fetch(p)
      <4>1. Destination(p) \in Refs
        BY <3>1 DEF Fetch, CanFetch, TypeOK, Prepared, Working, Destination, Refs
      <4> QED BY <3>1, <4>1 DEF Fetch, CanFetch, Goto, cluster, terminal, TypeOK, Prepared, Working
    <3>2. CASE FetchFails(p) \/ EditFails(p) \/ PatchFails(p) \/ RequestFails(p)
      BY <3>2 DEF FetchFails, EditFails, PatchFails, RequestFails, Stop, Goto,
                  cluster, command, terminal, TypeOK, Prepared, Working
    <3>3. CASE Upload(p)
      BY <3>3 DEF Upload, Goto, cluster, TypeOK, Prepared, Working
    <3>4. CASE Edit(p)
      <4>1. [old[p] EXCEPT !.image = ref[p]] \in ConfigMaps
        BY <3>4 DEF Edit, Prepared, Working, ConfigMaps
      <4>2. old' = [old EXCEPT ![p] = [old[p] EXCEPT !.image = ref[p]]]
        BY <3>4 DEF Edit
      <4> QED BY <3>4, <4>1, <4>2 DEF Edit, Goto, cluster, terminal, TypeOK, Prepared, Working
    <3>5. CASE Read(p)
      BY <3>5 DEF Read, Goto, cluster, terminal, TypeOK, Prepared, Working
    <3>6. CASE Patch(p)
      <4>1. /\ cm \in ConfigMaps /\ version \in Nat
            /\ old[p] \in ConfigMaps /\ existing[p] \in ConfigMaps
        BY <3>6 DEF Patch, Accepted, TypeOK, Prepared, Working
      <4>2. [ApplyMergePatch(cm, PatchOf(p)) EXCEPT !.version = version + 1] \in ConfigMaps
        <5>1. version + 1 \in Nat \ {0}
          BY <4>1
        <5> QED BY <4>1, <5>1, PatchedMap DEF PatchOf
      <4>3. cm' \in ConfigMaps /\ version' \in Nat
        BY <3>6, <4>1, <4>2 DEF Patch
      <4> QED BY <3>6, <4>3 DEF Patch, Goto, command, terminal, TypeOK, Prepared, Working
    <3> QED BY <2>2, <3>1, <3>2, <3>3, <3>4, <3>5, <3>6 DEF Step
  <2>3. ASSUME NEW p \in Procs, Finish(p) PROVE (TypeOK /\ Prepared)'
    BY <2>3 DEF Finish, Goto, cluster, TypeOK, Prepared, Working, Modes
  <2>4. ASSUME NEW p \in Procs, Write(p) PROVE (TypeOK /\ Prepared)'
    <3>1. CASE NotTty(p) \/ BeginSpinning(p)
      BY <3>1 DEF NotTty, BeginSpinning, command, cluster, TypeOK, Prepared
    <3>2. CASE Tick(p)
      BY <3>2 DEF Tick, command, cluster, TypeOK, Prepared
    <3>3. CASE StopSpinning(p)
      BY <3>3 DEF StopSpinning, command, cluster, TypeOK, Prepared
    <3> QED BY <2>4, <3>1, <3>2, <3>3 DEF Write
  <2>5. CASE EditElsewhere
    BY <2>5, ElsewhereTyped DEF EditElsewhere, command, terminal, TypeOK, Prepared
  <2>6. CASE SetDefaultRepository
    BY <2>6 DEF SetDefaultRepository, command, terminal, TypeOK, Prepared
  <2>7. CASE UNCHANGED vars
    BY <2>7 DEF vars, TypeOK, Prepared
  <2> QED BY <2>1, <2>2, <2>3, <2>4, <2>5, <2>6, <2>7 DEF Next
<1> QED BY <1>1, <1>2, PTL DEF Spec

\* Every variable keeps its type, however the reads and writes of the map interleave.
THEOREM TypeCorrect == Spec => []TypeOK
BY TypesHold, PTL
-----------------------------------------------------------------------------
(* The spinner                                                             *)

\* The goroutine runs only while its command is in the relocator; then it closes its
\* channel and leaves a clear line.
SpinnerInv ==
  \A p \in Procs :
    /\ spinner[p] \in {"started", "spinning"} =>
         pc[p] \in {"upload", "return"} /\ mode[p] # "dry" /\ ~doneChan[p]
    /\ spinner[p] # "spinning" => line[p] = "clear"
    /\ pc[p] \in {"idle", "fetch"} => spinner[p] = "none" /\ ~doneChan[p]

\* Stop waits for the goroutine to close its channel, on every way out of Relocate.
THEOREM LineIsClearCorrect == Spec => []LineIsClear
<1>1. Init => SpinnerInv
  BY DEF Init, SpinnerInv
<1>2. TypeOK /\ SpinnerInv /\ [Next]_vars => SpinnerInv'
  <2> SUFFICES ASSUME TypeOK, SpinnerInv, [Next]_vars PROVE SpinnerInv'
    OBVIOUS
  <2> USE DEF SpinnerInv, TypeOK
  <2>1. ASSUME NEW p \in Procs, Start(p) PROVE SpinnerInv'
    BY <2>1 DEF Start, Goto, terminal, Modes
  <2>2. ASSUME NEW p \in Procs, Step(p) PROVE SpinnerInv'
    <3>1. CASE Fetch(p)
      BY <3>1 DEF Fetch, CanFetch, Goto, terminal, CanChangeState
    <3>2. CASE FetchFails(p) \/ PatchFails(p) \/ RequestFails(p)
      BY <3>2 DEF FetchFails, PatchFails, RequestFails, Stop, Goto, command, terminal
    <3>3. CASE Upload(p)
      BY <3>3 DEF Upload, Goto
    <3>4. CASE Edit(p)
      BY <3>4 DEF Edit, Goto, terminal, Relocated, CanChangeState
    <3>5. CASE EditFails(p)
      BY <3>5 DEF EditFails, Stop, Goto, command, terminal, Relocated, CanChangeState
    <3>6. CASE Read(p)
      BY <3>6 DEF Read, Goto, terminal
    <3>7. CASE Patch(p)
      BY <3>7 DEF Patch, Goto, command, terminal
    <3> QED BY <2>2, <3>1, <3>2, <3>3, <3>4, <3>5, <3>6, <3>7 DEF Step
  <2>3. ASSUME NEW p \in Procs, Finish(p) PROVE SpinnerInv'
    BY <2>3 DEF Finish, Goto
  <2>4. ASSUME NEW p \in Procs, Write(p) PROVE SpinnerInv'
    BY <2>4 DEF Write, NotTty, BeginSpinning, Tick, StopSpinning, command
  <2>5. CASE EditElsewhere \/ SetDefaultRepository
    <3>1. UNCHANGED <<pc, mode, doneChan, spinner, line>>
      BY <2>5 DEF EditElsewhere, SetDefaultRepository, command, terminal
    <3> QED BY <3>1
  <2>6. CASE UNCHANGED vars
    BY <2>6 DEF vars
  <2> QED BY <2>1, <2>2, <2>3, <2>4, <2>5, <2>6 DEF Next
<1>3. TypeOK /\ SpinnerInv => LineIsClear
  BY DEF TypeOK, SpinnerInv, LineIsClear
<1> QED BY <1>1, <1>2, <1>3, TypeCorrect, PTL DEF Spec
-----------------------------------------------------------------------------
(* The map                                                                 *)

\* What the merge of a patch gives: each key is the edited one if it differs from what
\* was read just before, and else what is in the cluster.
LEMMA Merged ==
  ASSUME TypeOK, Prepared, NEW p \in Procs, Patch(p)
  PROVE  /\ cm \in ConfigMaps /\ cm' \in ConfigMaps
         /\ old[p] \in ConfigMaps /\ existing[p] \in ConfigMaps
         /\ \/ cm' = cm /\ version' = version
            \/ /\ version' = version + 1 /\ cm'.version = version + 1
               /\ cm'.image = IF old[p].image # existing[p].image THEN old[p].image ELSE cm.image
               /\ cm'.other = IF old[p].other # existing[p].other THEN old[p].other ELSE cm.other
               /\ old[p].version # existing[p].version => old[p].version = cm.version
               /\ \E k \in {"version", "image", "other"} : old[p][k] # existing[p][k]
<1> DEFINE m == ApplyMergePatch(cm, PatchOf(p))
<1>1. /\ cm \in ConfigMaps /\ version \in Nat
      /\ old[p] \in ConfigMaps /\ existing[p] \in ConfigMaps
  BY DEF Patch, Accepted, TypeOK, Prepared, Working
<1>2. /\ DOMAIN cm = {"version", "image", "other"}
      /\ DOMAIN old[p] = {"version", "image", "other"}
  BY <1>1 DEF ConfigMaps
<1>3. m = [version |-> m.version, image |-> m.image, other |-> m.other]
  BY <1>2 DEF ApplyMergePatch
<1>4. /\ m.image = IF old[p].image # existing[p].image THEN old[p].image ELSE cm.image
      /\ m.other = IF old[p].other # existing[p].other THEN old[p].other ELSE cm.other
      /\ old[p].version = existing[p].version => m.version = cm.version
  BY <1>2 DEF ApplyMergePatch, PatchOf, CreatePatch
<1>5. old[p].version # existing[p].version => old[p].version = cm.version
  BY <1>2 DEF Patch, Accepted, PatchOf, CreatePatch
<1>6. \/ m # cm /\ version' = version + 1 /\ cm' = [m EXCEPT !.version = version + 1]
      \/ m = cm /\ cm' = cm /\ version' = version
  BY DEF Patch
<1>7. cm = [version |-> cm.version, image |-> cm.image, other |-> cm.other]
  BY <1>1 DEF ConfigMaps
<1>8. m # cm => \E k \in {"version", "image", "other"} : old[p][k] # existing[p][k]
  BY <1>3, <1>4, <1>7
<1> HIDE DEF m
<1>9. [m EXCEPT !.version = version + 1]
        = [version |-> version + 1, image |-> m.image, other |-> m.other]
  BY <1>3
<1>10. version + 1 \in Nat \ {0}
  BY <1>1
<1>11. [m EXCEPT !.version = version + 1] \in ConfigMaps
  BY <1>1, <1>10, PatchedMap DEF m, PatchOf
<1> QED BY <1>1, <1>4, <1>5, <1>6, <1>8, <1>9, <1>11

\* What others do to the map.
LEMMA Elsewheres ==
  ASSUME TypeOK, EditElsewhere
  PROVE  /\ version' = version + 1
         /\ cm' # NoValue =>
              /\ cm'.version = version + 1
              /\ cm'.image \in {Elsewhere, NoValue} \/ (cm # NoValue /\ cm'.image = cm.image)
<1>1. ASSUME NEW s \in Settings, cm # NoValue, cm' = [cm EXCEPT !.version = version + 1, !.other = s]
      PROVE  cm'.version = version + 1 /\ cm'.image = cm.image
  <2>1. cm \in ConfigMaps /\ cm' = [[cm EXCEPT !.version = version + 1] EXCEPT !.other = s]
    BY <1>1 DEF TypeOK
  <2> QED BY <2>1 DEF ConfigMaps
<1>2. ASSUME cm # NoValue, cm' = [cm EXCEPT !.version = version + 1, !.image = Elsewhere]
      PROVE  cm'.version = version + 1 /\ cm'.image = Elsewhere
  <2>1. cm \in ConfigMaps /\ cm' = [[cm EXCEPT !.version = version + 1] EXCEPT !.image = Elsewhere]
    BY <1>2 DEF TypeOK
  <2> QED BY <2>1 DEF ConfigMaps
<1>3. \/ \E s \in Settings : cm # NoValue /\ cm' = [cm EXCEPT !.version = version + 1, !.other = s]
      \/ cm # NoValue /\ cm' = [cm EXCEPT !.version = version + 1, !.image = Elsewhere]
      \/ \E s \in Settings \cup {NoValue} :
           cm' = [version |-> version + 1, image |-> NoValue, other |-> s]
      \/ cm' = NoValue
  BY DEF EditElsewhere
<1>4. ASSUME NEW s \in Settings \cup {NoValue},
             cm' = [version |-> version + 1, image |-> NoValue, other |-> s]
      PROVE  cm'.version = version + 1 /\ cm'.image = NoValue
  BY <1>4
<1>5. version' = version + 1
  BY DEF EditElsewhere
<1>6. \/ cm # NoValue /\ cm'.version = version + 1 /\ cm'.image \in {cm.image, Elsewhere}
      \/ cm'.version = version + 1 /\ cm'.image = NoValue
      \/ cm' = NoValue
  BY <1>1, <1>2, <1>3, <1>4
<1> QED BY <1>5, <1>6

\* An image is in the registry from the time its upload is known to have succeeded; a
\* command that gets to the second read is no dry run.
UploadInv ==
  /\ NamesUploaded
  /\ \A p \in Procs :
       /\ pc[p] = "return" /\ result[p] = "ok" /\ mode[p] # "dry" => ref[p] \in registry
       /\ pc[p] \in {"read", "patch"} => old[p].image = ref[p] /\ ref[p] \in registry

\* The image that kp puts into the map is in the registry.
THEOREM NamesUploadedCorrect == Spec => []NamesUploaded
<1>1. Init => UploadInv
  BY DEF Init, UploadInv, NamesUploaded
<1>2. TypeOK /\ Prepared /\ UploadInv /\ [Next]_vars => UploadInv'
  <2> SUFFICES ASSUME TypeOK, Prepared, UploadInv, [Next]_vars PROVE UploadInv'
    OBVIOUS
  <2> USE DEF UploadInv, NamesUploaded
  <2>0. /\ pc \in [Procs -> Working \cup {"idle", "ok", "failed"}] /\ mode \in [Procs -> Modes]
        /\ DOMAIN result = Procs /\ DOMAIN ref = Procs /\ DOMAIN old = Procs
    BY DEF TypeOK
  <2>1. ASSUME NEW p \in Procs, Start(p) PROVE UploadInv'
    BY <2>0, <2>1 DEF Start, Goto, cluster
  <2>2. ASSUME NEW p \in Procs, Step(p) PROVE UploadInv'
    <3>1. CASE Fetch(p)
      BY <2>0, <3>1 DEF Fetch, CanFetch, Goto, cluster, CanChangeState
    <3>2. CASE FetchFails(p) \/ EditFails(p) \/ PatchFails(p) \/ RequestFails(p)
      BY <2>0, <3>2 DEF FetchFails, EditFails, PatchFails, RequestFails, Stop, Goto, cluster, command
    <3>3. CASE Upload(p)
      BY <2>0, <3>3 DEF Upload, Goto, cluster
    <3>4. CASE Edit(p)
      <4>1. old'[p].image = ref[p]
        BY <2>0, <3>4 DEF Edit, Prepared, Working, ConfigMaps
      <4> QED BY <2>0, <3>4, <4>1 DEF Edit, Goto, cluster
    <3>5. CASE Read(p)
      BY <2>0, <3>5 DEF Read, Goto, cluster
    <3>6. CASE Patch(p)
      <4>1. cm'.image \in {cm.image, ref[p]} /\ cm \in ConfigMaps
        BY <3>6, Merged DEF Patch
      <4>2. UNCHANGED <<registry, mode, ref, result, old>> /\ pc' = [pc EXCEPT ![p] = "ok"]
        BY <3>6 DEF Patch, Goto, command
      <4>3. ref[p] \in registry /\ cm # NoValue
        BY <3>6 DEF Patch, Accepted
      <4> QED BY <2>0, <4>1, <4>2, <4>3
    <3> QED BY <2>2, <3>1, <3>2, <3>3, <3>4, <3>5, <3>6 DEF Step
  <2>3. ASSUME NEW p \in Procs, Finish(p) PROVE UploadInv'
    BY <2>0, <2>3 DEF Finish, Goto, cluster
  <2>4. ASSUME NEW p \in Procs, Write(p) PROVE UploadInv'
    BY <2>4 DEF Write, NotTty, BeginSpinning, Tick, StopSpinning, command, cluster
  <2>5. CASE EditElsewhere
    BY <2>5, Elsewheres DEF EditElsewhere, command
  <2>6. CASE SetDefaultRepository
    BY <2>6 DEF SetDefaultRepository, command
  <2>7. CASE UNCHANGED vars
    BY <2>7 DEF vars
  <2> QED BY <2>1, <2>2, <2>3, <2>4, <2>5, <2>6, <2>7 DEF Next
<1> QED BY <1>1, <1>2, TypesHold, PTL DEF Spec, UploadInv
-----------------------------------------------------------------------------
(* Lost updates                                                            *)

\* Two reads of the map that found the same version found the same other key.
SameRead(a, b) == a.version <= b.version /\ (a.version = b.version => a.other = b.other)

\* No version comes back, so versions tell how reads and writes followed each other.
VersionInv ==
  /\ cm # NoValue => cm.version <= version
  /\ \A p \in Procs :
       /\ pc[p] \in Working =>
            old[p].version <= version /\ (cm # NoValue => SameRead(old[p], cm))
       /\ pc[p] \in {"read", "patch"} => old[p].image = ref[p]
       /\ pc[p] = "patch" =>
            /\ existing[p].version <= version /\ SameRead(old[p], existing[p])
            /\ cm # NoValue => SameRead(existing[p], cm)

\* A map with a version of its own is later than all that was read.
LEMMA Later ==
  ASSUME TypeOK, Prepared, VersionInv, UNCHANGED <<old, existing, ref>>,
         version' = version + 1,
         cm' # NoValue => cm'.version = version + 1,
         \A p \in Procs : pc'[p] \in Working => pc'[p] = pc[p]
  PROVE  VersionInv'
<1>1. version \in Nat
  BY DEF TypeOK
<1>2. \A p \in Procs : pc[p] \in Working => old[p].version \in Nat
  BY DEF Prepared, ConfigMaps
<1>3. \A p \in Procs : pc[p] = "patch" => existing[p].version \in Nat
  BY DEF Prepared, ConfigMaps
<1> QED BY <1>1, <1>2, <1>3 DEF VersionInv, SameRead, Working

\* The locals and the map keep their order.
LEMMA VersionsHold == Spec => []VersionInv
<1>1. Init => VersionInv
  BY DEF Init, VersionInv, Working
<1>2. TypeOK /\ Prepared /\ VersionInv /\ [Next]_vars => VersionInv'
  <2> SUFFICES ASSUME TypeOK, Prepared, VersionInv, [Next]_vars PROVE VersionInv'
    OBVIOUS
  <2>0. /\ pc \in [Procs -> Working \cup {"idle", "ok", "failed"}]
        /\ DOMAIN ref = Procs /\ DOMAIN old = Procs /\ DOMAIN existing = Procs
        /\ version \in Nat /\ (cm # NoValue => cm \in ConfigMaps /\ cm.version \in Nat)
    BY DEF TypeOK, ConfigMaps
  <2>1. ASSUME NEW p \in Procs, Start(p) PROVE VersionInv'
    BY <2>0, <2>1 DEF Start, Goto, cluster, VersionInv, SameRead, Working
  <2>2. ASSUME NEW p \in Procs, Step(p) PROVE VersionInv'
    <3>1. CASE Fetch(p)
      BY <2>0, <3>1 DEF Fetch, CanFetch, Goto, cluster, VersionInv, Working
    <3>2. CASE FetchFails(p) \/ EditFails(p) \/ PatchFails(p) \/ RequestFails(p)
      BY <2>0, <3>2 DEF FetchFails, EditFails, PatchFails, RequestFails, Stop, Goto,
                        cluster, command, VersionInv, Working
    <3>3. CASE Upload(p)
      BY <2>0, <3>3 DEF Upload, Goto, cluster, VersionInv, Working
    <3>4. CASE Edit(p)
      <4>1. /\ old'[p].image = ref[p]
            /\ old'[p].version = old[p].version /\ old'[p].other = old[p].other
        BY <2>0, <3>4 DEF Edit, Prepared, Working, ConfigMaps
      <4>2. \A q \in Procs \ {p} : old'[q] = old[q] /\ pc'[q] = pc[q]
        BY <2>0, <3>4 DEF Edit, Goto
      <4>3. pc[p] = "return" /\ pc'[p] \in {"read", "ok"} /\ UNCHANGED <<cm, version, ref, existing>>
        BY <2>0, <3>4 DEF Edit, Goto, cluster
      <4> QED BY <4>1, <4>2, <4>3 DEF VersionInv, SameRead, Working
    <3>5. CASE Read(p)
      BY <2>0, <3>5 DEF Read, Goto, cluster, VersionInv, SameRead, Working
    <3>6. CASE Patch(p)
      <4>1. UNCHANGED <<old, existing, ref>> /\ pc' = [pc EXCEPT ![p] = "ok"]
        BY <3>6 DEF Patch, Goto, command
      <4>2. \A q \in Procs : pc'[q] \in Working => pc'[q] = pc[q]
        BY <2>0, <4>1 DEF Working
      <4>3. CASE version' = version + 1 /\ cm'.version = version + 1
        BY <4>1, <4>2, <4>3, Later
      <4>4. CASE cm' = cm /\ version' = version
        BY <2>0, <4>1, <4>4 DEF VersionInv, Working
      <4> QED BY <3>6, <4>3, <4>4, Merged
    <3> QED BY <2>2, <3>1, <3>2, <3>3, <3>4, <3>5, <3>6 DEF Step
  <2>3. ASSUME NEW p \in Procs, Finish(p) PROVE VersionInv'
    BY <2>0, <2>3 DEF Finish, Goto, cluster, VersionInv, Working
  <2>4. ASSUME NEW p \in Procs, Write(p) PROVE VersionInv'
    BY <2>4 DEF Write, NotTty, BeginSpinning, Tick, StopSpinning, command, cluster, VersionInv
  <2>5. CASE EditElsewhere
    <3>1. UNCHANGED <<old, existing, ref, pc>>
      BY <2>5 DEF EditElsewhere, command
    <3> QED BY <2>5, <3>1, Elsewheres, Later
  <2>6. CASE SetDefaultRepository
    BY <2>6 DEF SetDefaultRepository, command, VersionInv
  <2>7. CASE UNCHANGED vars
    BY <2>7 DEF vars, VersionInv
  <2> QED BY <2>1, <2>2, <2>3, <2>4, <2>5, <2>6, <2>7 DEF Next
<1> QED BY <1>1, <1>2, TypesHold, PTL DEF Spec

\* A patch is accepted only if the map was the same at both reads, and then it sets the
\* image and nothing else: what others wrote meanwhile stays.
THEOREM UndoesNothingCorrect == Spec => UndoesNothing
<1> DEFINE Undisturbed ==
      \A p \in Procs : pc[p] = "patch" /\ pc'[p] = "ok" /\ cm' # cm =>
        /\ old[p].version = existing[p].version
        /\ cm'.other = cm.other /\ cm'.image = ref[p]
<1>1. TypeOK /\ Prepared /\ VersionInv /\ [Next]_vars => [Undisturbed]_vars
  <2> SUFFICES ASSUME TypeOK, Prepared, VersionInv, Next,
                      NEW p \in Procs, pc[p] = "patch", pc'[p] = "ok", cm' # cm
               PROVE  /\ old[p].version = existing[p].version
                      /\ cm'.other = cm.other /\ cm'.image = ref[p]
    OBVIOUS
  <2>1. Patch(p)
    <3>0. pc \in [Procs -> Working \cup {"idle", "ok", "failed"}]
      BY DEF TypeOK
    <3>1. ASSUME NEW q \in Procs, Start(q) \/ Finish(q) \/ Write(q) PROVE FALSE
      BY <3>0, <3>1 DEF Start, Finish, Write, NotTty, BeginSpinning, Tick, StopSpinning, Goto
    <3>2. ASSUME NEW q \in Procs, Step(q), ~Patch(q) PROVE FALSE
      BY <3>0, <3>2 DEF Step, Fetch, CanFetch, FetchFails, Upload, Edit, EditFails, Read, PatchFails,
                        RequestFails, Stop, Goto, cluster
    <3>3. ASSUME NEW q \in Procs, Patch(q) PROVE q = p
      BY <3>0, <3>3 DEF Patch, Goto
    <3>4. CASE EditElsewhere \/ SetDefaultRepository
      BY <3>4 DEF EditElsewhere, SetDefaultRepository
    <3> QED BY <3>1, <3>2, <3>3, <3>4 DEF Next
  <2>2. /\ old[p].version \in Nat /\ existing[p].version \in Nat /\ cm.version \in Nat
        /\ cm # NoValue
        /\ old[p].version <= existing[p].version /\ existing[p].version <= cm.version
        /\ old[p].version = existing[p].version => old[p].other = existing[p].other
        /\ old[p].image = ref[p]
    BY <2>1, Merged DEF Patch, Accepted, VersionInv, SameRead, ConfigMaps
  <2>3. /\ cm'.image = IF old[p].image # existing[p].image THEN old[p].image ELSE cm.image
        /\ cm'.other = IF old[p].other # existing[p].other THEN old[p].other ELSE cm.other
        /\ old[p].version # existing[p].version => old[p].version = cm.version
        /\ \E k \in {"version", "image", "other"} : old[p][k] # existing[p][k]
    BY <2>1, Merged
  <2>4. old[p].version = existing[p].version
    BY <2>2, <2>3
  <2> QED BY <2>2, <2>3, <2>4
<1>2. Spec => [][Undisturbed]_vars
  BY <1>1, TypesHold, VersionsHold, PTL DEF Spec
<1> QED BY <1>2 DEF UndoesNothing
=============================================================================
