---------------------------- MODULE BuildsProofs ----------------------------
(***************************************************************************)
(* Theorems about Builds, that its commands show what they were asked for  *)
(* and nothing that contradicts itself, and about the clients of           *)
(* KpackCompat that such commands get: the wrapper acts as a v1alpha2      *)
(* server does, for any kinds of fields and any objects, but for the       *)
(* patches of fields that the two versions name differently.               *)
(***************************************************************************)
EXTENDS Builds, KpackCompat, FiniteSetTheorems, TLAPS

-----------------------------------------------------------------------------
(* Numbers *)

\* A set of numbers that are bounded has a greatest.
LEMMA Greatest ==
  ASSUME NEW S, S \subseteq Nat, S # {}, NEW bound \in Nat, \A n \in S : n <= bound
  PROVE  \E m \in S : \A n \in S : n <= m
<1>0. \A n \in S : n \in Nat /\ bound - n \in Nat
  OBVIOUS
<1> DEFINE T == {bound - n : n \in S}
           less == OpToRel(<, Nat)
<1>1. T \subseteq Nat /\ T # {}
  BY <1>0
<1>2. IsWellFoundedOn(less, Nat)
  BY NatLessThanWellFounded, Zenon
<1>3. \A x, y \in Nat : y < x => <<y, x>> \in less
  BY DEF OpToRel
<1> HIDE DEF less, T
<1>4. PICK x \in T : \A y \in T : ~(<<y, x>> \in less)
  BY <1>1, <1>2, WFMin
<1>5. \A y \in T : x <= y
  <2> SUFFICES ASSUME NEW y \in T
               PROVE  x <= y
    OBVIOUS
  <2>1. x \in Nat /\ y \in Nat
    BY <1>1
  <2>2. ~(y < x)
    BY <1>3, <1>4, <2>1, Zenon
  <2> QED
    BY <2>1, <2>2
<1>6. PICK m \in S : x = bound - m
  BY DEF T
<1>7. \A n \in S : bound - n \in T
  BY DEF T
<1> QED
  BY <1>0, <1>5, <1>6, <1>7

-----------------------------------------------------------------------------
(* The builds *)

BuildRecord == [number : Nat, created : Nat, outcome : Outcomes, needed : BOOLEAN]

\* Builds are numbered and created in the same order, and kpack keeps the last.  Only the
\* last may be running.
IsHistory ==
  /\ counter \in 0..MaxBuilds
  /\ builds \subseteq BuildRecord
  /\ \A b \in builds : b.number \in 1..counter
  /\ \A a, b \in builds : a.number = b.number => a = b
  /\ \A a, b \in builds : a.number < b.number => a.created < b.created
  /\ \A b \in builds : b.outcome = "running" => b.number = counter
  /\ counter > 0 => \E b \in builds : b.number = counter

\* What an image says of a success is borne out by a build that is still there.
HasSuccess(n) == \E b \in builds : b.outcome = "success" /\ n <= b.number
Backed(i) ==
  /\ i.latest > 0 => HasSuccess(i.latest)
  /\ i.ready = "True" => HasSuccess(0)

\* An image that a process has read is as good as the image: successes are not undone.
ImagesBacked ==
  /\ image \in ImageType /\ Backed(image)
  /\ got \in [Procs -> ImageType] /\ \A p \in Procs : Backed(got[p])

BuildsInv == IsHistory /\ ImagesBacked

LEMMA NewestBuild ==
  ASSUME IsHistory, builds # {}
  PROVE  Newest \in builds /\ Newest.number = counter /\ counter \in 1..MaxBuilds
<1>1. counter \in 1..MaxBuilds
  BY DEF IsHistory
<1>2. PICK last \in builds : last.number = counter
  BY <1>1 DEF IsHistory
<1>3. \A other \in builds : other.number <= last.number
  BY <1>2 DEF IsHistory
<1>4. Newest \in builds /\ \A other \in builds : other.number <= Newest.number
  BY <1>3 DEF Newest
<1> QED
  BY <1>1, <1>2, <1>4 DEF IsHistory

LEMMA NewImageBacked == NewImage \in ImageType /\ Backed(NewImage)
  BY BuildsAssumption DEF NewImage, ImageType, Backed

LEMMA BuildsInit == Init => BuildsInv
<1> SUFFICES ASSUME Init
             PROVE  BuildsInv
  OBVIOUS
<1>1. IsHistory
  BY BuildsAssumption DEF Init, IsHistory
<1>2. image \in ImageType /\ got \in [Procs -> ImageType]
  BY NewImageBacked DEF Init
<1>3. Backed(image) /\ \A p \in Procs : Backed(got[p])
  BY NewImageBacked DEF Init
<1> QED
  BY <1>1, <1>2, <1>3 DEF BuildsInv, ImagesBacked

\* While no success is undone, no image loses what bears it out.
LEMMA StaysBacked ==
  ASSUME \A n \in Nat : HasSuccess(n) => HasSuccess(n)', NEW i \in ImageType, Backed(i)
  PROVE  Backed(i)'
<1>1. i.latest \in Nat
  BY BuildsAssumption DEF ImageType
<1> QED
  BY <1>1 DEF Backed

\* The annotation changes nothing a status looks at.
LEMMA TriggerPatchStep ==
  ASSUME BuildsInv, NEW p \in Procs, TriggerPatch(p)
  PROVE  BuildsInv'
<1> DEFINE annotated == {b \in builds : b.number = target[p]}
           needed(b) == [b EXCEPT !.needed = TRUE]
<1>1. builds' = (builds \ annotated) \cup {needed(b) : b \in annotated}
  BY DEF TriggerPatch
<1>2. UNCHANGED <<counter, image>> /\ got' = [got EXCEPT ![p] = NewImage]
  BY DEF TriggerPatch, Idle
<1>3. \A b \in builds : b \in BuildRecord
  BY DEF BuildsInv, IsHistory
<1>4. \A b \in builds : /\ needed(b) \in BuildRecord
                        /\ needed(b).number = b.number
                        /\ needed(b).created = b.created
                        /\ needed(b).outcome = b.outcome
  BY <1>3 DEF BuildRecord
<1> HIDE DEF needed
<1>5. \A c \in builds' : \E b \in builds :
        /\ c = (IF b.number = target[p] THEN needed(b) ELSE b)
        /\ c \in BuildRecord /\ c.number = b.number /\ c.created = b.created /\ c.outcome = b.outcome
  BY <1>1, <1>3, <1>4
<1>6. \A b \in builds : \E c \in builds' :
        c.number = b.number /\ c.created = b.created /\ c.outcome = b.outcome
  BY <1>1, <1>4
<1> HIDE DEF annotated
<1>7. IsHistory'
  <2>1. \A c \in builds' : c \in BuildRecord /\ c.number \in 1..counter
    BY <1>5 DEF BuildsInv, IsHistory
  <2>2. \A c, d \in builds' : c.number = d.number => c = d
    BY <1>5 DEF BuildsInv, IsHistory
  <2>3. \A c, d \in builds' : c.number < d.number => c.created < d.created
    BY <1>5 DEF BuildsInv, IsHistory
  <2>4. \A c \in builds' : c.outcome = "running" => c.number = counter
    BY <1>5 DEF BuildsInv, IsHistory
  <2>5. counter > 0 => \E c \in builds' : c.number = counter
    BY <1>6 DEF BuildsInv, IsHistory
  <2>6. counter' \in 0..MaxBuilds
    BY <1>2 DEF BuildsInv, IsHistory
  <2> QED
    BY <1>2, <2>1, <2>2, <2>3, <2>4, <2>5, <2>6 DEF IsHistory
<1>8. \A n \in Nat : HasSuccess(n) => HasSuccess(n)'
  BY <1>6 DEF HasSuccess
<1>9. ImagesBacked'
  <2>1. ASSUME NEW i \in ImageType, Backed(i)
        PROVE  Backed(i)'
    BY <1>8, <2>1, StaysBacked
  <2>2. image' \in ImageType /\ Backed(image)'
    BY <1>2, <2>1 DEF BuildsInv, ImagesBacked, Backed
  <2>3. got' \in [Procs -> ImageType]
    BY <1>2, NewImageBacked DEF BuildsInv, ImagesBacked
  <2>4. \A q \in Procs : got'[q] \in {got[q], NewImage}
    BY <1>2 DEF BuildsInv, ImagesBacked
  <2>5. \A q \in Procs : Backed(got[q])'
    <3>1. \A i \in ImageType : Backed(i) => Backed(i)'
      BY <2>1
    <3>2. \A q \in Procs : Backed(got[q]) /\ got[q] \in ImageType
      BY DEF BuildsInv, ImagesBacked
    <3> QED
      BY <2>4, <3>1, <3>2, NewImageBacked DEF Backed
  <2> QED
    BY <2>2, <2>3, <2>5 DEF ImagesBacked
<1> QED
  BY <1>7, <1>9 DEF BuildsInv

\* The commands that only read: they keep the image they read, or forget it.
LEMMA ReadStep ==
  ASSUME BuildsInv, UNCHANGED cluster, NEW p \in Procs,
         UNCHANGED got \/ got' = [got EXCEPT ![p] = image] \/ got' = [got EXCEPT ![p] = NewImage]
  PROVE  BuildsInv'
<1>1. UNCHANGED <<builds, counter, image>>
  BY DEF cluster
<1>2. IsHistory'
  BY <1>1 DEF BuildsInv, IsHistory
<1>3. \A q \in Procs : got'[q] \in {got[q], image, NewImage}
  BY DEF BuildsInv, ImagesBacked
<1>4. got' \in [Procs -> ImageType]
  BY NewImageBacked DEF BuildsInv, ImagesBacked
<1>5. \A q \in Procs : Backed(got[q]) /\ Backed(image)
  BY DEF BuildsInv, ImagesBacked
<1>6. \A q \in Procs : Backed(got'[q])
  BY <1>3, <1>5, NewImageBacked DEF Backed
<1>7. \A n : HasSuccess(n) <=> HasSuccess(n)'
  BY <1>1 DEF HasSuccess
<1>8. \A q \in Procs : Backed(got[q])'
  BY <1>6, <1>7 DEF Backed
<1>9. Backed(image)'
  BY <1>1, <1>7 DEF Backed, BuildsInv, ImagesBacked
<1> QED
  BY <1>1, <1>2, <1>4, <1>8, <1>9 DEF BuildsInv, ImagesBacked

\* A step that undoes no success, takes an image that the builds bear out and leaves what
\* the processes have read.
LEMMA ImagesStayBacked ==
  ASSUME ImagesBacked, \A n \in Nat : HasSuccess(n) => HasSuccess(n)',
         image' \in ImageType, Backed(image)', UNCHANGED got
  PROVE  ImagesBacked'
<1>1. ASSUME NEW i \in ImageType, Backed(i)
      PROVE  Backed(i)'
  BY <1>1, StaysBacked
<1>2. \A p \in Procs : Backed(got[p])'
  <2>1. \A i \in ImageType : Backed(i) => Backed(i)'
    BY <1>1
  <2> QED
    BY <2>1 DEF ImagesBacked, Backed
<1> QED
  BY <1>2 DEF ImagesBacked

\* As above, for an image that stays or changes in nothing but its inputs and its builder.
LEMMA ImageStaysBacked ==
  ASSUME ImagesBacked, \A n \in Nat : HasSuccess(n) => HasSuccess(n)',
         image' \in ImageType, image'.latest = image.latest,
         image'.ready \in {image.ready, "Unknown"}
  PROVE  Backed(image)'
<1>1. image.latest \in Nat
  BY BuildsAssumption DEF ImagesBacked, ImageType
<1> QED
  BY <1>1 DEF ImagesBacked, Backed

LEMMA CreateBuildStep ==
  ASSUME BuildsInv, 0 \notin Gaps, CreateBuild
  PROVE  BuildsInv'
<1>1. PICK gap \in Gaps :
        builds' = builds \cup {Build(counter + 1, IF builds = {} THEN 0 ELSE Newest.created + gap)}
  BY DEF CreateBuild
<1>2. /\ counter' = counter + 1 /\ counter < MaxBuilds /\ counter \in Nat
      /\ image' = [image EXCEPT !.changed = FALSE, !.ready = "Unknown"] /\ UNCHANGED got
      /\ builds # {} => Newest.outcome # "running"
  BY BuildsAssumption DEF CreateBuild, BuildsInv, IsHistory, locals
<1> DEFINE at == IF builds = {} THEN 0 ELSE Newest.created + gap
           new == Build(counter + 1, at)
<1>3. at \in Nat /\ \A b \in builds : b.created < at
  <2>1. CASE builds = {}
    BY <2>1
  <2>2. CASE builds # {}
    <3>1. Newest \in builds /\ Newest.number = counter
      BY <2>2, NewestBuild DEF BuildsInv
    <3>2. Newest.created \in Nat /\ gap \in Nat /\ gap > 0
      BY <3>1, BuildsAssumption DEF BuildsInv, IsHistory, BuildRecord
    <3>3. \A b \in builds : b.created \in Nat /\ b.created <= Newest.created
      <4> SUFFICES ASSUME NEW b \in builds
                   PROVE  b.created \in Nat /\ b.created <= Newest.created
        OBVIOUS
      <4>1. b.created \in Nat /\ b.number \in 1..counter
        BY DEF BuildsInv, IsHistory, BuildRecord
      <4>2. CASE b.number = counter
        <5>1. b = Newest
          BY <3>1, <4>2 DEF BuildsInv, IsHistory
        <5> QED
          BY <3>2, <5>1
      <4>3. CASE b.number # counter
        <5>1. b.number < Newest.number
          BY <1>2, <3>1, <4>1, <4>3
        <5>2. b.created < Newest.created
          BY <3>1, <5>1 DEF BuildsInv, IsHistory
        <5> QED
          BY <3>2, <4>1, <5>2
      <4> QED
        BY <4>2, <4>3
    <3> QED
      BY <2>2, <3>2, <3>3
  <2> QED
    BY <2>1, <2>2
<1> HIDE DEF at
<1>4. /\ new \in BuildRecord /\ new.number = counter + 1 /\ new.created = at
      /\ new.outcome = "running"
  BY <1>2, <1>3 DEF Build, BuildRecord, Outcomes
<1>5. builds' = builds \cup {new}
  BY <1>1 DEF at
<1> HIDE DEF new
<1>6. \A b \in builds : b \in BuildRecord /\ b.number \in 1..counter /\ b.outcome # "running"
  <2> SUFFICES ASSUME NEW b \in builds
               PROVE  b \in BuildRecord /\ b.number \in 1..counter /\ b.outcome # "running"
    OBVIOUS
  <2>1. b \in BuildRecord /\ b.number \in 1..counter
    BY DEF BuildsInv, IsHistory
  <2>2. Newest \in builds /\ Newest.number = counter
    BY NewestBuild DEF BuildsInv
  <2>3. b.outcome = "running" => b = Newest
    BY <2>2 DEF BuildsInv, IsHistory
  <2> QED
    BY <1>2, <2>1, <2>3
<1>7. IsHistory'
  <2>1. counter' \in 0..MaxBuilds /\ counter' = counter + 1
    BY <1>2, BuildsAssumption
  <2>2. builds' \subseteq BuildRecord
    BY <1>4, <1>5, <1>6
  <2>3. \A b \in builds' : b.number \in 1..(counter + 1)
    BY <1>2, <1>4, <1>5, <1>6
  <2>4. \A a, b \in builds' : a.number = b.number => a = b
    BY <1>2, <1>4, <1>5, <1>6 DEF BuildsInv, IsHistory
  <2>5. \A a, b \in builds' : a.number < b.number => a.created < b.created
    <3> SUFFICES ASSUME NEW a \in builds', NEW b \in builds', a.number < b.number
                 PROVE  a.created < b.created
      OBVIOUS
    <3>1. CASE a \in builds /\ b \in builds
      BY <3>1 DEF BuildsInv, IsHistory
    <3>2. CASE a \in builds /\ b = new
      BY <1>3, <1>4, <3>2
    <3>3. CASE a = new
      <4>1. b.number <= counter + 1
        BY <1>2, <1>4, <1>5, <1>6
      <4>2. b.number \in Nat
        BY <1>4, <1>5, <1>6 DEF BuildRecord
      <4> QED
        BY <1>2, <1>4, <3>3, <4>1, <4>2
    <3> QED
      BY <1>5, <3>1, <3>2, <3>3
  <2>6. \A b \in builds' : b.outcome = "running" => b.number = counter + 1
    BY <1>4, <1>5, <1>6
  <2>7. \E b \in builds' : b.number = counter + 1
    BY <1>4, <1>5
  <2> QED
    BY <2>1, <2>2, <2>3, <2>4, <2>5, <2>6, <2>7 DEF IsHistory
<1>8. \A n \in Nat : HasSuccess(n) => HasSuccess(n)'
  BY <1>5 DEF HasSuccess
<1>9. image' \in ImageType /\ image'.latest = image.latest /\ image'.ready = "Unknown"
  BY <1>2 DEF BuildsInv, ImagesBacked, ImageType
<1> QED
  BY <1>2, <1>7, <1>8, <1>9, ImagesStayBacked, ImageStaysBacked DEF BuildsInv

LEMMA FinishBuildStep ==
  ASSUME BuildsInv, FinishBuild
  PROVE  BuildsInv'
<1>1. PICK outcome \in {"success", "failure"} :
        builds' = (builds \ {Newest}) \cup {[Newest EXCEPT !.outcome = outcome]}
  BY DEF FinishBuild
<1>2. UNCHANGED <<counter, image, got>> /\ builds # {} /\ Newest.outcome = "running"
  BY DEF FinishBuild, locals
<1> DEFINE done == [Newest EXCEPT !.outcome = outcome]
<1>3. Newest \in builds /\ Newest.number = counter /\ counter \in 1..MaxBuilds
  BY <1>2, NewestBuild DEF BuildsInv
<1>4. Newest \in BuildRecord
  BY <1>3 DEF BuildsInv, IsHistory
<1>5. /\ done \in BuildRecord /\ done.number = counter /\ done.created = Newest.created
      /\ done.outcome = outcome
  BY <1>3, <1>4 DEF BuildRecord, Outcomes
<1>6. builds' = (builds \ {Newest}) \cup {done}
  BY <1>1
<1> HIDE DEF done
<1>7. \A c \in builds' : \E b \in builds :
        /\ c.number = b.number /\ c.created = b.created /\ c \in BuildRecord
        /\ c = (IF b = Newest THEN done ELSE b)
  BY <1>3, <1>5, <1>6 DEF BuildsInv, IsHistory
<1>8. IsHistory'
  <2>1. \A c \in builds' : c \in BuildRecord /\ c.number \in 1..counter
    BY <1>7 DEF BuildsInv, IsHistory
  <2>2. \A c, d \in builds' : c.number = d.number => c = d
    BY <1>7 DEF BuildsInv, IsHistory
  <2>3. \A c, d \in builds' : c.number < d.number => c.created < d.created
    BY <1>7 DEF BuildsInv, IsHistory
  <2>4. \A c \in builds' : c.outcome = "running" => c.number = counter
    BY <1>5, <1>7 DEF BuildsInv, IsHistory
  <2>5. \E c \in builds' : c.number = counter
    BY <1>5, <1>6
  <2>6. counter' = counter /\ counter \in 0..MaxBuilds
    BY <1>2 DEF BuildsInv, IsHistory
  <2> QED
    BY <2>1, <2>2, <2>3, <2>4, <2>5, <2>6 DEF IsHistory
<1>9. \A n \in Nat : HasSuccess(n) => HasSuccess(n)'
  BY <1>2, <1>6 DEF HasSuccess
<1>10. image' \in ImageType /\ image'.latest = image.latest /\ image'.ready = image.ready
  BY <1>2 DEF BuildsInv, ImagesBacked
<1> QED
  BY <1>2, <1>8, <1>9, <1>10, ImagesStayBacked, ImageStaysBacked DEF BuildsInv

\* The image takes over the last success, which is among the builds.
LEMMA UpdateImageStep ==
  ASSUME BuildsInv, UpdateImage
  PROVE  BuildsInv'
<1>1. /\ builds # {} /\ Newest.outcome # "running" /\ UNCHANGED <<builds, counter, got>>
      /\ image' = [image EXCEPT !.latest = Latest,
                                !.ready = IF Newest.outcome = "success" THEN "True" ELSE "False"]
  BY DEF UpdateImage, locals
<1>2. IsHistory'
  BY <1>1 DEF BuildsInv, IsHistory
<1>3. \A n : HasSuccess(n) <=> HasSuccess(n)'
  BY <1>1 DEF HasSuccess
<1>4. Latest \in 0..MaxBuilds /\ (Latest > 0 => HasSuccess(Latest))
  <2>1. CASE Numbers("success") = {}
    BY <2>1 DEF Latest, BuildsInv, ImagesBacked, Backed, ImageType
  <2>2. CASE Numbers("success") # {}
    <3>1. Numbers("success") \subseteq 1..counter
      BY DEF Numbers, BuildsInv, IsHistory
    <3>2. counter \in Nat /\ counter <= MaxBuilds
      BY BuildsAssumption DEF BuildsInv, IsHistory
    <3>3. \E m \in Numbers("success") : \A n \in Numbers("success") : n <= m
      <4>1. Numbers("success") \subseteq Nat /\ \A n \in Numbers("success") : n <= counter
        BY <3>1, <3>2
      <4> QED
        BY <2>2, <3>2, <4>1, Greatest
    <3>4. Latest \in Numbers("success")
      <4>1. \E m \in Numbers("success") : \A n \in Numbers("success") : m >= n
        BY <3>1, <3>2, <3>3
      <4> QED
        BY <2>2, <4>1 DEF Latest, Max
    <3>5. PICK b \in builds : b.outcome = "success" /\ b.number = Latest
      BY <3>4 DEF Numbers
    <3>6. Latest \in 1..counter
      BY <3>1, <3>4
    <3> QED
      BY <3>2, <3>5, <3>6, BuildsAssumption DEF HasSuccess
  <2> QED
    BY <2>1, <2>2
<1>5. Newest.outcome = "success" => HasSuccess(0)
  <2>1. Newest \in builds /\ Newest.number \in Nat
    BY <1>1, NewestBuild DEF BuildsInv, IsHistory, BuildRecord
  <2> QED
    BY <2>1 DEF HasSuccess
<1>6. /\ image' \in ImageType /\ image'.latest = Latest
      /\ image'.ready = "True" => Newest.outcome = "success"
  BY <1>1, <1>4 DEF BuildsInv, ImagesBacked, ImageType
<1>7. Backed(image)'
  BY <1>3, <1>4, <1>5, <1>6 DEF Backed
<1> QED
  BY <1>1, <1>2, <1>3, <1>6, <1>7, ImagesStayBacked DEF BuildsInv

\* Pruning keeps the last build, and the last success.
LEMMA PruneStep ==
  ASSUME BuildsInv, Prune
  PROVE  BuildsInv'
<1>1. PICK b \in builds : TooOld(b) /\ builds' = builds \ {b}
  BY DEF Prune
<1>2. UNCHANGED <<counter, image, got>>
  BY DEF Prune, locals
<1>3. PICK younger \in builds : younger.outcome = b.outcome /\ younger.number > b.number
  <2> DEFINE later == {n \in Numbers(b.outcome) : n > b.number}
  <2>1. Cardinality(later) >= HistoryLimit
    BY <1>1 DEF TooOld
  <2>2. later # {}
    <3> SUFFICES ASSUME later = {}
                 PROVE  FALSE
      OBVIOUS
    <3>1. Cardinality(later) = 0
      BY FS_EmptySet
    <3> HIDE DEF later
    <3> QED
      BY <2>1, <3>1, BuildsAssumption
  <2> QED
    BY <2>2 DEF Numbers
<1>4. \A c \in builds : c \in BuildRecord /\ c.number \in 1..counter
  BY DEF BuildsInv, IsHistory
<1>5. b.number # counter
  BY <1>3, <1>4 DEF BuildsInv, IsHistory
<1>6. IsHistory'
  <2>1. counter' \in 0..MaxBuilds /\ builds' \subseteq BuildRecord
    BY <1>1, <1>2 DEF BuildsInv, IsHistory
  <2>2. \A c \in builds' : c.number \in 1..counter
    BY <1>1, <1>4
  <2>3. \A c, d \in builds' : c.number = d.number => c = d
    BY <1>1 DEF BuildsInv, IsHistory
  <2>4. \A c, d \in builds' : c.number < d.number => c.created < d.created
    BY <1>1 DEF BuildsInv, IsHistory
  <2>5. \A c \in builds' : c.outcome = "running" => c.number = counter
    BY <1>1 DEF BuildsInv, IsHistory
  <2>6. counter > 0 => \E c \in builds' : c.number = counter
    BY <1>1, <1>5 DEF BuildsInv, IsHistory
  <2> QED
    BY <1>2, <2>1, <2>2, <2>3, <2>4, <2>5, <2>6 DEF IsHistory
<1>7. ASSUME NEW n \in Nat, HasSuccess(n)
      PROVE  HasSuccess(n)'
  <2>1. PICK c \in builds : c.outcome = "success" /\ n <= c.number
    BY <1>7 DEF HasSuccess
  <2>2. CASE c # b
    BY <1>1, <2>1, <2>2 DEF HasSuccess
  <2>3. CASE c = b
    <3>1. younger.outcome = "success" /\ n <= younger.number /\ younger # b
      BY <1>3, <1>4, <2>1, <2>3 DEF BuildRecord
    <3>2. younger \in builds'
      BY <1>1, <3>1
    <3> QED
      BY <3>1, <3>2 DEF HasSuccess
  <2> QED
    BY <2>2, <2>3
<1>8. image' \in ImageType /\ image'.latest = image.latest /\ image'.ready = image.ready
  BY <1>2 DEF BuildsInv, ImagesBacked
<1> QED
  BY <1>2, <1>6, <1>7, <1>8, ImagesStayBacked, ImageStaysBacked DEF BuildsInv

LEMMA ChangeInputsStep ==
  ASSUME BuildsInv, ChangeInputs
  PROVE  BuildsInv'
<1>1. UNCHANGED <<builds, counter, got>>
  BY DEF ChangeInputs, locals
<1>2. IsHistory'
  BY <1>1 DEF BuildsInv, IsHistory
<1>3. \A n : HasSuccess(n) <=> HasSuccess(n)'
  BY <1>1 DEF HasSuccess
<1>4. image' \in ImageType /\ image'.latest = image.latest /\ image'.ready = image.ready
  BY DEF ChangeInputs, BuildsInv, ImagesBacked, ImageType
<1> QED
  BY <1>1, <1>2, <1>3, <1>4, ImagesStayBacked, ImageStaysBacked DEF BuildsInv

LEMMA BuildsStep ==
  ASSUME 0 \notin Gaps
  PROVE  BuildsInv /\ [Next]_vars => BuildsInv'
<1> SUFFICES ASSUME BuildsInv, [Next]_vars
             PROVE  BuildsInv'
  OBVIOUS
<1>1. ASSUME NEW p \in Procs, StartTrigger(p) \/ (\E asked \in Asked : BuildStatus(p, asked))
      PROVE  BuildsInv'
  BY <1>1, ReadStep DEF StartTrigger, BuildStatus
<1>2. ASSUME NEW p \in Procs, ImageStatusGet(p)
      PROVE  BuildsInv'
  BY <1>2, ReadStep DEF ImageStatusGet
<1>3. ASSUME NEW p \in Procs, TriggerList(p)
      PROVE  BuildsInv'
  <2>1. UNCHANGED cluster /\ (UNCHANGED got \/ got' = [got EXCEPT ![p] = NewImage])
    BY <1>3 DEF TriggerList, Idle
  <2> QED
    BY <2>1, ReadStep
<1>4. ASSUME NEW p \in Procs, TriggerPatch(p)
      PROVE  BuildsInv'
  BY <1>4, TriggerPatchStep
<1>5. ASSUME NEW p \in Procs, ImageStatusList(p) \/ Crash(p)
      PROVE  BuildsInv'
  <2>1. UNCHANGED cluster /\ got' = [got EXCEPT ![p] = NewImage]
    BY <1>5 DEF ImageStatusList, Crash, Idle
  <2> QED
    BY <2>1, ReadStep
<1>6. CASE CreateBuild
  BY <1>6, CreateBuildStep
<1>7. CASE FinishBuild \/ UpdateImage \/ Prune \/ ChangeInputs
  BY <1>7, FinishBuildStep, UpdateImageStep, PruneStep, ChangeInputsStep
<1>8. CASE UNCHANGED vars
  <2>1. UNCHANGED <<builds, counter, image, got>>
    BY <1>8 DEF vars
  <2>2. IsHistory' /\ \A n : HasSuccess(n) <=> HasSuccess(n)'
    BY <2>1 DEF BuildsInv, IsHistory, HasSuccess
  <2> QED
    BY <2>1, <2>2 DEF BuildsInv, ImagesBacked, Backed
<1> QED
  BY <1>1, <1>2, <1>3, <1>4, <1>5, <1>6, <1>7, <1>8 DEF Next, Command

-----------------------------------------------------------------------------
(* What the commands make of a list of builds *)

\* The last of a sorted list is the one with the greatest number.
LEMMA LastOfHistory ==
  ASSUME IsHistory, NEW list \in SUBSET builds
  PROVE  /\ \A b \in LastOf(list) : b \in list /\ \A c \in list : c.number <= b.number
         /\ list # {} => LastOf(list) # {}
<1>1. \A b \in list : b \in builds /\ b.number \in Nat /\ b.created \in Nat /\ b.number <= counter
  BY DEF IsHistory, BuildRecord
<1>2. counter \in Nat
  BY BuildsAssumption DEF IsHistory
<1>3. \A b, c \in list : b.number < c.number => b.created < c.created
  BY <1>1 DEF IsHistory
<1>4. \A b, c \in list : b.number = c.number => b = c
  BY <1>1 DEF IsHistory
<1>5. ASSUME NEW b \in LastOf(list), NEW c \in list
      PROVE  c.number <= b.number
  <2>1. b \in list /\ ~(b.created < c.created)
    BY DEF LastOf, Before
  <2> QED
    BY <1>1, <1>3, <2>1
<1>6. ASSUME list # {}
      PROVE  LastOf(list) # {}
  <2> DEFINE numbers == {b.number : b \in list}
  <2>1. numbers \subseteq Nat /\ numbers # {} /\ \A n \in numbers : n <= counter
    BY <1>1, <1>6
  <2> HIDE DEF numbers
  <2>2. PICK m \in numbers : \A n \in numbers : n <= m
    BY <1>2, <2>1, Greatest
  <2>3. PICK b \in list : b.number = m
    BY <2>2 DEF numbers
  <2>4. \A c \in list : c.number <= b.number
    BY <2>2, <2>3 DEF numbers
  <2>5. ASSUME NEW c \in list
        PROVE  ~(b.created < c.created)
    <3>1. CASE c.number = b.number
      <4>1. c = b
        BY <1>4, <3>1
      <4> QED
        BY <1>1, <4>1
    <3>2. CASE c.number < b.number
      BY <1>1, <1>3, <3>2
    <3>3. c.number \in Nat /\ b.number \in Nat /\ c.number <= b.number
      BY <1>1, <2>4
    <3> QED
      BY <3>1, <3>2, <3>3
  <2>6. b \in LastOf(list)
    BY <2>5 DEF LastOf, Before
  <2> QED
    BY <2>6
<1> QED
  BY <1>5, <1>6 DEF LastOf

\* getLastSuccessfulBuild and getLastFailedBuild: 0 only if there is none.
LEMMA LastWithHistory ==
  ASSUME IsHistory, NEW outcome, NEW number \in LastWith(builds, outcome)
  PROVE  \/ number = 0 /\ \A b \in builds : b.outcome # outcome
         \/ \E b \in builds : /\ b.outcome = outcome /\ b.number = number
                              /\ \A c \in builds : c.outcome = outcome => c.number <= number
<1> DEFINE list == {b \in builds : b.outcome = outcome}
<1>1. number \in IF LastOf(list) = {} THEN {0} ELSE {b.number : b \in LastOf(list)}
  BY DEF LastWith
<1>2. list \in SUBSET builds
  OBVIOUS
<1>3. /\ \A b \in LastOf(list) : b \in list /\ \A c \in list : c.number <= b.number
      /\ list # {} => LastOf(list) # {}
  <2> HIDE DEF list
  <2> QED
    BY <1>2, LastOfHistory
<1>4. CASE LastOf(list) = {}
  BY <1>1, <1>3, <1>4
<1>5. CASE LastOf(list) # {}
  <2>1. PICK b \in LastOf(list) : number = b.number
    BY <1>1, <1>5
  <2>2. b \in list /\ \A c \in list : c.number <= number
    BY <1>3, <2>1
  <2> QED
    BY <2>1, <2>2
<1> QED
  BY <1>4, <1>5

\* What kp image status prints is coherent.
CoherentShow(s) ==
  /\ s.details.latest <= s.success
  /\ s.details.status = "Ready" => s.success # 0
  /\ s.success # 0 => s.success # s.failure

LEMMA ShowIsCoherent ==
  ASSUME BuildsInv, NEW p \in Procs,
         NEW success \in LastWith(builds, "success"), NEW failure \in LastWith(builds, "failure")
  PROVE  CoherentShow([details |-> ImageDetails(got[p]), success |-> success, failure |-> failure])
<1> DEFINE details == ImageDetails(got[p])
<1>1. got[p] \in ImageType /\ Backed(got[p])
  BY DEF BuildsInv, ImagesBacked
<1>2. /\ details.latest \in {0, got[p].latest}
      /\ details.status = "Ready" => got[p].ready = "True"
  BY DEF ImageDetails
<1> HIDE DEF details
<1>3. \A b \in builds : b.number \in Nat \ {0}
  BY BuildsAssumption DEF BuildsInv, IsHistory
<1>4. \/ success = 0 /\ \A b \in builds : b.outcome # "success"
      \/ \E b \in builds : /\ b.outcome = "success" /\ b.number = success
                           /\ \A c \in builds : c.outcome = "success" => c.number <= success
  BY LastWithHistory DEF BuildsInv
<1>5. \/ failure = 0 /\ \A b \in builds : b.outcome # "failure"
      \/ \E b \in builds : /\ b.outcome = "failure" /\ b.number = failure
                           /\ \A c \in builds : c.outcome = "failure" => c.number <= failure
  BY LastWithHistory DEF BuildsInv
<1>6. success \in Nat /\ got[p].latest \in Nat
  BY <1>1, <1>3, <1>4, BuildsAssumption DEF ImageType
<1>7. \A n \in Nat : HasSuccess(n) => n <= success /\ success # 0
  BY <1>3, <1>4, <1>6 DEF HasSuccess
<1>8. details.latest <= success
  BY <1>1, <1>2, <1>6, <1>7 DEF Backed
<1>9. details.status = "Ready" => success # 0
  BY <1>1, <1>2, <1>7 DEF Backed
<1>10. success # 0 => success # failure
  <2> SUFFICES ASSUME success # 0, success = failure
               PROVE  FALSE
    OBVIOUS
  <2>1. PICK b \in builds : b.outcome = "success" /\ b.number = success
    BY <1>4
  <2>2. PICK c \in builds : c.outcome = "failure" /\ c.number = success
    BY <1>5
  <2>3. b = c
    BY <2>1, <2>2 DEF BuildsInv, IsHistory
  <2> QED
    BY <2>1, <2>2, <2>3
<1> QED
  BY <1>8, <1>9, <1>10 DEF CoherentShow, details

\* What kp build status and kp build logs print is what they were asked for.
ShowAsAsked(s) ==
  /\ s.asked.build = "latest" => s.build.number = s.of
  /\ s.asked.build = "number" => s.build.number = s.asked.number

LEMMA ShowIsAsAsked ==
  ASSUME BuildsInv, NEW asked, NEW b \in FindBuild(builds, asked)
  PROVE  ShowAsAsked([asked |-> asked, build |-> b, of |-> counter])
<1>1. CASE asked.build = "latest"
  <2>1. b \in LastOf(builds)
    BY <1>1 DEF FindBuild
  <2>2. b \in builds /\ \A c \in builds : c.number <= b.number
    BY <2>1, LastOfHistory DEF BuildsInv
  <2>3. b.number \in 1..counter /\ counter \in Nat
    BY <2>2, BuildsAssumption DEF BuildsInv, IsHistory
  <2>4. PICK last \in builds : last.number = counter
    <3>1. counter > 0
      BY <2>3
    <3> QED
      BY <3>1 DEF BuildsInv, IsHistory
  <2>5. counter <= b.number
    BY <2>2, <2>4
  <2>6. b.number = counter
    BY <2>3, <2>5
  <2> QED
    BY <1>1, <2>6 DEF ShowAsAsked
<1>2. CASE asked.build = "number"
  BY <1>2 DEF FindBuild, ShowAsAsked
<1>3. CASE asked.build \notin {"latest", "number"}
  BY <1>3 DEF ShowAsAsked
<1> QED
  BY <1>1, <1>2, <1>3

\* What is on the screen stays what it was when it was printed.
ShowsInv ==
  /\ DOMAIN shown = Procs
  /\ \A p \in Procs : shown[p] # NoShown /\ "details" \in DOMAIN shown[p] => CoherentShow(shown[p])
  /\ \A p \in Procs : shown[p] # NoShown /\ "asked" \in DOMAIN shown[p] => ShowAsAsked(shown[p])

LEMMA ShowsStep == BuildsInv /\ ShowsInv /\ [Next]_vars => ShowsInv'
<1> SUFFICES ASSUME BuildsInv, ShowsInv, [Next]_vars
             PROVE  ShowsInv'
  OBVIOUS
<1>put. ASSUME NEW p \in Procs, NEW s, shown' = [shown EXCEPT ![p] = s],
               s # NoShown /\ "details" \in DOMAIN s => CoherentShow(s),
               s # NoShown /\ "asked" \in DOMAIN s => ShowAsAsked(s)
        PROVE  ShowsInv'
  <2>1. DOMAIN shown' = Procs /\ \A q \in Procs : shown'[q] = IF q = p THEN s ELSE shown[q]
    BY <1>put DEF ShowsInv
  <2> QED
    BY <1>put, <2>1 DEF ShowsInv
<1>kept. ASSUME UNCHANGED shown
         PROVE  ShowsInv'
  BY <1>kept DEF ShowsInv
<1>1. ASSUME NEW p \in Procs, StartTrigger(p) \/ ImageStatusGet(p)
      PROVE  ShowsInv'
  <2>1. shown' = [shown EXCEPT ![p] = NoShown]
    BY <1>1 DEF StartTrigger, ImageStatusGet
  <2> QED
    BY <2>1, <1>put
<1>2. ASSUME NEW p \in Procs, NEW asked \in Asked, BuildStatus(p, asked)
      PROVE  ShowsInv'
  <2>1. CASE shown' = [shown EXCEPT ![p] = NoShown]
    BY <2>1, <1>put
  <2>2. CASE shown' # [shown EXCEPT ![p] = NoShown]
    <3>1. PICK b \in FindBuild(builds, asked) :
            shown' = [shown EXCEPT ![p] = [asked |-> asked, build |-> b, of |-> counter]]
      BY <1>2, <2>2 DEF BuildStatus
    <3> DEFINE s == [asked |-> asked, build |-> b, of |-> counter]
    <3>2. ShowAsAsked(s) /\ "details" \notin DOMAIN s
      BY ShowIsAsAsked
    <3> HIDE DEF s
    <3>3. shown' = [shown EXCEPT ![p] = s]
      BY <3>1 DEF s
    <3> QED
      BY <3>2, <3>3, <1>put
  <2> QED
    BY <2>1, <2>2
<1>3. ASSUME NEW p \in Procs, ImageStatusList(p)
      PROVE  ShowsInv'
  <2>1. PICK success \in LastWith(builds, "success"), failure \in LastWith(builds, "failure") :
          shown' = [shown EXCEPT ![p] =
                      [details |-> ImageDetails(got[p]), success |-> success, failure |-> failure]]
    BY <1>3 DEF ImageStatusList
  <2> DEFINE s == [details |-> ImageDetails(got[p]), success |-> success, failure |-> failure]
  <2>2. CoherentShow(s) /\ "asked" \notin DOMAIN s
    BY ShowIsCoherent
  <2> HIDE DEF s
  <2>3. shown' = [shown EXCEPT ![p] = s]
    BY <2>1 DEF s
  <2> QED
    BY <2>2, <2>3, <1>put
<1>4. ASSUME NEW p \in Procs, TriggerList(p) \/ TriggerPatch(p) \/ Crash(p)
      PROVE  ShowsInv'
  BY <1>4, <1>kept DEF TriggerList, TriggerPatch, Crash
<1>5. CASE CreateBuild \/ FinishBuild \/ UpdateImage \/ Prune \/ ChangeInputs \/ UNCHANGED vars
  BY <1>5, <1>kept DEF CreateBuild, FinishBuild, UpdateImage, Prune, ChangeInputs, locals, vars
<1> QED
  BY <1>1, <1>2, <1>3, <1>4, <1>5 DEF Next, Command

LEMMA ShowsInit == Init => ShowsInv
  BY DEF Init, ShowsInv

\* Whatever is built, finished, pruned or triggered between the two requests of kp image
\* status, it prints no success older than the latest image it prints, if no two builds
\* were created in the same second.
THEOREM StatusIsCoherentCorrect ==
  ASSUME 0 \notin Gaps
  PROVE  Spec => []StatusIsCoherent
<1>1. BuildsInv /\ [Next]_vars => BuildsInv'
  BY BuildsStep
<1>2. ShowsInv => StatusIsCoherent
  BY DEF ShowsInv, CoherentShow, StatusIsCoherent
<1> QED
  BY <1>1, <1>2, BuildsInit, ShowsInit, ShowsStep, PTL DEF Spec

\* kp build status and kp build logs find the build that was asked for, the newest by
\* default, if no two builds were created in the same second.
THEOREM ShownAsAskedCorrect ==
  ASSUME 0 \notin Gaps
  PROVE  Spec => []ShownAsAsked
<1>1. BuildsInv /\ [Next]_vars => BuildsInv'
  BY BuildsStep
<1>2. ShowsInv => ShownAsAsked
  BY DEF ShowsInv, ShowAsAsked, ShownAsAsked
<1> QED
  BY <1>1, <1>2, BuildsInit, ShowsInit, ShowsStep, PTL DEF Spec
-----------------------------------------------------------------------------
(* The clients *)

\* What is known of a client that converts.
LEMMA ClientShape ==
  ASSUME NEW c \in ConvertingClients
  PROVE  c.kind \in ConvertibleKinds /\ c.ns \in Namespaces /\ c.converts = TRUE
<1>1. c \in CompatClients /\ c.converts
  BY DEF ConvertingClients
<1>2. CASE \E ns \in Namespaces :
             c \in {Builds(ns), Builders(ns), Images(ns), SourceResolvers(ns), Buildpacks(ns)}
  <2>1. PICK ns \in Namespaces :
          c \in {Builds(ns), Builders(ns), Images(ns), SourceResolvers(ns), Buildpacks(ns)}
    BY <1>2
  <2>2. c # Buildpacks(ns)
    BY <1>1 DEF Buildpacks, Refusing
  <2> QED
    BY <2>1, <2>2 DEF Builds, Builders, Images, SourceResolvers, Converting, ConvertibleKinds,
                      NamespacedKinds
<1>3. CASE c \in {ClusterBuilders, ClusterStacks, ClusterStores, ClusterBuildpacks, ClusterLifecycles}
  <2>1. c # ClusterBuildpacks /\ c # ClusterLifecycles
    BY <1>1 DEF ClusterBuildpacks, ClusterLifecycles, Refusing
  <2> QED
    BY <1>3, <2>1, CompatAssumption
    DEF ClusterBuilders, ClusterStacks, ClusterStores, Converting, ConvertibleKinds, ClusterKinds
<1>4. ASSUME NEW S \in {{Builds(ns), Builders(ns), Images(ns), SourceResolvers(ns), Buildpacks(ns)} :
                       ns \in Namespaces},
             c \in S
      PROVE  c.kind \in ConvertibleKinds /\ c.ns \in Namespaces /\ c.converts = TRUE
  <2>1. PICK ns \in Namespaces :
          S = {Builds(ns), Builders(ns), Images(ns), SourceResolvers(ns), Buildpacks(ns)}
    BY <1>4
  <2> QED
    BY <1>2, <1>4, <2>1
<1>5. \/ c \in {ClusterBuilders, ClusterStacks, ClusterStores, ClusterBuildpacks, ClusterLifecycles}
      \/ \E S \in {{Builds(ns), Builders(ns), Images(ns), SourceResolvers(ns), Buildpacks(ns)} :
                     ns \in Namespaces} : c \in S
  <2> DEFINE one == {ClusterBuilders, ClusterStacks, ClusterStores, ClusterBuildpacks, ClusterLifecycles}
             sets == {{Builds(ns), Builders(ns), Images(ns), SourceResolvers(ns), Buildpacks(ns)} :
                        ns \in Namespaces}
  <2>1. c \in (UNION sets) \cup one
    BY <1>1 DEF CompatClients
  <2> HIDE DEF one, sets
  <2>2. c \in one \/ \E S \in sets : c \in S
    BY <2>1
  <2> QED
    BY <2>2 DEF one, sets
<1> QED
  BY <1>3, <1>4, <1>5

\* The conversions lose nothing on the way there and back.
LEMMA RoundTrip ==
  ASSUME NEW kind \in ConvertibleKinds, NEW o \in Objects
  PROVE  /\ ConvertTo(kind, o) \in V1Objects
         /\ ConvertFrom(kind, ConvertTo(kind, o)) = o
         /\ ConvertTo(kind, o) # NoObject /\ ConvertTo(kind, o) # Refused
<1> DEFINE name == V1Name[kind]
           field(n) == CHOOSE f \in Fields : name[f] = n
<1>1. /\ name \in [Fields -> V1Fields]
      /\ \A f, g \in Fields : name[f] = name[g] => f = g
      /\ \A n \in V1Fields : \E f \in Fields : name[f] = n
      /\ NoObject \notin V1Objects /\ Refused \notin V1Objects
  BY CompatAssumption
<1>2. \A n \in V1Fields : field(n) \in Fields /\ name[field(n)] = n
  BY <1>1
<1>3. \A f \in Fields : name[f] \in V1Fields /\ field(name[f]) = f
  BY <1>1, <1>2
<1>4. ConvertTo(kind, o) = [n \in V1Fields |-> o[field(n)]]
  BY DEF ConvertTo
<1> HIDE DEF field, name
<1>5. o \in [Fields -> Values]
  BY DEF Objects
<1>6. ConvertTo(kind, o) \in V1Objects
  BY <1>2, <1>4, <1>5 DEF V1Objects
<1>7. ConvertFrom(kind, ConvertTo(kind, o)) = [f \in Fields |-> o[f]]
  BY <1>3, <1>4 DEF ConvertFrom, name
<1> QED
  BY <1>1, <1>5, <1>6, <1>7

\* What the v1alpha1 server has where the v1alpha2 one would have an object.
LEMMA V1StoreOf ==
  ASSUME NEW kind \in ConvertibleKinds, NEW store \in Stores(Objects), NEW key \in Keys
  PROVE  /\ V1Store(kind, store)[key] = NoObject <=> store[key] = NoObject
         /\ store[key] # NoObject => /\ store[key] \in Objects
                                     /\ V1Store(kind, store)[key] = ConvertTo(kind, store[key])
<1>1. store[key] \in Objects \cup {NoObject}
  BY DEF Stores
<1> QED
  BY <1>1, RoundTrip DEF V1Store

\* Storing an object and storing its conversion.
LEMMA V1StoreStored ==
  ASSUME NEW kind \in ConvertibleKinds, NEW store \in Stores(Objects), NEW key \in Keys,
         NEW o \in Objects
  PROVE  [V1Store(kind, store) EXCEPT ![key] = ConvertTo(kind, o)]
           = V1Store(kind, [store EXCEPT ![key] = o])
<1>1. o # NoObject
  BY CompatAssumption
<1>2. \A k \in Keys : [store EXCEPT ![key] = o][k] = IF k = key THEN o ELSE store[k]
  BY DEF Stores
<1> QED
  BY <1>1, <1>2 DEF V1Store

\* A response of the v1alpha1 server with an object in it, converted back.
LEMMA StoredAgrees ==
  ASSUME NEW c \in ConvertingClients, NEW store \in Stores(Objects), NEW key \in Keys,
         NEW o \in Objects
  PROVE  Agrees(c, Stored(store, key, o),
                ConvertResponse(c.kind, Stored(V1Store(c.kind, store), key, ConvertTo(c.kind, o))))
<1>1. c.kind \in ConvertibleKinds
  BY ClientShape
<1>2. /\ ConvertTo(c.kind, o) # Refused
      /\ ConvertFrom(c.kind, ConvertTo(c.kind, o)) = o
  BY <1>1, RoundTrip
<1>3. [V1Store(c.kind, store) EXCEPT ![key] = ConvertTo(c.kind, o)]
        = V1Store(c.kind, [store EXCEPT ![key] = o])
  BY <1>1, V1StoreStored
<1> QED
  BY <1>2, <1>3 DEF Agrees, Stored, Response, ConvertResponse

\* A refusal is a refusal in both versions.
LEMMA RefusalAgrees ==
  ASSUME NEW c \in ConvertingClients, NEW store \in Stores(Objects)
  PROVE  Agrees(c, Refuse(store), ConvertResponse(c.kind, Refuse(V1Store(c.kind, store))))
BY DEF Agrees, Refuse, Response, ConvertResponse

\* Whatever a command asks for, but a patch or a watch, the wrapper answers as a
\* v1alpha2 server would, and what it leaves stored is the conversion of what that
\* server would store (Create to List of pkg/kpackcompat/image.go and its copies).
THEOREM RequestsAgreeCorrect ==
  ASSUME NEW c \in ConvertingClients, NEW store \in Stores(Objects)
  PROVE  RequestsAgree(c, store)
<1> DEFINE v1 == V1Store(c.kind, store)
<1>1. c.kind \in ConvertibleKinds /\ c.ns \in Namespaces /\ c.converts = TRUE
  BY ClientShape
<1>2. \A name \in Names : Key(c, name) \in Keys
  BY <1>1 DEF Key, Keys
<1>3. ASSUME NEW name \in Names, NEW o \in Objects
      PROVE  /\ Agrees(c, ServeCreate(store, Key(c, name), o), Create(c, v1, name, o))
             /\ Agrees(c, ServeUpdate(store, Key(c, name), o), Update(c, v1, name, o))
  <2> DEFINE key == Key(c, name)
  <2>1. key \in Keys
    BY <1>2
  <2> HIDE DEF key
  <2>2. v1[key] = NoObject <=> store[key] = NoObject
    BY <1>1, <2>1, V1StoreOf
  <2>3. Agrees(c, Stored(store, key, o),
               ConvertResponse(c.kind, Stored(v1, key, ConvertTo(c.kind, o))))
    BY <2>1, StoredAgrees
  <2>4. Agrees(c, Refuse(store), ConvertResponse(c.kind, Refuse(v1)))
    BY RefusalAgrees
  <2> HIDE DEF v1
  <2>5. Agrees(c, ServeCreate(store, key, o), Create(c, v1, name, o))
    BY <1>1, <2>2, <2>3, <2>4 DEF ServeCreate, Create, Via, key
  <2>6. Agrees(c, ServeUpdate(store, key, o), Update(c, v1, name, o))
    BY <1>1, <2>2, <2>3, <2>4 DEF ServeUpdate, IfPresent, Update, Via, key
  <2> QED
    BY <2>5, <2>6 DEF key
<1>4. ASSUME NEW name \in Names
      PROVE  /\ Agrees(c, ServeGet(store, Key(c, name)), Get(c, v1, name))
             /\ Agrees(c, ServeDelete(store, Key(c, name)), Delete(c, v1, name))
  <2> DEFINE key == Key(c, name)
  <2>1. key \in Keys
    BY <1>2
  <2> HIDE DEF key
  <2>2. /\ v1[key] = NoObject <=> store[key] = NoObject
        /\ store[key] # NoObject => store[key] \in Objects /\ v1[key] = ConvertTo(c.kind, store[key])
    BY <1>1, <2>1, V1StoreOf
  <2>3. Agrees(c, ServeGet(store, key), Get(c, v1, name))
    <3>1. CASE store[key] = NoObject
      BY <1>1, <2>2, <3>1, RefusalAgrees DEF ServeGet, IfPresent, Get, Via, key
    <3>2. CASE store[key] # NoObject
      <4>1. /\ ConvertTo(c.kind, store[key]) # Refused
            /\ ConvertFrom(c.kind, ConvertTo(c.kind, store[key])) = store[key]
        BY <1>1, <2>2, <3>2, RoundTrip
      <4>2. Get(c, v1, name) = ConvertResponse(c.kind, Response(v1, ConvertTo(c.kind, store[key])))
        BY <1>1, <2>2, <3>2 DEF ServeGet, IfPresent, Get, Via, key
      <4>3. ServeGet(store, key) = Response(store, store[key])
        BY <3>2 DEF ServeGet, IfPresent
      <4> HIDE DEF v1
      <4>4. ConvertResponse(c.kind, Response(v1, ConvertTo(c.kind, store[key])))
              = Response(v1, store[key])
        BY <4>1 DEF ConvertResponse, Response
      <4> QED
        BY <4>2, <4>3, <4>4 DEF Agrees, Response, v1
    <3> QED
      BY <3>1, <3>2
  <2>4. Agrees(c, ServeDelete(store, key), Delete(c, v1, name))
    <3>1. CASE store[key] = NoObject
      BY <1>1, <2>2, <3>1 DEF ServeDelete, IfPresent, Delete, Via, key, Agrees, Refuse, Response
    <3>2. CASE store[key] # NoObject
      <4>1. [v1 EXCEPT ![key] = NoObject] = V1Store(c.kind, [store EXCEPT ![key] = NoObject])
        <5>1. \A k \in Keys :
                [store EXCEPT ![key] = NoObject][k] = IF k = key THEN NoObject ELSE store[k]
          BY DEF Stores
        <5> QED
          BY <5>1 DEF V1Store
      <4>2. Delete(c, v1, name) = Response([v1 EXCEPT ![key] = NoObject], NoObject)
        BY <1>1, <2>2, <3>2 DEF ServeDelete, IfPresent, Delete, Via, key
      <4> HIDE DEF v1
      <4>3. ServeDelete(store, key) = Response([store EXCEPT ![key] = NoObject], NoObject)
        BY <3>2 DEF ServeDelete, IfPresent
      <4> QED
        BY <4>1, <4>2, <4>3 DEF Agrees, Response
    <3> QED
      BY <3>1, <3>2
  <2> QED
    BY <2>3, <2>4 DEF key
<1>5. Agrees(c, ServeDeleteCollection(store, c.ns), DeleteCollection(c, v1))
  <2>1. \A k \in In(c.ns) : k \in Keys
    BY DEF In
  <2>2. [key \in Keys |-> IF key \in In(c.ns) THEN NoObject ELSE v1[key]]
          = V1Store(c.kind, [key \in Keys |-> IF key \in In(c.ns) THEN NoObject ELSE store[key]])
    BY DEF V1Store
  <2> HIDE DEF v1
  <2> QED
    BY <1>1, <2>2 DEF Agrees, DeleteCollection, ServeDeleteCollection, Response, Via
<1>6. Agrees(c, ServeList(store, c.ns), List(c, v1))
  <2> DEFINE there == {store[key] : key \in In(c.ns)} \ {NoObject}
             v1There == {v1[key] : key \in In(c.ns)} \ {NoObject}
  <2>1. \A key \in In(c.ns) :
          /\ v1[key] = NoObject <=> store[key] = NoObject
          /\ store[key] # NoObject => /\ v1[key] = ConvertTo(c.kind, store[key])
                                      /\ ConvertFrom(c.kind, v1[key]) = store[key]
    BY <1>1, V1StoreOf, RoundTrip DEF In
  <2> HIDE DEF v1
  <2>2. {ConvertFrom(c.kind, v) : v \in v1There} = there
    <3>1. ASSUME NEW v \in v1There PROVE ConvertFrom(c.kind, v) \in there
      <4>1. PICK key \in In(c.ns) : v = v1[key] /\ v # NoObject
        BY <3>1
      <4> QED
        BY <2>1, <4>1
    <3>2. ASSUME NEW o \in there PROVE \E v \in v1There : o = ConvertFrom(c.kind, v)
      <4>1. PICK key \in In(c.ns) : o = store[key] /\ o # NoObject
        BY <3>2
      <4>2. v1[key] \in v1There
        BY <2>1, <4>1
      <4> QED
        BY <2>1, <4>1, <4>2
    <3> HIDE DEF there, v1There
    <3> QED
      BY <3>1, <3>2
  <2>3. ServeList(v1, c.ns) = Response(v1, v1There) /\ ServeList(store, c.ns) = Response(store, there)
    BY DEF ServeList
  <2> HIDE DEF there, v1There
  <2>4. List(c, v1) = Response(v1, {ConvertFrom(c.kind, v) : v \in v1There})
    BY <1>1, <2>3 DEF List, Via, Response
  <2> QED
    BY <2>2, <2>3, <2>4 DEF Agrees, Response, v1
<1> QED
  BY <1>3, <1>4, <1>5, <1>6 DEF RequestsAgree

\* A patch is sent as v1alpha2 has it (Patch, image.go:145): it means the same to a
\* v1alpha1 server if it only has fields that both versions call the same.
THEOREM PatchesAgreeCorrect ==
  ASSUME NEW c \in ConvertingClients, NEW store \in Stores(Objects)
  PROVE  PatchesAgree(c, store)
<1> DEFINE v1 == V1Store(c.kind, store)
<1>1. c.kind \in ConvertibleKinds /\ c.ns \in Namespaces /\ c.converts = TRUE
  BY ClientShape
<1> SUFFICES ASSUME NEW name \in Names, NEW fields \in SUBSET SameName(c.kind),
                    NEW patch \in [fields -> Values]
             PROVE  Agrees(c, ServePatch(store, Key(c, name), patch), Patch(c, v1, name, patch))
  BY DEF PatchesAgree
<1> DEFINE key == Key(c, name)
<1>2. key \in Keys
  BY <1>1 DEF Key, Keys
<1> HIDE DEF key
<1>3. /\ v1[key] = NoObject <=> store[key] = NoObject
      /\ store[key] # NoObject => store[key] \in Objects /\ v1[key] = ConvertTo(c.kind, store[key])
  BY <1>1, <1>2, V1StoreOf
<1>4. CASE store[key] = NoObject
  BY <1>1, <1>3, <1>4, RefusalAgrees DEF ServePatch, IfPresent, Patch, Via, key
<1>5. CASE store[key] # NoObject
  <2> DEFINE o == store[key]
             rename == V1Name[c.kind]
             field(n) == CHOOSE f \in Fields : rename[f] = n
             patched == ApplyMergePatch(o, patch)
  <2>1. /\ rename \in [Fields -> V1Fields]
        /\ \A f, g \in Fields : rename[f] = rename[g] => f = g
        /\ \A n \in V1Fields : \E f \in Fields : rename[f] = n
    BY <1>1, CompatAssumption
  <2>2. o \in [Fields -> Values] /\ v1[key] = ConvertTo(c.kind, o)
    BY <1>3, <1>5 DEF Objects
  <2>3. \A f \in fields : f \in Fields /\ rename[f] = f
    BY DEF SameName
  <2>4. \A n \in V1Fields : field(n) \in Fields /\ rename[field(n)] = n
    BY <2>1
  <2>5. ConvertTo(c.kind, o) = [n \in V1Fields |-> o[field(n)]]
    BY DEF ConvertTo
  <2>6. ConvertTo(c.kind, patched) = [n \in V1Fields |-> patched[field(n)]]
    BY DEF ConvertTo
  <2> HIDE DEF field, rename
  <2>7. \A n \in V1Fields : (n \in fields <=> field(n) \in fields) /\ (n \in fields => field(n) = n)
    <3>1. ASSUME NEW n \in V1Fields, n \in fields PROVE field(n) = n
      BY <2>1, <2>3, <2>4, <3>1
    <3>2. ASSUME NEW n \in V1Fields, field(n) \in fields PROVE n = field(n)
      BY <2>3, <2>4, <3>2
    <3> QED
      BY <3>1, <3>2
  <2> HIDE DEF o
  <2>8. patched = [f \in Fields |-> IF f \in fields THEN patch[f] ELSE o[f]]
    BY <2>2 DEF ApplyMergePatch
  <2>9. patched \in Objects
    BY <2>2, <2>8 DEF Objects
  <2>10. ApplyMergePatch(v1[key], patch)
           = [n \in V1Fields |-> IF n \in fields THEN patch[n] ELSE o[field(n)]]
    BY <2>2, <2>5 DEF ApplyMergePatch
  <2>11. \A n \in V1Fields : patched[field(n)] = IF n \in fields THEN patch[n] ELSE o[field(n)]
    BY <2>4, <2>7, <2>8
  <2> HIDE DEF patched, v1
  <2>12. ApplyMergePatch(v1[key], patch) = ConvertTo(c.kind, patched)
    BY <2>6, <2>10, <2>11
  <2>13. Patch(c, v1, name, patch) = ConvertResponse(c.kind, Stored(v1, key, ConvertTo(c.kind, patched)))
    BY <1>1, <1>3, <1>5, <2>12 DEF Patch, ServePatch, IfPresent, Via, key
  <2>14. ServePatch(store, key, patch) = Stored(store, key, patched)
    BY <1>5 DEF ServePatch, IfPresent, patched, o
  <2> QED
    BY <1>2, <2>9, <2>13, <2>14, StoredAgrees DEF v1, key
<1> QED
  BY <1>4, <1>5

\* A patch that only has fields v1alpha1 calls otherwise is accepted, answered with the
\* object as it is, and lost.
THEOREM OtherPatchesAreLostCorrect ==
  ASSUME NEW c \in ConvertingClients, NEW store \in Stores(Objects)
  PROVE  OtherPatchesAreLost(c, store)
<1> DEFINE v1 == V1Store(c.kind, store)
<1>1. c.kind \in ConvertibleKinds /\ c.ns \in Namespaces /\ c.converts = TRUE
  BY ClientShape
<1> SUFFICES ASSUME NEW name \in Names, NEW fields \in SUBSET (Fields \ V1Fields),
                    NEW patch \in [fields -> Values]
             PROVE  Patch(c, v1, name, patch) = Get(c, v1, name)
  BY DEF OtherPatchesAreLost
<1> DEFINE key == Key(c, name)
<1>2. key \in Keys
  BY <1>1 DEF Key, Keys
<1> HIDE DEF key
<1>3. /\ v1[key] = NoObject <=> store[key] = NoObject
      /\ store[key] # NoObject => store[key] \in Objects /\ v1[key] = ConvertTo(c.kind, store[key])
  BY <1>1, <1>2, V1StoreOf
<1>4. v1 = [v1 EXCEPT ![key] = v1[key]]
  BY <1>2 DEF V1Store
<1>5. CASE store[key] = NoObject
  BY <1>1, <1>3, <1>5 DEF ServePatch, ServeGet, IfPresent, Patch, Get, Via, key
<1>6. CASE store[key] # NoObject
  <2>1. v1[key] \in [V1Fields -> Values]
    BY <1>1, <1>3, <1>6, RoundTrip DEF V1Objects
  <2>2. ApplyMergePatch(v1[key], patch) = v1[key]
    BY <2>1 DEF ApplyMergePatch
  <2> HIDE DEF v1
  <2> QED
    BY <1>1, <1>3, <1>4, <1>6, <2>2
    DEF ServePatch, ServeGet, IfPresent, Patch, Get, Via, Stored, key
<1> QED
  BY <1>5, <1>6
=============================================================================
