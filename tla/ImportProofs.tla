---------------------------- MODULE ImportProofs ----------------------------
(***************************************************************************)
(* Proofs about `kp import`: first for any number of overlapping imports,  *)
(* any descriptors, and whatever is deleted, reported or set in between;   *)
(* then for imports that do not overlap ("One import at a time").          *)
(***************************************************************************)
EXTENDS Import, MergePatchProofs, SequenceTheorems

-----------------------------------------------------------------------------
(* What a plan consists of                                                 *)

AnyName == Names \cup {NoName, LifecycleName, "default"}

\* An item has the images, and a builder the stack, that its kind needs.
PlanItem ==
  {item \in [kind : Kinds, name : AnyName, images : Seq(Images),
             stack : Names \cup {NoName}, store : Names \cup {NoName}] :
     /\ item.kind \in {"lifecycle", "buildpack"} => 1 \in DOMAIN item.images
     /\ item.kind = "stack" => {1, 2} \subseteq DOMAIN item.images
     /\ item.kind = "builder" => item.stack \in Names}

\* One item for each element of a list is a list of items.
LEMMA MappedIsSeq ==
  ASSUME NEW S, NEW T, NEW s \in Seq(S), NEW f, f = [k \in DOMAIN s |-> f[k]],
         \A k \in DOMAIN s : f[k] \in T
  PROVE  f \in Seq(T)
<1>1. DOMAIN s = 1..Len(s) /\ Len(s) \in Nat
  BY LenProperties
<1>2. f \in [1..Len(s) -> T]
  BY <1>1
<1> QED BY <1>1, <1>2, SeqDef

\* The copy of a default is appended under another name.
LEMMA WithDefaultIsSeq ==
  ASSUME NEW S, NEW items \in Seq(S), NEW default, NEW as,
         \A item \in S : [item EXCEPT !.name = as] \in S
  PROVE  WithDefault(items, default, as) \in Seq(S)
<1>1. CASE default \in NamesOf(items)
  <2> DEFINE k == CHOOSE j \in DOMAIN items : items[j].name = default
  <2>1. k \in DOMAIN items
    BY <1>1 DEF NamesOf
  <2>2. items[k] \in S
    BY <2>1, LenProperties
  <2> HIDE DEF k
  <2>3. Append(items, [items[k] EXCEPT !.name = as]) \in Seq(S)
    BY <2>2, AppendProperties
  <2> QED BY <1>1, <2>3 DEF WithDefault, k
<1>2. CASE default \notin NamesOf(items)
  BY <1>2 DEF WithDefault
<1> QED BY <1>1, <1>2

AnyImageItem == [name : AnyName, image : Images]
AnyStackItem == [name : AnyName, build : Images, run : Images]
AnyBuilderItem == [name : AnyName, stack : Names, store : Names \cup {NoName}]

\* What is imported of each kind, defaults included.
LEMMA WithDefaultsTyped ==
  ASSUME NEW d \in Descriptors
  PROVE  /\ GetClusterLifecycles(d) \in Seq(AnyImageItem) /\ d.buildpacks \in Seq(AnyImageItem)
         /\ d.stores \in Seq(StoreItem)
         /\ GetClusterStacks(d) \in Seq(AnyStackItem) /\ GetClusterBuilders(d) \in Seq(AnyBuilderItem)
<1>1. /\ d.lifecycles \in Seq(ImageItem) /\ d.buildpacks \in Seq(ImageItem) /\ d.stores \in Seq(StoreItem)
      /\ d.stacks \in Seq(StackItem) /\ d.builders \in Seq(BuilderItem)
  BY DEF Descriptors
<1>2. /\ ImageItem \subseteq AnyImageItem
      /\ StackItem \subseteq AnyStackItem
      /\ BuilderItem \subseteq AnyBuilderItem
  BY DEF ImageItem, StackItem, BuilderItem, AnyImageItem, AnyStackItem, AnyBuilderItem, AnyName
<1>3. /\ d.lifecycles \in Seq(AnyImageItem) /\ d.buildpacks \in Seq(AnyImageItem)
      /\ d.stacks \in Seq(AnyStackItem) /\ d.builders \in Seq(AnyBuilderItem)
  BY <1>1, <1>2, SeqMonotonic
<1>4. /\ \A item \in AnyImageItem : [item EXCEPT !.name = LifecycleName] \in AnyImageItem
      /\ \A item \in AnyStackItem : [item EXCEPT !.name = "default"] \in AnyStackItem
      /\ \A item \in AnyBuilderItem : [item EXCEPT !.name = "default"] \in AnyBuilderItem
  BY DEF AnyImageItem, AnyStackItem, AnyBuilderItem, AnyName
<1>5. GetClusterLifecycles(d) \in Seq(AnyImageItem)
  BY <1>3, <1>4, WithDefaultIsSeq DEF GetClusterLifecycles
<1>6. GetClusterStacks(d) \in Seq(AnyStackItem)
  BY <1>3, <1>4, WithDefaultIsSeq DEF GetClusterStacks
<1>7. GetClusterBuilders(d) \in Seq(AnyBuilderItem)
  BY <1>3, <1>4, WithDefaultIsSeq DEF GetClusterBuilders
<1> QED BY <1>1, <1>3, <1>5, <1>6, <1>7

OfKind(kind) == {item \in PlanItem : item.kind = kind}

\* The five loops of ImportDescriptor.
LifecycleItems(d) ==
  [k \in DOMAIN GetClusterLifecycles(d) |->
     Item("lifecycle", GetClusterLifecycles(d)[k].name, <<GetClusterLifecycles(d)[k].image>>, NoName, NoName)]
BuildpackItems(d) ==
  [k \in DOMAIN d.buildpacks |-> Item("buildpack", d.buildpacks[k].name, <<d.buildpacks[k].image>>, NoName, NoName)]
StoreItems(d) == [k \in DOMAIN d.stores |-> Item("store", d.stores[k].name, d.stores[k].images, NoName, NoName)]
StackItems(d) ==
  [k \in DOMAIN GetClusterStacks(d) |->
     Item("stack", GetClusterStacks(d)[k].name, <<GetClusterStacks(d)[k].build, GetClusterStacks(d)[k].run>>, NoName, NoName)]
BuilderItems(d) ==
  [k \in DOMAIN GetClusterBuilders(d) |->
     Item("builder", GetClusterBuilders(d)[k].name, <<>>, GetClusterBuilders(d)[k].stack, GetClusterBuilders(d)[k].store)]

\* An item of one image.
LEMMA ImageItemsTyped ==
  ASSUME NEW kind \in {"lifecycle", "buildpack"}, NEW items \in Seq(AnyImageItem)
  PROVE  [k \in DOMAIN items |-> Item(kind, items[k].name, <<items[k].image>>, NoName, NoName)] \in Seq(OfKind(kind))
<1> DEFINE f == [k \in DOMAIN items |-> Item(kind, items[k].name, <<items[k].image>>, NoName, NoName)]
<1>1. ASSUME NEW k \in DOMAIN items PROVE f[k] \in OfKind(kind)
  <2>1. items[k] \in AnyImageItem
    BY LenProperties
  <2>2. <<items[k].image>> \in Seq(Images) /\ 1 \in DOMAIN <<items[k].image>>
    BY <2>1 DEF AnyImageItem
  <2>3. items[k].name \in AnyName /\ kind \in Kinds
    BY <2>1 DEF AnyImageItem, Kinds
  <2> QED BY <2>2, <2>3 DEF Item, PlanItem, OfKind
<1>2. f = [k \in DOMAIN items |-> f[k]]
  OBVIOUS
<1> HIDE DEF f
<1>3. f \in Seq(OfKind(kind))
  BY <1>1, <1>2, MappedIsSeq
<1> QED BY <1>3 DEF f

\* Each loop has items of its kind.
LEMMA PlanParts ==
  ASSUME NEW d \in Descriptors
  PROVE  /\ Plan(d) = LifecycleItems(d) \o BuildpackItems(d) \o StoreItems(d) \o StackItems(d) \o BuilderItems(d)
         /\ LifecycleItems(d) \in Seq(OfKind("lifecycle")) /\ BuildpackItems(d) \in Seq(OfKind("buildpack"))
         /\ StoreItems(d) \in Seq(OfKind("store")) /\ StackItems(d) \in Seq(OfKind("stack"))
         /\ BuilderItems(d) \in Seq(OfKind("builder"))
<1> DEFINE stacks == GetClusterStacks(d)
           builders == GetClusterBuilders(d)
           C == StoreItems(d)
           D == StackItems(d)
           E == BuilderItems(d)
<1>1. LifecycleItems(d) \in Seq(OfKind("lifecycle")) /\ BuildpackItems(d) \in Seq(OfKind("buildpack"))
  BY ImageItemsTyped, WithDefaultsTyped DEF LifecycleItems, BuildpackItems
<1>2. C \in Seq(OfKind("store"))
  <2>1. ASSUME NEW k \in DOMAIN d.stores PROVE C[k] \in OfKind("store")
    <3>1. d.stores[k] \in StoreItem
      BY WithDefaultsTyped, LenProperties
    <3>2. d.stores[k].images \in Seq(Images) /\ d.stores[k].name \in AnyName
      BY <3>1 DEF StoreItem, AnyName
    <3> QED BY <3>2 DEF Item, PlanItem, OfKind, Kinds, StoreItems
  <2>2. C = [k \in DOMAIN d.stores |-> C[k]]
    BY DEF StoreItems
  <2> HIDE DEF C
  <2> QED BY <2>1, <2>2, WithDefaultsTyped, MappedIsSeq
<1>3. D \in Seq(OfKind("stack"))
  <2>1. ASSUME NEW k \in DOMAIN stacks PROVE D[k] \in OfKind("stack")
    <3>1. stacks[k] \in AnyStackItem
      BY WithDefaultsTyped, LenProperties
    <3>2. /\ stacks[k].build \in Images /\ stacks[k].run \in Images
          /\ stacks[k].name \in AnyName
      BY <3>1 DEF AnyStackItem
    <3>3. /\ <<stacks[k].build, stacks[k].run>> \in Seq(Images)
          /\ {1, 2} \subseteq DOMAIN <<stacks[k].build, stacks[k].run>>
      BY <3>2
    <3>4. D[k] = Item("stack", stacks[k].name, <<stacks[k].build, stacks[k].run>>, NoName, NoName)
      BY DEF StackItems
    <3> HIDE DEF stacks, D
    <3> QED BY <3>2, <3>3, <3>4 DEF Item, PlanItem, OfKind, Kinds
  <2>2. D = [k \in DOMAIN stacks |-> D[k]]
    BY DEF StackItems
  <2>3. stacks \in Seq(AnyStackItem)
    BY WithDefaultsTyped
  <2> HIDE DEF D, stacks
  <2> QED BY <2>1, <2>2, <2>3, MappedIsSeq
<1>4. E \in Seq(OfKind("builder"))
  <2>1. ASSUME NEW k \in DOMAIN builders PROVE E[k] \in OfKind("builder")
    <3>1. builders[k] \in AnyBuilderItem
      BY WithDefaultsTyped, LenProperties
    <3>2. /\ builders[k].stack \in Names /\ builders[k].store \in Names \cup {NoName}
          /\ builders[k].name \in AnyName
      BY <3>1 DEF AnyBuilderItem
    <3>3. E[k] = Item("builder", builders[k].name, <<>>, builders[k].stack, builders[k].store)
      BY DEF BuilderItems
    <3> HIDE DEF builders, E
    <3> QED BY <3>2, <3>3 DEF Item, PlanItem, OfKind, Kinds
  <2>2. E = [k \in DOMAIN builders |-> E[k]]
    BY DEF BuilderItems
  <2>3. builders \in Seq(AnyBuilderItem)
    BY WithDefaultsTyped
  <2> HIDE DEF E, builders
  <2> QED BY <2>1, <2>2, <2>3, MappedIsSeq
<1>5. Plan(d) = LifecycleItems(d) \o BuildpackItems(d) \o StoreItems(d) \o StackItems(d) \o BuilderItems(d)
  BY DEF Plan, LifecycleItems, BuildpackItems, StoreItems, StackItems, BuilderItems
<1> QED BY <1>1, <1>2, <1>3, <1>4, <1>5

\* Every loop but the last has no builder, and those before and after the stores have no store.
LEMMA PlanHalves ==
  ASSUME NEW d \in Descriptors
  PROVE  LET before == LifecycleItems(d) \o BuildpackItems(d)
             first == before \o StoreItems(d) \o StackItems(d)
         IN  /\ before \in Seq(PlanItem) /\ \A k \in DOMAIN before : before[k].kind \notin {"store", "builder"}
             /\ first \in Seq(PlanItem) /\ \A k \in DOMAIN first : first[k].kind # "builder"
             /\ Len(before) + Len(StoreItems(d)) <= Len(first)
             /\ \A k \in DOMAIN first : k <= Len(before) => first[k] = before[k]
             /\ \A k \in DOMAIN first : k > Len(before) /\ k <= Len(before) + Len(StoreItems(d)) =>
                  first[k] = StoreItems(d)[k - Len(before)]
             /\ \A k \in DOMAIN first : k > Len(before) + Len(StoreItems(d)) => first[k].kind = "stack"
             /\ Plan(d) = first \o BuilderItems(d)
             /\ Plan(d) \in Seq(PlanItem)
<1> DEFINE A == LifecycleItems(d)
           B == BuildpackItems(d)
           C == StoreItems(d)
           D == StackItems(d)
           E == BuilderItems(d)
<1>1. /\ A \in Seq(OfKind("lifecycle")) /\ B \in Seq(OfKind("buildpack")) /\ C \in Seq(OfKind("store"))
      /\ D \in Seq(OfKind("stack")) /\ E \in Seq(OfKind("builder"))
      /\ Plan(d) = A \o B \o C \o D \o E
  BY PlanParts
<1> HIDE DEF A, B, C, D, E
<1>2. \A kind : OfKind(kind) \subseteq PlanItem
  BY DEF OfKind
<1>3. /\ A \in Seq(PlanItem) /\ B \in Seq(PlanItem) /\ C \in Seq(PlanItem) /\ D \in Seq(PlanItem) /\ E \in Seq(PlanItem)
  BY <1>1, <1>2, SeqMonotonic
<1>4. /\ \A k \in DOMAIN A : A[k].kind = "lifecycle"
      /\ \A k \in DOMAIN B : B[k].kind = "buildpack"
      /\ \A k \in DOMAIN C : C[k].kind = "store"
      /\ \A k \in DOMAIN D : D[k].kind = "stack"
  BY <1>1, LenProperties DEF OfKind
<1>5. /\ DOMAIN A = 1..Len(A) /\ DOMAIN B = 1..Len(B) /\ DOMAIN C = 1..Len(C) /\ DOMAIN D = 1..Len(D)
      /\ Len(A) \in Nat /\ Len(B) \in Nat /\ Len(C) \in Nat /\ Len(D) \in Nat
  BY <1>3, LenProperties
<1> DEFINE X == A \o B
           Y == X \o C
           Z == Y \o D
<1>6. /\ X \in Seq(PlanItem) /\ Len(X) = Len(A) + Len(B) /\ DOMAIN X = 1..Len(X)
      /\ \A k \in DOMAIN X : X[k] = IF k <= Len(A) THEN A[k] ELSE B[k - Len(A)]
  BY <1>3, <1>5, ConcatProperties, LenProperties
<1>7. \A k \in DOMAIN X : X[k].kind \notin {"store", "builder"}
  BY <1>4, <1>5, <1>6
<1> HIDE DEF X
<1>8. /\ Y \in Seq(PlanItem) /\ Len(Y) = Len(X) + Len(C) /\ DOMAIN Y = 1..Len(Y)
      /\ \A k \in DOMAIN Y : Y[k] = IF k <= Len(X) THEN X[k] ELSE C[k - Len(X)]
  <2>1. Y \in Seq(PlanItem) /\ Len(Y) = Len(X) + Len(C)
    BY <1>3, <1>6, ConcatProperties
  <2>2. DOMAIN Y = 1..Len(Y)
    BY <2>1, LenProperties
  <2> QED BY <1>3, <1>6, <2>1, <2>2, ConcatProperties
<1> HIDE DEF Y
<1>9. /\ Z \in Seq(PlanItem) /\ Len(Z) = Len(Y) + Len(D) /\ DOMAIN Z = 1..Len(Z)
      /\ \A k \in DOMAIN Z : Z[k] = IF k <= Len(Y) THEN Y[k] ELSE D[k - Len(Y)]
  <2>1. Z \in Seq(PlanItem) /\ Len(Z) = Len(Y) + Len(D)
    BY <1>3, <1>8, ConcatProperties
  <2>2. DOMAIN Z = 1..Len(Z)
    BY <2>1, LenProperties
  <2> QED BY <1>3, <1>8, <2>1, <2>2, ConcatProperties
<1> HIDE DEF Z
<1>10. Len(X) \in Nat
  BY <1>5, <1>6
<1>11. \A k \in DOMAIN Z : k <= Len(X) => Z[k] = X[k]
  BY <1>5, <1>6, <1>8, <1>9, <1>10
<1>12. \A k \in DOMAIN Z : k > Len(X) /\ k <= Len(X) + Len(C) => Z[k] = C[k - Len(X)]
  BY <1>5, <1>8, <1>9, <1>10
<1>13. \A k \in DOMAIN Z : k > Len(X) + Len(C) => Z[k].kind = "stack"
  BY <1>4, <1>5, <1>8, <1>9, <1>10
<1>14. \A k \in DOMAIN Z : Z[k].kind # "builder"
  <2>1. ASSUME NEW k \in DOMAIN Z, k > Len(X), k <= Len(X) + Len(C) PROVE Z[k].kind = "store"
    BY <1>4, <1>5, <1>9, <1>10, <1>12, <2>1
  <2>2. ASSUME NEW k \in DOMAIN Z, k <= Len(X) PROVE Z[k].kind # "builder"
    BY <1>6, <1>7, <1>9, <1>11, <2>2
  <2>3. ASSUME NEW k \in DOMAIN Z PROVE k \in Nat
    BY <1>9, <2>3
  <2>4. ASSUME NEW k \in DOMAIN Z
        PROVE  k <= Len(X) \/ (k > Len(X) /\ k <= Len(X) + Len(C)) \/ k > Len(X) + Len(C)
    BY <1>5, <1>10, <2>3, <2>4
  <2> QED BY <1>13, <2>1, <2>2, <2>4
<1>15. Plan(d) = Z \o E /\ Z \o E \in Seq(PlanItem)
  BY <1>1, <1>3, <1>9, ConcatProperties DEF X, Y, Z
<1> QED BY <1>5, <1>6, <1>7, <1>8, <1>9, <1>10, <1>11, <1>12, <1>13, <1>14, <1>15 DEF X, Y, Z, A, B, C, D, E

\* A plan is a sequence of such items.
LEMMA PlanTyped ==
  ASSUME NEW d \in Descriptors
  PROVE  Plan(d) \in Seq(PlanItem)
BY PlanHalves

\* What a builder refers to goes first.
LEMMA BuildersLast ==
  ASSUME NEW d \in Descriptors, NEW m \in DOMAIN Plan(d), NEW n \in DOMAIN Plan(d),
         Plan(d)[m].kind = "builder", Plan(d)[n].kind # "builder"
  PROVE  n < m
<1> DEFINE first == LifecycleItems(d) \o BuildpackItems(d) \o StoreItems(d) \o StackItems(d)
           last == BuilderItems(d)
<1>1. /\ first \in Seq(PlanItem) /\ \A k \in DOMAIN first : first[k].kind # "builder"
      /\ Plan(d) = first \o last
  BY PlanHalves
<1>2. last \in Seq(OfKind("builder"))
  BY PlanParts
<1> HIDE DEF first, last
<1>3. last \in Seq(PlanItem) /\ \A k \in DOMAIN last : last[k].kind = "builder"
  <2>1. OfKind("builder") \subseteq PlanItem
    BY DEF OfKind
  <2>2. last \in Seq(PlanItem)
    BY <1>2, <2>1, SeqMonotonic
  <2> QED BY <1>2, <2>2, LenProperties DEF OfKind
<1>4. /\ DOMAIN first = 1..Len(first) /\ DOMAIN last = 1..Len(last) /\ Len(first) \in Nat /\ Len(last) \in Nat
      /\ DOMAIN Plan(d) = 1..Len(Plan(d)) /\ Len(Plan(d)) = Len(first) + Len(last)
      /\ \A k \in DOMAIN Plan(d) : Plan(d)[k] = IF k <= Len(first) THEN first[k] ELSE last[k - Len(first)]
  BY <1>1, <1>3, ConcatProperties, LenProperties
<1>5. m > Len(first)
  BY <1>1, <1>4
<1>6. n <= Len(first)
  BY <1>3, <1>4
<1> QED BY <1>4, <1>5, <1>6

\* No descriptor that is accepted imports a store twice: there is no default store.
LEMMA StoresApart ==
  ASSUME NEW d \in Descriptors, ValidateDescriptor(d), NEW m \in DOMAIN Plan(d), NEW n \in DOMAIN Plan(d),
         Plan(d)[m].kind = "store", Plan(d)[n].kind = "store", Plan(d)[m].name = Plan(d)[n].name
  PROVE  m = n
<1> DEFINE before == LifecycleItems(d) \o BuildpackItems(d)
           first == before \o StoreItems(d) \o StackItems(d)
           last == BuilderItems(d)
           stores == StoreItems(d)
<1>1. /\ before \in Seq(PlanItem) /\ \A k \in DOMAIN before : before[k].kind \notin {"store", "builder"}
      /\ first \in Seq(PlanItem)
      /\ \A k \in DOMAIN first : k <= Len(before) => first[k] = before[k]
      /\ \A k \in DOMAIN first : k > Len(before) /\ k <= Len(before) + Len(stores) => first[k] = stores[k - Len(before)]
      /\ \A k \in DOMAIN first : k > Len(before) + Len(stores) => first[k].kind = "stack"
      /\ Len(before) + Len(stores) <= Len(first)
      /\ Plan(d) = first \o last
  BY PlanHalves
<1>2. last \in Seq(OfKind("builder")) /\ stores \in Seq(OfKind("store"))
  BY PlanParts
<1>3. \A j, k \in DOMAIN stores : stores[j].name = stores[k].name => j = k
  <2>1. DOMAIN stores = DOMAIN d.stores
    BY DEF StoreItems
  <2>2. \A k \in DOMAIN stores : stores[k].name = d.stores[k].name
    BY DEF StoreItems, Item
  <2> QED BY <2>1, <2>2 DEF ValidateDescriptor, NamesDistinct
<1> HIDE DEF before, first, last, stores
<1>4. last \in Seq(PlanItem) /\ \A k \in DOMAIN last : last[k].kind = "builder"
  <2>1. OfKind("builder") \subseteq PlanItem
    BY DEF OfKind
  <2>2. last \in Seq(PlanItem)
    BY <1>2, <2>1, SeqMonotonic
  <2> QED BY <1>2, <2>2, LenProperties DEF OfKind
<1>5. /\ DOMAIN first = 1..Len(first) /\ DOMAIN last = 1..Len(last) /\ Len(first) \in Nat /\ Len(last) \in Nat
      /\ DOMAIN Plan(d) = 1..Len(Plan(d)) /\ Len(Plan(d)) = Len(first) + Len(last)
      /\ \A k \in DOMAIN Plan(d) : Plan(d)[k] = IF k <= Len(first) THEN first[k] ELSE last[k - Len(first)]
  BY <1>1, <1>4, ConcatProperties, LenProperties
<1>6. /\ DOMAIN stores = 1..Len(stores) /\ Len(stores) \in Nat
      /\ DOMAIN before = 1..Len(before) /\ Len(before) \in Nat
  BY <1>1, <1>2, LenProperties
<1>7. ASSUME NEW k \in DOMAIN Plan(d), Plan(d)[k].kind = "store"
      PROVE  k - Len(before) \in DOMAIN stores /\ Plan(d)[k] = stores[k - Len(before)] /\ k \in Nat
  <2>1. k \in 1..Len(first) /\ Plan(d)[k] = first[k]
    BY <1>4, <1>5, <1>7
  <2>2. ~(k <= Len(before))
    BY <1>1, <1>5, <1>6, <1>7, <2>1
  <2>3. ~(k > Len(before) + Len(stores))
    BY <1>1, <1>5, <1>7, <2>1
  <2>4. k - Len(before) \in DOMAIN stores
    BY <1>6, <2>1, <2>2, <2>3
  <2>5. k \in Nat /\ k \in DOMAIN first /\ k > Len(before) /\ k <= Len(before) + Len(stores)
    BY <1>2, <1>5, <1>6, <2>1, <2>2, <2>3
  <2>6. first[k] = stores[k - Len(before)]
    BY <1>1, <2>5
  <2> QED BY <2>1, <2>4, <2>5, <2>6
<1>8. m - Len(before) = n - Len(before)
  BY <1>3, <1>7
<1> QED BY <1>6, <1>7, <1>8
-----------------------------------------------------------------------------
(* What a spec names                                                       *)

\* The images of a spec.  (RefsOf says so of an object that is there.)
SpecRefs(kind, spec) ==
  CASE kind \in {"lifecycle", "buildpack"} -> {spec.image}
    [] kind = "stack"   -> {spec.build, spec.run}
    [] kind = "store"   -> spec.sources
    [] kind = "builder" -> {}

Needed(dst, item) == Relocated(dst, ImagesOf({item}))

\* The types of specs, kind by kind.
LEMMA SpecsOfKinds ==
  /\ SpecsOf("lifecycle") = [image : Refs] /\ SpecsOf("buildpack") = [image : Refs]
  /\ SpecsOf("stack") = [id : {StackId[i] : i \in Images}, build : Refs, run : Refs]
  /\ SpecsOf("store") = [sources : SUBSET Refs]
  /\ SpecsOf("builder") = [tag : Repos, stack : Names, store : Names \cup {NoName}]
BY DEF SpecsOf

\* And what they name.
LEMMA SpecRefsOfKinds ==
  ASSUME NEW spec
  PROVE  /\ SpecRefs("lifecycle", spec) = {spec.image} /\ SpecRefs("buildpack", spec) = {spec.image}
         /\ SpecRefs("stack", spec) = {spec.build, spec.run}
         /\ SpecRefs("store", spec) = spec.sources
         /\ SpecRefs("builder", spec) = {}
BY DEF SpecRefs

\* The images of one item.
LEMMA ImagesOfOne ==
  ASSUME NEW item
  PROVE  ImagesOf({item}) = {item.images[k] : k \in DOMAIN item.images}
BY DEF ImagesOf

\* What is relocated of an item is in the repository.
LEMMA NeededRefs ==
  ASSUME NEW item \in PlanItem, NEW dst \in Repos
  PROVE  Needed(dst, item) \subseteq Refs
<1>1. \A k \in DOMAIN item.images : item.images[k] \in Images
  BY LenProperties DEF PlanItem
<1>2. ImagesOf({item}) = {item.images[k] : k \in DOMAIN item.images}
  BY ImagesOfOne
<1>3. ImagesOf({item}) \subseteq Images
  BY <1>1, <1>2
<1> QED BY <1>3 DEF Needed, Relocated, Refs

\* An object that is there has a spec of its kind.
LEMMA ObjectTyped ==
  ASSUME NEW kind, NEW o \in ObjectsOf(kind), o.exists
  PROVE  o.exists = TRUE /\ o.spec \in SpecsOf(kind) /\ o.gen \in Nat \ {0} /\ o.status \in Status
<1>1. NoObject.exists = FALSE
  BY DEF NoObject
<1>2. o # NoObject
  BY <1>1
<1>3. o \in [exists: {TRUE}, spec: SpecsOf(kind), gen: Nat \ {0}, status: Status]
  BY <1>2 DEF ObjectsOf
<1> QED BY <1>3

\* A factory makes a spec of its kind, which names the relocated images and for a store
\* those it has.
LEMMA MadeSpec ==
  ASSUME NEW item \in PlanItem, NEW dst \in Repos, NEW existing \in ObjectsOf(item.kind)
  PROVE  /\ MakeSpec(item, dst, existing) \in SpecsOf(item.kind)
         /\ \A r \in SpecRefs(item.kind, MakeSpec(item, dst, existing)) :
              r \in Needed(dst, item) \/ (existing.exists /\ r \in SpecRefs(item.kind, existing.spec))
<1> DEFINE spec == MakeSpec(item, dst, existing)
<1>0. item.kind \in Kinds /\ item.images \in Seq(Images)
  BY DEF PlanItem
<1>1. \A k \in DOMAIN item.images : item.images[k] \in Images /\ <<dst, item.images[k]>> \in Needed(dst, item)
  <2>1. \A k \in DOMAIN item.images : item.images[k] \in Images
    BY <1>0, LenProperties
  <2>2. \A k \in DOMAIN item.images : item.images[k] \in ImagesOf({item})
    BY ImagesOfOne
  <2> QED BY <2>1, <2>2 DEF Needed, Relocated
<1>2. Needed(dst, item) \subseteq Refs
  BY NeededRefs
<1>3. CASE item.kind \in {"lifecycle", "buildpack"}
  <2>1. spec = [image |-> <<dst, item.images[1]>>]
    BY <1>3 DEF MakeSpec
  <2>2. <<dst, item.images[1]>> \in Needed(dst, item)
    BY <1>1, <1>3 DEF PlanItem
  <2> HIDE DEF spec
  <2>3. spec \in SpecsOf(item.kind)
    BY <1>2, <1>3, <2>1, <2>2, SpecsOfKinds
  <2>4. \A r \in SpecRefs(item.kind, spec) : r \in Needed(dst, item)
    BY <1>3, <2>1, <2>2, SpecRefsOfKinds
  <2> QED BY <2>3, <2>4 DEF spec
<1>4. CASE item.kind = "stack"
  <2>1. spec = [id |-> StackId[item.images[1]],
                build |-> <<dst, item.images[1]>>, run |-> <<dst, item.images[2]>>]
    BY <1>4 DEF MakeSpec
  <2>2. /\ item.images[1] \in Images
        /\ <<dst, item.images[1]>> \in Needed(dst, item) /\ <<dst, item.images[2]>> \in Needed(dst, item)
    BY <1>1, <1>4 DEF PlanItem
  <2> HIDE DEF spec
  <2>3. spec \in SpecsOf(item.kind)
    BY <1>2, <1>4, <2>1, <2>2, SpecsOfKinds
  <2>4. \A r \in SpecRefs(item.kind, spec) : r \in Needed(dst, item)
    BY <1>4, <2>1, <2>2, SpecRefsOfKinds
  <2> QED BY <2>3, <2>4 DEF spec
<1>5. CASE item.kind = "store"
  <2> DEFINE old == IF existing.exists THEN existing.spec.sources ELSE {}
  <2>1. spec = [sources |-> AddToStore(old, Needed(dst, item))]
    BY <1>5 DEF MakeSpec, Needed
  <2>2. AddToStore(old, Needed(dst, item)) \subseteq old \cup Needed(dst, item)
    BY DEF AddToStore
  <2>3. old \subseteq Refs
    <3>1. CASE existing.exists
      <4>1. existing.spec \in SpecsOf("store")
        BY <1>5, <3>1, ObjectTyped
      <4>2. existing.spec \in [sources : SUBSET Refs]
        BY <4>1, SpecsOfKinds
      <4> QED BY <3>1, <4>2
    <3>2. CASE ~existing.exists
      BY <3>2
    <3> QED BY <3>1, <3>2
  <2>4. spec \in SpecsOf(item.kind)
    BY <1>2, <1>5, <2>1, <2>2, <2>3, SpecsOfKinds
  <2>5. SpecRefs(item.kind, spec) \subseteq old \cup Needed(dst, item)
    BY <1>5, <2>1, <2>2, SpecRefsOfKinds
  <2>6. SpecRefs(item.kind, existing.spec) = existing.spec.sources
    BY <1>5, SpecRefsOfKinds
  <2>7. \A r \in SpecRefs(item.kind, spec) :
          r \in Needed(dst, item) \/ (existing.exists /\ r \in SpecRefs(item.kind, existing.spec))
    <3> HIDE DEF spec
    <3>1. CASE existing.exists
      BY <2>5, <2>6, <3>1
    <3>2. CASE ~existing.exists
      BY <2>5, <3>2
    <3> QED BY <3>1, <3>2
  <2> HIDE DEF spec
  <2> QED BY <2>4, <2>7 DEF spec
<1>6. CASE item.kind = "builder"
  <2>1. spec = [tag |-> dst, stack |-> item.stack, store |-> item.store]
    BY <1>6 DEF MakeSpec
  <2>2. item.stack \in Names /\ item.store \in Names \cup {NoName}
    BY <1>6 DEF PlanItem
  <2> HIDE DEF spec
  <2>3. spec \in SpecsOf(item.kind)
    BY <1>6, <2>1, <2>2, SpecsOfKinds
  <2> QED BY <1>6, <2>3, SpecRefsOfKinds DEF spec
<1> QED BY <1>0, <1>3, <1>4, <1>5, <1>6 DEF Kinds

\* A field of a patched spec is one that was there or one that was wanted.
LEMMA MergedFields ==
  ASSUME NEW F, NEW o, NEW b, NEW u, o = [f \in F |-> o[f]], DOMAIN u = F, NEW m,
         m = ApplyMergePatch(o, CreatePatch(b, u))
  PROVE  m = [f \in F |-> m[f]] /\ \A f \in F : m[f] = o[f] \/ m[f] = u[f]
<1>1. DOMAIN o = F
  OBVIOUS
<1>2. m = [f \in F |-> IF f \in DOMAIN CreatePatch(b, u) THEN CreatePatch(b, u)[f] ELSE o[f]]
  BY <1>1 DEF ApplyMergePatch
<1>3. \A f \in DOMAIN CreatePatch(b, u) : CreatePatch(b, u)[f] = u[f]
  BY DEF CreatePatch
<1> QED BY <1>2, <1>3

\* So a patched spec is one of its kind, and names nothing that neither of them named.
LEMMA MergedSpec ==
  ASSUME NEW kind \in Kinds, NEW o \in SpecsOf(kind), NEW b, NEW u \in SpecsOf(kind), NEW m,
         m = ApplyMergePatch(o, CreatePatch(b, u))
  PROVE  m \in SpecsOf(kind) /\ SpecRefs(kind, m) \subseteq SpecRefs(kind, o) \cup SpecRefs(kind, u)
<1>1. CASE kind \in {"lifecycle", "buildpack"}
  <2>1. o \in [image : Refs] /\ u \in [image : Refs]
    BY <1>1, SpecsOfKinds
  <2>2. o = [f \in {"image"} |-> o[f]] /\ DOMAIN u = {"image"}
    BY <2>1
  <2>3. m = [f \in {"image"} |-> m[f]] /\ (m.image = o.image \/ m.image = u.image)
    BY <2>2, MergedFields
  <2>4. m \in [image : Refs]
    BY <2>1, <2>3
  <2> QED BY <1>1, <2>3, <2>4, SpecsOfKinds, SpecRefsOfKinds
<1>2. CASE kind = "stack"
  <2> DEFINE F == {"id", "build", "run"}
  <2>1. /\ o \in [id : {StackId[i] : i \in Images}, build : Refs, run : Refs]
        /\ u \in [id : {StackId[i] : i \in Images}, build : Refs, run : Refs]
    BY <1>2, SpecsOfKinds
  <2>2. o = [f \in F |-> o[f]] /\ DOMAIN u = F
    BY <2>1
  <2>3. m = [f \in F |-> m[f]] /\ \A f \in F : m[f] = o[f] \/ m[f] = u[f]
    BY <2>2, MergedFields
  <2>4. /\ m.id = o.id \/ m.id = u.id
        /\ m.build = o.build \/ m.build = u.build
        /\ m.run = o.run \/ m.run = u.run
    BY <2>3
  <2>5. m \in [id : {StackId[i] : i \in Images}, build : Refs, run : Refs]
    BY <2>1, <2>3, <2>4
  <2> QED BY <1>2, <2>4, <2>5, SpecsOfKinds, SpecRefsOfKinds
<1>3. CASE kind = "store"
  <2>1. o \in [sources : SUBSET Refs] /\ u \in [sources : SUBSET Refs]
    BY <1>3, SpecsOfKinds
  <2>2. o = [f \in {"sources"} |-> o[f]] /\ DOMAIN u = {"sources"}
    BY <2>1
  <2>3. m = [f \in {"sources"} |-> m[f]] /\ (m.sources = o.sources \/ m.sources = u.sources)
    BY <2>2, MergedFields
  <2>4. m \in [sources : SUBSET Refs]
    BY <2>1, <2>3
  <2> QED BY <1>3, <2>3, <2>4, SpecsOfKinds, SpecRefsOfKinds
<1>4. CASE kind = "builder"
  <2> DEFINE F == {"tag", "stack", "store"}
  <2>1. /\ o \in [tag : Repos, stack : Names, store : Names \cup {NoName}]
        /\ u \in [tag : Repos, stack : Names, store : Names \cup {NoName}]
    BY <1>4, SpecsOfKinds
  <2>2. o = [f \in F |-> o[f]] /\ DOMAIN u = F
    BY <2>1
  <2>3. m = [f \in F |-> m[f]] /\ \A f \in F : m[f] = o[f] \/ m[f] = u[f]
    BY <2>2, MergedFields
  <2>4. m \in [tag : Repos, stack : Names, store : Names \cup {NoName}]
    BY <2>1, <2>3
  <2> QED BY <1>4, <2>4, SpecsOfKinds, SpecRefsOfKinds
<1> QED BY <1>1, <1>2, <1>3, <1>4 DEF Kinds

\* What a save wants of an object is a spec of its kind.
LEMMA UpdatedSpec ==
  ASSUME NEW item \in PlanItem, NEW b \in SpecsOf(item.kind), NEW n \in SpecsOf(item.kind)
  PROVE  /\ UpdateSpec(item, b, n) \in SpecsOf(item.kind)
         /\ SpecRefs(item.kind, UpdateSpec(item, b, n))
              \subseteq SpecRefs(item.kind, b) \cup SpecRefs(item.kind, n)
<1>1. CASE item.kind = "store"
  <2>1. b \in [sources : SUBSET Refs] /\ n \in [sources : SUBSET Refs]
    BY <1>1, SpecsOfKinds
  <2>2. UpdateSpec(item, b, n) = [sources |-> b.sources \cup n.sources]
    BY <1>1 DEF UpdateSpec, CreateBuildpackageSuperset
  <2>3. UpdateSpec(item, b, n) \in SpecsOf("store")
    BY <2>1, <2>2, SpecsOfKinds
  <2> QED BY <1>1, <2>2, <2>3, SpecRefsOfKinds
<1>2. CASE item.kind # "store"
  BY <1>2 DEF UpdateSpec
<1> QED BY <1>1, <1>2
-----------------------------------------------------------------------------
(* Types                                                                   *)

PCs == {"idle", "summary", "confirm", "relocate", "get", "write", "wait", "ok", "skipped", "failed"}
Saving == {"get", "write", "wait"}
BuiltType == [spec : UNION {SpecsOf(k) : k \in Kinds}, existed : BOOLEAN]

\* How far an import is: it has constructed an object for each item before the one it is
\* at, and for all of them once it saves, which no dry run does.
Progress(p) ==
  /\ pc[p] # "idle" => cmd[p] \in Commands
  /\ pc[p] \in {"idle", "confirm"} => pos[p] = 1
  /\ built[p] \in Seq(BuiltType)
  /\ pc[p] \in {"idle", "summary", "confirm"} => built[p] = <<>>
  /\ pc[p] = "relocate" => pos[p] = Len(built[p]) + 1 /\ Len(built[p]) <= Len(ItemsOf(p))
  /\ pc[p] \in Saving => Len(built[p]) = Len(ItemsOf(p)) /\ ~IsDryRun(p)
  /\ pc[p] \in Saving \cup {"relocate"} =>
       \A n \in DOMAIN built[p] : built[p][n].spec \in SpecsOf(ItemsOf(p)[n].kind)
  /\ pc[p] \in {"write", "wait"} => pos[p] \in DOMAIN ItemsOf(p)
  /\ pc[p] = "write" => base[p] \in ObjectsOf(Current(p).kind)

TypeInv == TypeOK /\ \A p \in Procs : Progress(p)

\* The plan of an import that was started.
LEMMA ItemsTyped ==
  ASSUME NEW p, cmd[p] \in Commands
  PROVE  /\ ItemsOf(p) \in Seq(PlanItem) /\ DOMAIN ItemsOf(p) = 1..Len(ItemsOf(p))
         /\ Len(ItemsOf(p)) \in Nat
         /\ \A n \in DOMAIN ItemsOf(p) : ItemsOf(p)[n] \in PlanItem /\ Key(ItemsOf(p)[n]) \in Keys
<1>1. cmd[p].descriptor \in Descriptors
  BY ImportAssumption
<1>2. ItemsOf(p) \in Seq(PlanItem)
  BY <1>1, PlanTyped DEF ItemsOf
<1>3. \A n \in DOMAIN ItemsOf(p) : Key(ItemsOf(p)[n]) \in Keys
  BY ImportAssumption DEF ItemsOf
<1>4. /\ DOMAIN ItemsOf(p) = 1..Len(ItemsOf(p)) /\ Len(ItemsOf(p)) \in Nat
      /\ \A n \in DOMAIN ItemsOf(p) : ItemsOf(p)[n] \in PlanItem
  BY <1>2, LenProperties
<1> QED BY <1>2, <1>3, <1>4

\* Another process is where it was.
LEMMA OthersProgress ==
  ASSUME NEW q, Progress(q), pc'[q] = pc[q], cmd'[q] = cmd[q], pos'[q] = pos[q],
         built'[q] = built[q], base'[q] = base[q]
  PROVE  Progress(q)'
BY DEF Progress, ItemsOf, Current, IsDryRun

\* A command that stops keeps what it holds until Finish.
LEMMA StopTyped ==
  ASSUME TypeInv, NEW p \in Procs, NEW l \in {"ok", "skipped", "failed"}, Stop(p, l), pc[p] # "idle"
  PROVE  TypeInv'
<1>1. TypeOK'
  BY DEF TypeInv, TypeOK, Stop, Goto, locals
<1>2. ASSUME NEW q \in Procs, q # p PROVE Progress(q)'
  BY <1>2, OthersProgress DEF TypeInv, TypeOK, Stop, Goto, locals
<1>3. Progress(p)'
  BY DEF TypeInv, TypeOK, Progress, Stop, Goto, locals, Saving
<1> QED BY <1>1, <1>2, <1>3 DEF TypeInv

\* A command starts at the first item, with nothing constructed.
LEMMA StartTyped == ASSUME TypeInv, NEW p \in Procs, Start(p) PROVE TypeInv'
<1>1. PICK c \in Commands :
        /\ cmd' = [cmd EXCEPT ![p] = c]
        /\ Goto(p, IF ~ValidateDescriptor(c.descriptor) THEN "failed"
                   ELSE IF c.show THEN "summary" ELSE "relocate")
  BY DEF Start
<1>2. PICK l \in {"failed", "summary", "relocate"} : pc' = [pc EXCEPT ![p] = l]
  <2>1. CASE ~ValidateDescriptor(c.descriptor)
    BY <1>1, <2>1 DEF Goto
  <2>2. CASE ValidateDescriptor(c.descriptor) /\ c.show
    BY <1>1, <2>2 DEF Goto
  <2>3. CASE ValidateDescriptor(c.descriptor) /\ ~c.show
    BY <1>1, <2>3 DEF Goto
  <2> QED BY <2>1, <2>2, <2>3
<1>3. TypeOK'
  BY <1>1, <1>2 DEF Start, TypeInv, TypeOK
<1>4. ASSUME NEW q \in Procs, q # p PROVE Progress(q)'
  BY <1>1, <1>2, <1>4, OthersProgress DEF Start, TypeInv, TypeOK
<1>5. Progress(p)'
  <2>1. cmd'[p] \in Commands /\ pc'[p] = l /\ pos'[p] = 1 /\ built'[p] = <<>>
    BY <1>1, <1>2 DEF Start, TypeInv, TypeOK, Progress
  <2>2. Len(ItemsOf(p)') \in Nat
    BY <2>1, ImportAssumption, PlanTyped, LenProperties DEF ItemsOf
  <2> QED BY <1>2, <2>1, <2>2 DEF Progress, Saving
<1> QED BY <1>3, <1>4, <1>5 DEF TypeInv

\* The summary and the question after it construct nothing.
LEMMA SummaryTyped ==
  ASSUME TypeInv, NEW p \in Procs, Summarize(p) \/ Summarized(p) \/ Confirm(p)
  PROVE  TypeInv'
<1>1. CASE Stop(p, "failed") \/ Stop(p, "skipped")
  BY <1>1, StopTyped DEF Summarize, Summarized, Confirm
<1>2. CASE Summarize(p) /\ ~Stop(p, "failed")
  <2>1. /\ pc[p] = "summary" /\ pos[p] \in DOMAIN ItemsOf(p)
        /\ pos' = [pos EXCEPT ![p] = @ + 1]
        /\ shown' \in {[shown EXCEPT ![p] = @ \cup {Key(Current(p))}], [shown EXCEPT ![p] = @]}
        /\ UNCHANGED <<repo, registry, objects, pc, cmd, dest, built, base, want, gens>>
    BY <1>2 DEF Summarize
  <2>2. Key(Current(p)) \in Keys
    BY <2>1, ItemsTyped DEF TypeInv, Progress, Current
  <2>3. TypeOK'
    <3>1. shown' \in [Procs -> SUBSET Keys]
      BY <2>1, <2>2 DEF TypeInv, TypeOK
    <3>2. pos' \in [Procs -> Nat \ {0}]
      BY <2>1 DEF TypeInv, TypeOK
    <3> QED BY <2>1, <3>1, <3>2 DEF TypeInv, TypeOK
  <2>4. ASSUME NEW q \in Procs, q # p PROVE Progress(q)'
    BY <2>1, <2>4, OthersProgress DEF TypeInv, TypeOK
  <2>5. Progress(p)'
    BY <2>1 DEF TypeInv, TypeOK, Progress, Saving
  <2> QED BY <2>3, <2>4, <2>5 DEF TypeInv
<1>3. CASE Summarized(p)
  <2>1. /\ pc[p] = "summary" /\ pc' = [pc EXCEPT ![p] = "confirm"]
        /\ pos' = [pos EXCEPT ![p] = 1]
        /\ UNCHANGED <<repo, registry, objects, cmd, dest, shown, built, base, want, gens>>
    BY <1>3 DEF Summarized, Goto
  <2>2. TypeOK'
    BY <2>1 DEF TypeInv, TypeOK
  <2>3. ASSUME NEW q \in Procs, q # p PROVE Progress(q)'
    BY <2>1, <2>3, OthersProgress DEF TypeInv, TypeOK
  <2>4. Progress(p)'
    BY <2>1 DEF TypeInv, TypeOK, Progress, Saving
  <2> QED BY <2>2, <2>3, <2>4 DEF TypeInv
<1>4. CASE pc[p] = "confirm" /\ Stop(p, "relocate")
  <2>1. TypeOK'
    BY <1>4 DEF TypeInv, TypeOK, Stop, Goto, locals
  <2>2. ASSUME NEW q \in Procs, q # p PROVE Progress(q)'
    BY <1>4, <2>2, OthersProgress DEF TypeInv, TypeOK, Stop, Goto, locals
  <2>3. /\ cmd[p] \in Commands /\ pos[p] = 1 /\ built[p] = <<>>
        /\ pc'[p] = "relocate" /\ UNCHANGED <<cmd, pos, built, base>>
    BY <1>4 DEF TypeInv, TypeOK, Progress, Stop, Goto, locals
  <2>4. Len(ItemsOf(p)) \in Nat
    BY <2>3, ItemsTyped
  <2>5. Progress(p)'
    BY <2>3, <2>4 DEF Progress, ItemsOf, Saving, TypeInv
  <2> QED BY <2>1, <2>2, <2>5 DEF TypeInv
<1> QED BY <1>1, <1>2, <1>3, <1>4 DEF Confirm

\* What one turn of relocateDescriptor does when it does not fail.
LEMMA ConstructStep ==
  ASSUME TypeInv, NEW p \in Procs, Construct(p), ~Stop(p, "failed")
  PROVE  \E existing \in ObjectsOf(Current(p).kind) :
           /\ Current(p).kind = "store" => existing = objects[Key(Current(p))]
           /\ Current(p).kind # "store" => existing = NoObject
           /\ pc[p] = "relocate" /\ pos[p] \in DOMAIN ItemsOf(p) /\ dest[p] \in Repos
           /\ registry' = IF IsUploading(p) THEN registry \cup Needed(dest[p], Current(p)) ELSE registry
           /\ built' = [built EXCEPT ![p] = Append(@,
                [spec |-> MakeSpec(Current(p), dest[p], existing), existed |-> existing.exists])]
           /\ pos' = [pos EXCEPT ![p] = @ + 1]
           /\ UNCHANGED <<repo, objects, pc, cmd, dest, shown, base, want, gens>>
<1> DEFINE item == Current(p)
           existing == IF item.kind = "store" THEN objects[Key(item)] ELSE NoObject
<1>1. /\ pc[p] = "relocate" /\ pos[p] \in DOMAIN ItemsOf(p) /\ HasDefaultRepository(p)
      /\ registry' = IF IsUploading(p) THEN registry \cup Needed(dest[p], item) ELSE registry
      /\ built' = [built EXCEPT ![p] = Append(@,
           [spec |-> MakeSpec(item, dest[p], existing), existed |-> existing.exists])]
      /\ pos' = [pos EXCEPT ![p] = @ + 1]
      /\ UNCHANGED <<repo, objects, pc, cmd, dest, shown, base, want, gens>>
  BY DEF Construct, Needed
<1>2. dest[p] \in Repos
  BY <1>1 DEF HasDefaultRepository, TypeInv, TypeOK
<1>3. existing \in ObjectsOf(item.kind)
  <2>1. Key(item) \in Keys /\ Key(item)[1] = item.kind
    BY <1>1, ItemsTyped DEF TypeInv, Progress, Current, Key
  <2>2. NoObject \in ObjectsOf(item.kind)
    BY DEF ObjectsOf
  <2> QED BY <2>1, <2>2 DEF TypeInv, TypeOK
<1> QED BY <1>1, <1>2, <1>3

\* One more item has its object.
LEMMA ConstructTyped == ASSUME TypeInv, NEW p \in Procs, Construct(p) PROVE TypeInv'
<1>1. CASE Stop(p, "failed")
  BY <1>1, StopTyped DEF Construct
<1>2. CASE ~Stop(p, "failed")
  <2>0. PICK existing \in ObjectsOf(Current(p).kind) :
           /\ pc[p] = "relocate" /\ pos[p] \in DOMAIN ItemsOf(p) /\ dest[p] \in Repos
           /\ registry' = IF IsUploading(p) THEN registry \cup Needed(dest[p], Current(p)) ELSE registry
           /\ built' = [built EXCEPT ![p] = Append(@,
                [spec |-> MakeSpec(Current(p), dest[p], existing), existed |-> existing.exists])]
           /\ pos' = [pos EXCEPT ![p] = @ + 1]
           /\ UNCHANGED <<repo, objects, pc, cmd, dest, shown, base, want, gens>>
    BY <1>2, ConstructStep
  <2> DEFINE new == [spec |-> MakeSpec(Current(p), dest[p], existing), existed |-> existing.exists]
  <2>1. /\ cmd[p] \in Commands /\ Current(p) \in PlanItem /\ Current(p).kind \in Kinds
        /\ DOMAIN ItemsOf(p) = 1..Len(ItemsOf(p)) /\ Len(ItemsOf(p)) \in Nat
    BY <2>0, ItemsTyped DEF TypeInv, Progress, Current, PlanItem
  <2>2. MakeSpec(Current(p), dest[p], existing) \in SpecsOf(Current(p).kind)
    BY <2>0, <2>1, MadeSpec
  <2>3. existing.exists \in BOOLEAN
    <3>1. CASE existing = NoObject
      BY <3>1 DEF NoObject
    <3>2. CASE existing # NoObject
      BY <3>2 DEF ObjectsOf
    <3> QED BY <3>1, <3>2
  <2>4. new \in BuiltType
    BY <2>1, <2>2, <2>3 DEF BuiltType
  <2>5. new.spec = MakeSpec(Current(p), dest[p], existing)
    OBVIOUS
  <2>6. built' = [built EXCEPT ![p] = Append(built[p], new)]
    BY <2>0
  <2> HIDE DEF new
  <2>7. /\ built[p] \in Seq(BuiltType) /\ pos[p] = Len(built[p]) + 1
        /\ Len(built[p]) \in Nat /\ DOMAIN built[p] = 1..Len(built[p])
    BY <2>0, LenProperties DEF TypeInv, Progress
  <2>8. /\ built'[p] \in Seq(BuiltType) /\ Len(built'[p]) = Len(built[p]) + 1
        /\ DOMAIN built'[p] = 1..(Len(built[p]) + 1)
        /\ \A n \in 1..Len(built[p]) : built'[p][n] = built[p][n]
        /\ built'[p][Len(built[p]) + 1] = new
    <3>1. built'[p] = Append(built[p], new)
      BY <2>6 DEF TypeInv, TypeOK
    <3> QED BY <2>4, <2>7, <3>1, AppendProperties, LenProperties
  <2>9. Needed(dest[p], Current(p)) \subseteq Refs
    BY <2>0, <2>1, NeededRefs
  <2>10. Progress(p)'
    <3>1. \A n \in DOMAIN built'[p] : built'[p][n].spec \in SpecsOf(ItemsOf(p)[n].kind)
      <4>1. ASSUME NEW n \in 1..Len(built[p]) PROVE built'[p][n].spec \in SpecsOf(ItemsOf(p)[n].kind)
        BY <2>0, <2>7, <2>8 DEF TypeInv, Progress
      <4>2. built'[p][Len(built[p]) + 1].spec \in SpecsOf(ItemsOf(p)[Len(built[p]) + 1].kind)
        BY <2>2, <2>5, <2>7, <2>8 DEF Current
      <4> QED BY <2>7, <2>8, <4>1, <4>2
    <3>2. pc'[p] = "relocate" /\ ItemsOf(p)' = ItemsOf(p) /\ cmd'[p] = cmd[p]
      BY <2>0 DEF ItemsOf
    <3>3. pos'[p] = Len(built'[p]) + 1 /\ Len(built'[p]) <= Len(ItemsOf(p))
      BY <2>0, <2>1, <2>7, <2>8 DEF TypeInv, TypeOK
    <3> QED BY <2>1, <2>8, <3>1, <3>2, <3>3 DEF Progress, Saving
  <2>11. ASSUME NEW q \in Procs, q # p PROVE Progress(q)'
    BY <2>0, <2>11, OthersProgress DEF TypeInv, TypeOK
  <2>12. TypeOK'
    <3>1. registry' \subseteq Refs /\ pos' \in [Procs -> Nat \ {0}] /\ DOMAIN built' = Procs
      BY <2>0, <2>9 DEF TypeInv, TypeOK
    <3>2. ASSUME NEW q \in Procs, NEW n \in DOMAIN built'[q]
          PROVE  \E k \in Kinds : built'[q][n] \in [spec : SpecsOf(k), existed : BOOLEAN]
      <4>1. built'[q] \in Seq(BuiltType)
        BY <2>10, <2>11 DEF Progress
      <4>2. built'[q][n] \in BuiltType
        BY <4>1, LenProperties
      <4> QED BY <4>2 DEF BuiltType
    <3> QED BY <2>0, <3>1, <3>2 DEF TypeInv, TypeOK
  <2> QED BY <2>10, <2>11, <2>12 DEF TypeInv
<1> QED BY <1>1, <1>2

\* Once every item has its object, a dry run is over and the others begin to save.
LEMMA RelocationTyped == ASSUME TypeInv, NEW p \in Procs, Relocation(p) PROVE TypeInv'
<1>0. PICK l \in {"ok", "get"} : pc' = [pc EXCEPT ![p] = l] /\ (l = "get" => ~IsDryRun(p))
  <2>1. CASE IsDryRun(p)
    BY <2>1 DEF Relocation, Goto
  <2>2. CASE ~IsDryRun(p)
    BY <2>2 DEF Relocation, Goto
  <2> QED BY <2>1, <2>2
<1>1. /\ pc[p] = "relocate" /\ pos[p] \notin DOMAIN ItemsOf(p)
      /\ pos' = [pos EXCEPT ![p] = 1]
      /\ UNCHANGED <<repo, registry, objects, cmd, dest, shown, built, base, want, gens>>
  BY DEF Relocation
<1>2. TypeOK'
  BY <1>0, <1>1 DEF TypeInv, TypeOK
<1>3. ASSUME NEW q \in Procs, q # p PROVE Progress(q)'
  BY <1>0, <1>1, <1>3, OthersProgress DEF TypeInv, TypeOK
<1>4. Len(built[p]) = Len(ItemsOf(p))
  <2>1. /\ DOMAIN ItemsOf(p) = 1..Len(ItemsOf(p)) /\ Len(ItemsOf(p)) \in Nat
        /\ Len(built[p]) \in Nat /\ pos[p] = Len(built[p]) + 1 /\ Len(built[p]) <= Len(ItemsOf(p))
    BY <1>1, ItemsTyped, LenProperties DEF TypeInv, Progress
  <2> QED BY <1>1, <2>1
<1>5. Progress(p)'
  <2>1. ItemsOf(p)' = ItemsOf(p) /\ IsDryRun(p)' = IsDryRun(p) /\ built'[p] = built[p] /\ pc'[p] = l
    BY <1>0, <1>1 DEF ItemsOf, IsDryRun, TypeInv, TypeOK
  <2> QED BY <1>0, <1>1, <1>4, <2>1 DEF TypeInv, TypeOK, Progress, Saving
<1> QED BY <1>2, <1>3, <1>5 DEF TypeInv

\* A save reads an object of the item's kind.
LEMMA GetExistingTyped == ASSUME TypeInv, NEW p \in Procs, GetExisting(p) PROVE TypeInv'
<1>1. CASE Stop(p, "ok")
  BY <1>1, StopTyped DEF GetExisting
<1>2. CASE ~Stop(p, "ok")
  <2>1. /\ pc[p] = "get" /\ pos[p] \in DOMAIN ItemsOf(p)
        /\ base' = [base EXCEPT ![p] = objects[Key(Current(p))]]
        /\ pc' = [pc EXCEPT ![p] = "write"]
        /\ UNCHANGED <<repo, registry, objects, cmd, dest, pos, shown, built, want, gens>>
    BY <1>2 DEF GetExisting, Goto
  <2>2. Key(Current(p)) \in Keys /\ Key(Current(p))[1] = Current(p).kind /\ Current(p).kind \in Kinds
    BY <2>1, ItemsTyped DEF TypeInv, Progress, Current, Key, Keys
  <2>3. objects[Key(Current(p))] \in ObjectsOf(Current(p).kind)
    BY <2>2 DEF TypeInv, TypeOK
  <2>4. TypeOK'
    BY <2>1, <2>2, <2>3 DEF TypeInv, TypeOK
  <2>5. ASSUME NEW q \in Procs, q # p PROVE Progress(q)'
    BY <2>1, <2>5, OthersProgress DEF TypeInv, TypeOK
  <2>6. Progress(p)'
    <3>1. ItemsOf(p)' = ItemsOf(p) /\ Current(p)' = Current(p) /\ IsDryRun(p)' = IsDryRun(p)
      BY <2>1 DEF ItemsOf, Current, IsDryRun
    <3>2. pc'[p] = "write" /\ base'[p] = objects[Key(Current(p))]
      BY <2>1 DEF TypeInv, TypeOK
    <3> QED BY <2>1, <2>3, <3>1, <3>2 DEF TypeInv, Progress, Saving
  <2> QED BY <2>4, <2>5, <2>6 DEF TypeInv
<1> QED BY <1>1, <1>2

\* Somebody changed the objects and nobody's locals.
LEMMA ObjectsTyped ==
  ASSUME TypeInv, NEW o \in Keys, NEW x \in ObjectsOf(o[1]), objects' = [objects EXCEPT ![o] = x],
         UNCHANGED <<repo, registry, pc, locals>>
  PROVE  TypeInv'
<1>1. \A k \in Keys : objects'[k] \in ObjectsOf(k[1])
  BY DEF TypeInv, TypeOK
<1>2. TypeOK'
  BY <1>1 DEF TypeInv, TypeOK, locals
<1>3. ASSUME NEW q \in Procs PROVE Progress(q)'
  BY OthersProgress DEF TypeInv, locals
<1> QED BY <1>2, <1>3 DEF TypeInv

\* A write of an object of its kind.
LEMMA StoreTyped ==
  ASSUME TypeInv, NEW p \in Procs, pc[p] = "write", NEW spec \in SpecsOf(Current(p).kind),
         NEW gen \in Nat \ {0}, NEW status \in Status,
         Store(p, [exists |-> TRUE, spec |-> spec, gen |-> gen, status |-> status])
  PROVE  TypeInv'
<1> DEFINE x == [exists |-> TRUE, spec |-> spec, gen |-> gen, status |-> status]
<1>1. /\ Key(Current(p)) \in Keys /\ Key(Current(p))[1] = Current(p).kind
      /\ pos[p] \in DOMAIN ItemsOf(p)
  BY ItemsTyped DEF TypeInv, Progress, Current, Key, Keys
<1>2. x \in ObjectsOf(Current(p).kind) /\ x.gen = gen
  BY DEF ObjectsOf
<1> HIDE DEF x
<1>3. /\ objects' = [objects EXCEPT ![Key(Current(p))] = x]
      /\ want' = [want EXCEPT ![p] = gen] /\ pc' = [pc EXCEPT ![p] = "wait"]
      /\ UNCHANGED <<repo, registry, cmd, dest, pos, shown, built, base, gens>>
  BY <1>2 DEF Store, Goto, x
<1>4. \A k \in Keys : objects'[k] \in ObjectsOf(k[1])
  BY <1>1, <1>2, <1>3 DEF TypeInv, TypeOK
<1>5. TypeOK'
  BY <1>3, <1>4 DEF TypeInv, TypeOK
<1>6. ASSUME NEW q \in Procs, q # p PROVE Progress(q)'
  BY <1>3, <1>6, OthersProgress DEF TypeInv, TypeOK
<1>7. Progress(p)'
  <2>1. ItemsOf(p)' = ItemsOf(p) /\ IsDryRun(p)' = IsDryRun(p) /\ pc'[p] = "wait"
    BY <1>3 DEF ItemsOf, IsDryRun, TypeInv, TypeOK
  <2> QED BY <1>1, <1>3, <2>1 DEF TypeInv, Progress, Saving
<1> QED BY <1>5, <1>6, <1>7 DEF TypeInv

\* What a process that is about to write holds.
LEMMA Holding ==
  ASSUME TypeInv, NEW p \in Procs, pc[p] = "write"
  PROVE  /\ Current(p) \in PlanItem /\ Current(p).kind \in Kinds /\ Key(Current(p)) \in Keys
         /\ Key(Current(p))[1] = Current(p).kind
         /\ pos[p] \in DOMAIN built[p]
         /\ built[p][pos[p]].spec \in SpecsOf(Current(p).kind)
         /\ base[p].exists => base[p].spec \in SpecsOf(Current(p).kind)
<1>1. /\ cmd[p] \in Commands /\ pos[p] \in DOMAIN ItemsOf(p)
      /\ DOMAIN ItemsOf(p) = 1..Len(ItemsOf(p)) /\ Len(built[p]) = Len(ItemsOf(p))
      /\ built[p] \in Seq(BuiltType)
  BY ItemsTyped DEF TypeInv, Progress, Saving
<1>2. pos[p] \in DOMAIN built[p]
  BY <1>1, LenProperties
<1>3. built[p][pos[p]].spec \in SpecsOf(Current(p).kind)
  BY <1>2 DEF TypeInv, Progress, Saving, Current
<1>4. base[p].exists => base[p].spec \in SpecsOf(Current(p).kind)
  BY ObjectTyped DEF TypeInv, Progress
<1>5. /\ Current(p) \in PlanItem /\ Current(p).kind \in Kinds /\ Key(Current(p)) \in Keys
      /\ Key(Current(p))[1] = Current(p).kind
  BY <1>1, ItemsTyped DEF Current, PlanItem, Key
<1> QED BY <1>2, <1>3, <1>4, <1>5

\* What is created is what was constructed.
LEMMA CreateTyped == ASSUME TypeInv, NEW p \in Procs, Create(p) PROVE TypeInv'
<1>1. CASE Stop(p, "failed")
  BY <1>1, StopTyped DEF Create
<1>2. CASE ~Stop(p, "failed")
  <2>1. /\ pc[p] = "write"
        /\ Store(p, [exists |-> TRUE, spec |-> built[p][pos[p]].spec, gen |-> 1, status |-> NoStatus])
    BY <1>2 DEF Create
  <2>2. NoStatus \in Status
    BY DEF NoStatus, Status, SeenBy, Unseen
  <2>3. built[p][pos[p]].spec \in SpecsOf(Current(p).kind) /\ 1 \in Nat \ {0}
    BY <2>1, Holding
  <2> QED BY <2>1, <2>2, <2>3, StoreTyped
<1> QED BY <1>1, <1>2

\* The spec that results from the patch of a save.
PatchedSpec(p) ==
  ApplyMergePatch(objects[Key(Current(p))].spec,
    CreatePatch(base[p].spec, UpdateSpec(Current(p), base[p].spec, built[p][pos[p]].spec)))

\* What a patch does when the object is still there.
LEMMA PatchStep ==
  ASSUME TypeInv, NEW p \in Procs, Patch(p), ~Stop(p, "failed")
  PROVE  LET o == objects[Key(Current(p))] IN
         /\ pc[p] = "write" /\ base[p].exists /\ o.exists
         /\ PatchedSpec(p) \in SpecsOf(Current(p).kind)
         /\ SpecRefs(Current(p).kind, PatchedSpec(p)) \subseteq
              SpecRefs(Current(p).kind, o.spec) \cup SpecRefs(Current(p).kind, base[p].spec)
                \cup SpecRefs(Current(p).kind, built[p][pos[p]].spec)
         /\ o.status \in Status
         /\ \E gen \in Nat \ {0} :
              Store(p, [exists |-> TRUE, spec |-> PatchedSpec(p), gen |-> gen, status |-> o.status])
<1> DEFINE o == objects[Key(Current(p))]
           kind == Current(p).kind
           updated == UpdateSpec(Current(p), base[p].spec, built[p][pos[p]].spec)
           gen == IF PatchedSpec(p) = o.spec THEN o.gen ELSE o.gen + 1
<1>1. /\ pc[p] = "write" /\ base[p].exists /\ o.exists
      /\ Store(p, [exists |-> TRUE, spec |-> PatchedSpec(p), gen |-> gen, status |-> o.status])
  BY DEF Patch, PatchedSpec
<1>2. o \in ObjectsOf(kind)
  BY <1>1, Holding DEF TypeInv, TypeOK
<1>3. o.spec \in SpecsOf(kind) /\ o.gen \in Nat \ {0} /\ o.status \in Status
  BY <1>1, <1>2, ObjectTyped
<1>4. gen \in Nat \ {0}
  BY <1>3
<1>5. updated \in SpecsOf(kind)
      /\ SpecRefs(kind, updated) \subseteq SpecRefs(kind, base[p].spec) \cup SpecRefs(kind, built[p][pos[p]].spec)
  BY <1>1, Holding, UpdatedSpec
<1>6. /\ PatchedSpec(p) \in SpecsOf(kind)
      /\ SpecRefs(kind, PatchedSpec(p)) \subseteq SpecRefs(kind, o.spec) \cup SpecRefs(kind, updated)
  <2> DEFINE b == base[p].spec
             u == updated
             s == o.spec
  <2>1. PatchedSpec(p) = ApplyMergePatch(s, CreatePatch(b, u))
    BY DEF PatchedSpec
  <2>2. kind \in Kinds /\ s \in SpecsOf(kind) /\ u \in SpecsOf(kind)
    BY <1>1, <1>3, <1>5, Holding
  <2> HIDE DEF b, u, s, o, kind, updated
  <2>3. /\ PatchedSpec(p) \in SpecsOf(kind)
        /\ SpecRefs(kind, PatchedSpec(p)) \subseteq SpecRefs(kind, s) \cup SpecRefs(kind, u)
    BY <2>1, <2>2, MergedSpec
  <2> QED BY <2>3 DEF s, u
<1> HIDE DEF gen, updated
<1> QED BY <1>1, <1>3, <1>4, <1>5, <1>6

\* So a patched object has a spec of its kind.
LEMMA PatchTyped == ASSUME TypeInv, NEW p \in Procs, Patch(p) PROVE TypeInv'
<1>1. CASE Stop(p, "failed")
  BY <1>1, StopTyped DEF Patch
<1>2. CASE ~Stop(p, "failed")
  BY <1>2, PatchStep, StoreTyped
<1> QED BY <1>1, <1>2

\* The end of a wait: the next item, or the failure the object reports.
LEMMA WaitResolvedTyped == ASSUME TypeInv, NEW p \in Procs, WaitResolved(p) PROVE TypeInv'
<1>1. CASE Stop(p, "failed")
  BY <1>1, StopTyped DEF WaitResolved
<1>2. CASE ~Stop(p, "failed")
  <2> DEFINE o == Key(Current(p))
  <2>1. /\ pc[p] = "wait"
        /\ gens' = [gens EXCEPT ![p][o] = want[p]] \/ gens' = gens
        /\ pos' = [pos EXCEPT ![p] = @ + 1]
        /\ pc' = [pc EXCEPT ![p] = "get"]
        /\ UNCHANGED <<repo, registry, objects, cmd, dest, shown, built, base, want>>
    BY <1>2 DEF WaitResolved, Goto
  <2>2. gens' \in [Procs -> [Keys -> Nat]]
    <3>1. want[p] \in Nat /\ gens \in [Procs -> [Keys -> Nat]]
      BY DEF TypeInv, TypeOK
    <3> HIDE DEF o
    <3>2. CASE gens' = [gens EXCEPT ![p][o] = want[p]]
      BY <3>1, <3>2
    <3>3. CASE gens' = gens
      BY <3>1, <3>3
    <3> QED BY <2>1, <3>2, <3>3
  <2>3. pos' \in [Procs -> Nat \ {0}]
    BY <2>1 DEF TypeInv, TypeOK
  <2>4. TypeOK'
    BY <2>1, <2>2, <2>3 DEF TypeInv, TypeOK
  <2>5. ASSUME NEW q \in Procs, q # p PROVE Progress(q)'
    BY <2>1, <2>5, OthersProgress DEF TypeInv, TypeOK
  <2>6. Progress(p)'
    <3>1. ItemsOf(p)' = ItemsOf(p) /\ IsDryRun(p)' = IsDryRun(p) /\ pc'[p] = "get"
      BY <2>1 DEF ItemsOf, IsDryRun, TypeInv, TypeOK
    <3> QED BY <2>1, <3>1 DEF TypeInv, Progress, Saving
  <2> QED BY <2>4, <2>5, <2>6 DEF TypeInv
<1> QED BY <1>1, <1>2

\* The next command starts from nothing.
LEMMA FinishTyped == ASSUME TypeInv, NEW p \in Procs, Finish(p) PROVE TypeInv'
<1>1. /\ pc' = [pc EXCEPT ![p] = "idle"] /\ cmd' = [cmd EXCEPT ![p] = NoCommand]
      /\ dest' = [dest EXCEPT ![p] = NoRepo] /\ pos' = [pos EXCEPT ![p] = 1]
      /\ shown' = [shown EXCEPT ![p] = {}] /\ built' = [built EXCEPT ![p] = <<>>]
      /\ base' = [base EXCEPT ![p] = NoObject] /\ want' = [want EXCEPT ![p] = 0]
      /\ gens' = [gens EXCEPT ![p] = [o \in Keys |-> 0]]
      /\ UNCHANGED <<repo, registry, objects>>
  BY DEF Finish, Goto
<1>2. \A k \in Kinds : NoObject \in ObjectsOf(k)
  BY DEF ObjectsOf
<1>3. Kinds # {}
  BY DEF Kinds
<1>4. TypeOK'
  <2>1. \A q \in Procs : \E k \in Kinds : base'[q] \in ObjectsOf(k)
    BY <1>1, <1>2, <1>3 DEF TypeInv, TypeOK
  <2>2. \A q \in Procs : \A n \in DOMAIN built'[q] :
          \E k \in Kinds : built'[q][n] \in [spec : SpecsOf(k), existed : BOOLEAN]
    BY <1>1 DEF TypeInv, TypeOK
  <2>3. /\ pc' \in [Procs -> PCs] /\ cmd' \in [Procs -> Commands \cup {NoCommand}]
        /\ dest' \in [Procs -> Repos \cup {NoRepo}] /\ pos' \in [Procs -> Nat \ {0}]
        /\ shown' \in [Procs -> SUBSET Keys] /\ want' \in [Procs -> Nat]
        /\ gens' \in [Procs -> [Keys -> Nat]]
        /\ DOMAIN built' = Procs /\ DOMAIN base' = Procs
    BY <1>1 DEF TypeInv, TypeOK, PCs
  <2> QED BY <1>1, <2>1, <2>2, <2>3 DEF TypeInv, TypeOK, PCs
<1>5. ASSUME NEW q \in Procs, q # p PROVE Progress(q)'
  BY <1>1, <1>5, OthersProgress DEF TypeInv, TypeOK
<1>6. Progress(p)'
  <2>1. pc'[p] = "idle" /\ pos'[p] = 1 /\ built'[p] = <<>>
    BY <1>1 DEF TypeInv, TypeOK
  <2> QED BY <2>1 DEF Progress, Saving
<1> QED BY <1>4, <1>5, <1>6 DEF TypeInv

\* What the controller reports of a builder's dependencies are objects of their kinds.
LEMMA SeenTyped ==
  ASSUME TypeInv, NEW o \in Keys, NEW kind \in {"stack", "store"}
  PROVE  CurrentSeen(o, kind) \in SeenBy(kind) /\ LastSeen(o, kind) \in SeenBy(kind)
<1>0. Unseen \in SeenBy(kind)
  BY DEF SeenBy
<1>1. ASSUME NEW k, k[1] = kind, k \in Keys => k[2] \in Names PROVE Seen(k) \in SeenBy(kind)
  <2>1. CASE k \in Keys /\ objects[k].exists
    <3>1. objects[k] \in ObjectsOf(kind)
      BY <1>1, <2>1 DEF TypeInv, TypeOK
    <3>2. objects[k].spec \in SpecsOf(kind) /\ objects[k].gen \in Nat \ {0}
      BY <2>1, <3>1, ObjectTyped
    <3> QED BY <1>1, <2>1, <3>2 DEF Seen, SeenBy
  <2>2. CASE ~(k \in Keys /\ objects[k].exists)
    BY <1>0, <2>2 DEF Seen
  <2> QED BY <2>1, <2>2
<1>2. CASE o[1] # "builder" \/ ~objects[o].exists
  BY <1>0, <1>2 DEF CurrentSeen, LastSeen
<1>3. CASE o[1] = "builder" /\ objects[o].exists
  <2> DEFINE k == <<kind, objects[o].spec[kind]>>
  <2>1. CurrentSeen(o, kind) = Seen(k)
    BY <1>3 DEF CurrentSeen
  <2>2. k[1] = kind /\ (k \in Keys => k[2] \in Names)
    BY DEF Keys
  <2>3. LastSeen(o, kind) \in {Unseen, objects[o].status[kind]}
    BY DEF LastSeen
  <2>4. objects[o].status[kind] \in SeenBy(kind)
    BY <1>3, ObjectTyped DEF TypeInv, TypeOK, Status
  <2> HIDE DEF k
  <2> QED BY <1>0, <1>1, <2>1, <2>2, <2>3, <2>4
<1> QED BY <1>2, <1>3

\* A report changes nothing but the status.
LEMMA ReportStep ==
  ASSUME TypeInv, NEW o \in Keys, Reconcile(o)
  PROVE  \E x \in ObjectsOf(o[1]) :
           /\ objects[o].exists /\ x.exists /\ x.spec = objects[o].spec
           /\ objects' = [objects EXCEPT ![o] = x]
           /\ UNCHANGED <<repo, registry, pc, locals>>
<1>1. PICK stack \in {CurrentSeen(o, "stack"), LastSeen(o, "stack")},
           store \in {CurrentSeen(o, "store"), LastSeen(o, "store")},
           ready \in {TRUE} \cup {o \notin Unready} : Report(o, ready, stack, store)
  BY DEF Reconcile
<1> DEFINE status == [observed |-> objects[o].gen, ready |-> ready, stack |-> stack, store |-> store]
           x == [objects[o] EXCEPT !.status = status]
<1>2. /\ objects[o].exists /\ objects' = [objects EXCEPT ![o].status = status]
      /\ UNCHANGED <<repo, registry, pc, locals>>
  BY <1>1 DEF Report
<1>3. objects[o] \in [exists: {TRUE}, spec: SpecsOf(o[1]), gen: Nat \ {0}, status: Status]
  <2>1. objects[o] \in ObjectsOf(o[1])
    BY DEF TypeInv, TypeOK
  <2>2. objects[o] # NoObject
    BY <1>2 DEF NoObject
  <2> QED BY <2>1, <2>2 DEF ObjectsOf
<1>4. stack \in SeenBy("stack") /\ store \in SeenBy("store") /\ ready \in BOOLEAN
  BY <1>1, SeenTyped
<1>5. status \in Status
  BY <1>3, <1>4 DEF Status
<1> HIDE DEF status
<1>6. x \in ObjectsOf(o[1]) /\ x.exists /\ x.spec = objects[o].spec
  BY <1>3, <1>5 DEF ObjectsOf
<1>7. objects' = [objects EXCEPT ![o] = x]
  BY <1>2 DEF TypeInv, TypeOK
<1> QED BY <1>2, <1>6, <1>7

\* A delete leaves nothing.
LEMMA DeleteStep ==
  ASSUME NEW o \in Deletable, Delete(o)
  PROVE  /\ o \in Keys /\ NoObject \in ObjectsOf(o[1]) /\ objects' = [objects EXCEPT ![o] = NoObject]
         /\ UNCHANGED <<repo, registry, pc, locals>>
BY ImportAssumption DEF Delete, ObjectsOf

\* The configured repository is read, never part of an import's own state.
LEMMA ConfigTyped == ASSUME TypeInv, SetDefaultRepository PROVE TypeInv'
<1>1. /\ repo' \in Repos /\ UNCHANGED <<registry, objects, pc, cmd, dest, pos, shown, built, base, want, gens>>
  BY DEF SetDefaultRepository, locals
<1>2. TypeOK'
  BY <1>1 DEF TypeInv, TypeOK
<1>3. ASSUME NEW q \in Procs PROVE Progress(q)'
  BY <1>1, OthersProgress DEF TypeInv
<1> QED BY <1>2, <1>3 DEF TypeInv

\* A process before its first import.
LEMMA InitTyped == ASSUME Init PROVE TypeInv
<1>1. \A k \in Kinds : NoObject \in ObjectsOf(k)
  BY DEF ObjectsOf
<1>2. \A o \in Keys : o[1] \in Kinds
  BY DEF Keys
<1>3. \A p \in Procs : built[p] = <<>> /\ pc[p] = "idle" /\ pos[p] = 1
  BY DEF Init
<1>4. TypeOK
  <2>1. \A o \in Keys : objects[o] \in ObjectsOf(o[1])
    BY <1>1, <1>2 DEF Init
  <2>2. \A p \in Procs : \E k \in Kinds : base[p] \in ObjectsOf(k)
    BY <1>1 DEF Init, Kinds
  <2> QED BY <1>3, <2>1, <2>2 DEF Init, TypeOK
<1>5. ASSUME NEW p \in Procs PROVE Progress(p)
  <2>1. pc[p] = "idle" /\ pos[p] = 1 /\ built[p] = <<>>
    BY <1>3
  <2> QED BY <2>1 DEF Progress, Saving
<1> QED BY <1>4, <1>5 DEF TypeInv

\* Whatever happens next, an import is where its plan says.
LEMMA StepTyped == ASSUME TypeInv, [Next]_vars PROVE TypeInv'
<1>1. ASSUME NEW p \in Procs, Start(p) PROVE TypeInv'
  BY <1>1, StartTyped
<1>2. ASSUME NEW p \in Procs, Step(p) PROVE TypeInv'
  BY <1>2, SummaryTyped, ConstructTyped, RelocationTyped, GetExistingTyped, CreateTyped,
     PatchTyped, WaitResolvedTyped DEF Step
<1>3. ASSUME NEW p \in Procs, Crash(p) PROVE TypeInv'
  BY <1>3, StopTyped DEF Crash
<1>4. ASSUME NEW p \in Procs, Finish(p) PROVE TypeInv'
  BY <1>4, FinishTyped
<1>5. ASSUME NEW o \in Keys, Reconcile(o) PROVE TypeInv'
  BY <1>5, ReportStep, ObjectsTyped
<1>6. ASSUME NEW o \in Deletable, Delete(o) PROVE TypeInv'
  BY <1>6, DeleteStep, ObjectsTyped
<1>7. CASE SetDefaultRepository
  BY <1>7, ConfigTyped
<1>8. CASE UNCHANGED vars
  BY <1>8 DEF TypeInv, TypeOK, Progress, ItemsOf, Current, IsDryRun, vars
<1> QED BY <1>1, <1>2, <1>3, <1>4, <1>5, <1>6, <1>7, <1>8 DEF Next

\* The invariant every proof below starts from.
LEMMA TypeInvariant == Spec => []TypeInv
BY InitTyped, StepTyped, PTL DEF Spec

\* The types of the import's state, for any number of imports and any descriptors: every
\* object has a spec of its kind, though patches of other imports are merged into it.
THEOREM TypeCorrect == Spec => []TypeOK
<1>1. TypeInv => TypeOK
  BY DEF TypeInv
<1> QED BY <1>1, TypeInvariant, PTL
-----------------------------------------------------------------------------
(* What is pushed before it is named                                       *)

Holds == Saving \cup {"relocate"}

ObjectsUploaded ==
  \A o \in Keys : objects[o].exists => SpecRefs(o[1], objects[o].spec) \subseteq registry

\* The objects an import has constructed, and the items it constructed them for.
BuiltUploaded(p) ==
  pc[p] \in Holds /\ IsUploading(p) =>
    \A n \in DOMAIN built[p] :
      /\ SpecRefs(ItemsOf(p)[n].kind, built[p][n].spec) \subseteq registry
      /\ Needed(dest[p], ItemsOf(p)[n]) \subseteq registry

\* The object it has read: a save that adds to it names its images again.
BaseUploaded(p) ==
  pc[p] = "write" /\ base[p].exists => SpecRefs(Current(p).kind, base[p].spec) \subseteq registry

UploadInv == ObjectsUploaded /\ \A p \in Procs : BuiltUploaded(p) /\ BaseUploaded(p)

\* Nobody takes an image out of the registry, so what was pushed stays so for the others.
LEMMA OneMoves ==
  ASSUME UploadInv, NEW p \in Procs, registry \subseteq registry', ObjectsUploaded',
         BuiltUploaded(p)', BaseUploaded(p)',
         \A q \in Procs \ {p} :
           /\ pc'[q] = pc[q] /\ cmd'[q] = cmd[q] /\ dest'[q] = dest[q]
           /\ pos'[q] = pos[q] /\ built'[q] = built[q] /\ base'[q] = base[q]
  PROVE  UploadInv'
<1>1. ASSUME NEW q \in Procs \ {p} PROVE BuiltUploaded(q)' /\ BaseUploaded(q)'
  <2>1. BuiltUploaded(q) /\ BaseUploaded(q)
    BY DEF UploadInv
  <2>2. ItemsOf(q)' = ItemsOf(q) /\ Current(q)' = Current(q) /\ IsUploading(q)' = IsUploading(q)
    BY DEF ItemsOf, Current, IsUploading
  <2> QED BY <2>1, <2>2 DEF BuiltUploaded, BaseUploaded
<1> QED BY <1>1 DEF UploadInv

\* An import that goes on holds what it held.
LEMMA StillHeld ==
  ASSUME NEW p, BuiltUploaded(p), pc[p] \in Holds, registry \subseteq registry',
         cmd'[p] = cmd[p], dest'[p] = dest[p], built'[p] = built[p]
  PROVE  BuiltUploaded(p)'
<1>1. ItemsOf(p)' = ItemsOf(p) /\ IsUploading(p)' = IsUploading(p)
  BY DEF ItemsOf, IsUploading
<1> QED BY <1>1 DEF BuiltUploaded

\* One that has constructed nothing yet, or has ended, holds nothing.
LEMMA NothingHeld ==
  ASSUME NEW p, built'[p] = <<>> \/ pc'[p] \notin Holds
  PROVE  BuiltUploaded(p)'
<1>1. CASE pc'[p] \notin Holds
  BY <1>1 DEF BuiltUploaded
<1>2. CASE built'[p] = <<>>
  BY <1>2 DEF BuiltUploaded
<1> QED BY <1>1, <1>2

\* A step of the import itself that neither pushes nor writes.
Quiet(p) ==
  Start(p) \/ Summarize(p) \/ Summarized(p) \/ Confirm(p) \/ Relocation(p)
    \/ WaitResolved(p) \/ Crash(p) \/ Finish(p)
    \/ (\E l \in {"ok", "failed"} : Stop(p, l))

\* It moves nobody else, and keeps what it has constructed or forgets it.
LEMMA QuietForm ==
  ASSUME TypeInv, NEW p \in Procs, Quiet(p)
  PROVE  /\ UNCHANGED <<registry, objects>>
         /\ \A q \in Procs \ {p} :
              /\ pc'[q] = pc[q] /\ cmd'[q] = cmd[q] /\ dest'[q] = dest[q]
              /\ pos'[q] = pos[q] /\ built'[q] = built[q] /\ base'[q] = base[q]
         /\ pc'[p] # "write"
         /\ \/ built'[p] = <<>> \/ pc'[p] \notin Holds
            \/ /\ pc[p] \in Holds /\ cmd'[p] = cmd[p] /\ dest'[p] = dest[p] /\ built'[p] = built[p]
<1>1. UNCHANGED <<registry, objects>>
  BY DEF Quiet, Start, Summarize, Summarized, Confirm, Relocation, WaitResolved, Crash, Finish, Stop
<1>2. \A q \in Procs \ {p} :
        /\ pc'[q] = pc[q] /\ cmd'[q] = cmd[q] /\ dest'[q] = dest[q]
        /\ pos'[q] = pos[q] /\ built'[q] = built[q] /\ base'[q] = base[q]
  BY DEF Quiet, Start, Summarize, Summarized, Confirm, Relocation, WaitResolved, Crash, Finish, Stop,
         Goto, locals, TypeInv, TypeOK
<1>3. pc'[p] # "write"
  BY DEF Quiet, Start, Summarize, Summarized, Confirm, Relocation, WaitResolved, Crash, Finish, Stop,
         Goto, locals, TypeInv, TypeOK
<1>4. \/ built'[p] = <<>> \/ pc'[p] \notin Holds
      \/ /\ pc[p] \in Holds /\ cmd'[p] = cmd[p] /\ dest'[p] = dest[p] /\ built'[p] = built[p]
  <2>1. CASE Start(p) \/ Confirm(p)
    BY <2>1 DEF Start, Confirm, Stop, locals, TypeInv, Progress
  <2>2. CASE Summarize(p) \/ Summarized(p)
    BY <2>2 DEF Summarize, Summarized, Stop, Goto, TypeInv, TypeOK, Holds, Saving
  <2>3. CASE Relocation(p) \/ WaitResolved(p)
    BY <2>3 DEF Relocation, WaitResolved, Stop, locals, Holds, Saving
  <2>4. CASE Crash(p) \/ Finish(p) \/ \E l \in {"ok", "failed"} : Stop(p, l)
    BY <2>4 DEF Crash, Finish, Stop, Goto, TypeInv, TypeOK, Holds, Saving
  <2> QED BY <2>1, <2>2, <2>3, <2>4 DEF Quiet
<1> QED BY <1>1, <1>2, <1>3, <1>4

\* So nothing new is named.
LEMMA QuietStep == ASSUME TypeInv, UploadInv, NEW p \in Procs, Quiet(p) PROVE UploadInv'
<1>1. BuiltUploaded(p)'
  BY QuietForm, StillHeld, NothingHeld DEF UploadInv
<1>2. BaseUploaded(p)'
  BY QuietForm DEF BaseUploaded
<1>3. ObjectsUploaded'
  BY QuietForm DEF UploadInv, ObjectsUploaded
<1> QED BY <1>1, <1>2, <1>3, QuietForm, OneMoves

\* A turn of relocateDescriptor pushes what the object names that it constructs.  A store
\* names what it listed before as well, which is there already.
LEMMA ConstructUploaded == ASSUME TypeInv, UploadInv, NEW p \in Procs, Construct(p) PROVE UploadInv'
<1>1. CASE Stop(p, "failed")
  BY <1>1, QuietStep DEF Quiet
<1>2. CASE ~Stop(p, "failed")
  <2> DEFINE item == Current(p)
  <2>0. PICK existing \in ObjectsOf(item.kind) :
           /\ item.kind = "store" => existing = objects[Key(item)]
           /\ item.kind # "store" => existing = NoObject
           /\ pc[p] = "relocate" /\ pos[p] \in DOMAIN ItemsOf(p) /\ dest[p] \in Repos
           /\ registry' = IF IsUploading(p) THEN registry \cup Needed(dest[p], item) ELSE registry
           /\ built' = [built EXCEPT ![p] = Append(@,
                [spec |-> MakeSpec(item, dest[p], existing), existed |-> existing.exists])]
           /\ pos' = [pos EXCEPT ![p] = @ + 1]
           /\ UNCHANGED <<repo, objects, pc, cmd, dest, shown, base, want, gens>>
    BY <1>2, ConstructStep
  <2>1. /\ item \in PlanItem /\ item.kind \in Kinds /\ Key(item) \in Keys /\ Key(item)[1] = item.kind
    BY <2>0, ItemsTyped DEF TypeInv, Progress, Current, PlanItem, Key
  <2> DEFINE spec == MakeSpec(item, dest[p], existing)
             new == [spec |-> spec, existed |-> existing.exists]
  <2>2. existing.exists => SpecRefs(item.kind, existing.spec) \subseteq registry
    <3>1. CASE item.kind = "store"
      <4>1. existing = objects[Key(item)]
        BY <2>0, <3>1
      <4> QED BY <2>1, <4>1 DEF UploadInv, ObjectsUploaded
    <3>2. CASE item.kind # "store"
      BY <2>0, <3>2 DEF NoObject
    <3> QED BY <3>1, <3>2
  <2>3. \A r \in SpecRefs(item.kind, spec) :
          r \in Needed(dest[p], item) \/ (existing.exists /\ r \in SpecRefs(item.kind, existing.spec))
    BY <2>0, <2>1, MadeSpec
  <2>4. new.spec = spec
    OBVIOUS
  <2>5. built' = [built EXCEPT ![p] = Append(built[p], new)]
    BY <2>0
  <2> HIDE DEF spec, new, item
  <2>6. registry \subseteq registry'
    BY <2>0
  <2>7. IsUploading(p) => /\ SpecRefs(item.kind, spec) \subseteq registry'
                          /\ Needed(dest[p], item) \subseteq registry'
    BY <2>0, <2>2, <2>3
  <2>8. /\ Len(built[p]) \in Nat /\ DOMAIN built[p] = 1..Len(built[p]) /\ pos[p] = Len(built[p]) + 1
    BY <2>0, LenProperties DEF TypeInv, Progress
  <2>9. /\ DOMAIN built'[p] = 1..(Len(built[p]) + 1)
        /\ \A n \in 1..Len(built[p]) : built'[p][n] = built[p][n]
        /\ built'[p][Len(built[p]) + 1] = new
    <3>1. built'[p] = Append(built[p], new) /\ built[p] \in Seq(BuiltType)
      BY <2>5 DEF TypeInv, TypeOK, Progress
    <3>2. built[p] \in Seq(BuiltType \cup {new}) /\ new \in BuiltType \cup {new}
      BY <3>1, SeqMonotonic
    <3> QED BY <3>1, <3>2, <2>8, AppendProperties, LenProperties
  <2>10. BuiltUploaded(p)'
    <3>1. ItemsOf(p)' = ItemsOf(p) /\ IsUploading(p)' = IsUploading(p) /\ dest'[p] = dest[p]
      BY <2>0 DEF ItemsOf, IsUploading
    <3>2. ASSUME IsUploading(p), NEW n \in 1..Len(built[p])
          PROVE  /\ SpecRefs(ItemsOf(p)[n].kind, built'[p][n].spec) \subseteq registry'
                 /\ Needed(dest[p], ItemsOf(p)[n]) \subseteq registry'
      <4>1. /\ SpecRefs(ItemsOf(p)[n].kind, built[p][n].spec) \subseteq registry
            /\ Needed(dest[p], ItemsOf(p)[n]) \subseteq registry
        BY <2>0, <2>8, <3>2 DEF UploadInv, BuiltUploaded, Holds
      <4> QED BY <2>6, <2>9, <4>1
    <3>3. ASSUME IsUploading(p), NEW n, n = Len(built[p]) + 1
          PROVE  /\ SpecRefs(ItemsOf(p)[n].kind, built'[p][n].spec) \subseteq registry'
                 /\ Needed(dest[p], ItemsOf(p)[n]) \subseteq registry'
      <4>1. ItemsOf(p)[n] = item /\ built'[p][n].spec = spec
        BY <2>4, <2>8, <2>9, <3>3 DEF Current, item
      <4> QED BY <2>7, <3>3, <4>1
    <3>4. DOMAIN built'[p] = 1..Len(built[p]) \cup {Len(built[p]) + 1}
      BY <2>8, <2>9
    <3> QED BY <3>1, <3>2, <3>3, <3>4 DEF BuiltUploaded
  <2>11. BaseUploaded(p)'
    BY <2>0 DEF BaseUploaded
  <2>12. ObjectsUploaded'
    BY <2>0, <2>6 DEF UploadInv, ObjectsUploaded
  <2>13. \A q \in Procs \ {p} :
        /\ pc'[q] = pc[q] /\ cmd'[q] = cmd[q] /\ dest'[q] = dest[q]
        /\ pos'[q] = pos[q] /\ built'[q] = built[q] /\ base'[q] = base[q]
    BY <2>0, <2>5 DEF TypeInv, TypeOK
  <2> QED BY <2>6, <2>10, <2>11, <2>12, <2>13, OneMoves
<1> QED BY <1>1, <1>2

\* What a save reads names nothing that is not there.
LEMMA GetExistingUploaded == ASSUME TypeInv, UploadInv, NEW p \in Procs, GetExisting(p) PROVE UploadInv'
<1>1. CASE Stop(p, "ok")
  BY <1>1, QuietStep DEF Quiet
<1>2. CASE ~Stop(p, "ok")
  <2>1. /\ pc[p] = "get" /\ pos[p] \in DOMAIN ItemsOf(p)
        /\ base' = [base EXCEPT ![p] = objects[Key(Current(p))]]
        /\ pc' = [pc EXCEPT ![p] = "write"]
        /\ UNCHANGED <<repo, registry, objects, cmd, dest, pos, shown, built, want, gens>>
    BY <1>2 DEF GetExisting, Goto
  <2>2. Key(Current(p)) \in Keys /\ Key(Current(p))[1] = Current(p).kind
    BY <2>1, ItemsTyped DEF TypeInv, Progress, Current, Key
  <2>3. BaseUploaded(p)'
    <3>1. base'[p] = objects[Key(Current(p))] /\ Current(p)' = Current(p)
      BY <2>1 DEF TypeInv, TypeOK, Current, ItemsOf
    <3> QED BY <2>1, <2>2, <3>1 DEF BaseUploaded, UploadInv, ObjectsUploaded
  <2>4. BuiltUploaded(p)'
    BY <2>1, StillHeld DEF UploadInv, Holds, Saving
  <2>5. ObjectsUploaded'
    BY <2>1 DEF UploadInv, ObjectsUploaded
  <2>6. \A q \in Procs \ {p} :
        /\ pc'[q] = pc[q] /\ cmd'[q] = cmd[q] /\ dest'[q] = dest[q]
        /\ pos'[q] = pos[q] /\ built'[q] = built[q] /\ base'[q] = base[q]
    BY <2>1 DEF TypeInv, TypeOK
  <2> QED BY <2>1, <2>3, <2>4, <2>5, <2>6, OneMoves
<1> QED BY <1>1, <1>2

\* A write whose spec names pushed images only.
LEMMA StoreUploaded ==
  ASSUME TypeInv, UploadInv, NEW p \in Procs, pc[p] = "write", NEW spec, NEW gen, NEW status,
         SpecRefs(Current(p).kind, spec) \subseteq registry,
         Store(p, [exists |-> TRUE, spec |-> spec, gen |-> gen, status |-> status])
  PROVE  UploadInv'
<1> DEFINE x == [exists |-> TRUE, spec |-> spec, gen |-> gen, status |-> status]
<1>1. x.spec = spec
  OBVIOUS
<1> HIDE DEF x
<1>2. /\ objects' = [objects EXCEPT ![Key(Current(p))] = x]
      /\ pc' = [pc EXCEPT ![p] = "wait"]
      /\ UNCHANGED <<repo, registry, cmd, dest, pos, shown, built, base, gens>>
  BY DEF Store, Goto, x
<1>3. Key(Current(p)) \in Keys /\ Key(Current(p))[1] = Current(p).kind
  BY Holding
<1>4. ObjectsUploaded'
  <2>1. ASSUME NEW o \in Keys, objects'[o].exists PROVE SpecRefs(o[1], objects'[o].spec) \subseteq registry'
    <3>1. CASE o = Key(Current(p))
      <4>1. objects'[o] = x
        BY <1>2, <1>3, <3>1 DEF TypeInv, TypeOK
      <4>2. o[1] = Current(p).kind /\ registry' = registry
        BY <1>2, <1>3, <3>1
      <4> QED BY <1>1, <4>1, <4>2
    <3>2. CASE o # Key(Current(p))
      <4>1. objects'[o] = objects[o] /\ registry' = registry
        BY <1>2, <3>2 DEF TypeInv, TypeOK
      <4> QED BY <2>1, <4>1 DEF UploadInv, ObjectsUploaded
    <3> QED BY <3>1, <3>2
  <2> QED BY <2>1 DEF ObjectsUploaded
<1>5. BuiltUploaded(p)'
  BY <1>2, StillHeld DEF UploadInv, Holds, Saving
<1>6. BaseUploaded(p)'
  BY <1>2 DEF BaseUploaded, TypeInv, TypeOK
<1>7. \A q \in Procs \ {p} :
        /\ pc'[q] = pc[q] /\ cmd'[q] = cmd[q] /\ dest'[q] = dest[q]
        /\ pos'[q] = pos[q] /\ built'[q] = built[q] /\ base'[q] = base[q]
  BY <1>2 DEF TypeInv, TypeOK
<1> QED BY <1>2, <1>4, <1>5, <1>6, <1>7, OneMoves

\* An import that saves has pushed what it constructed: dry runs never get there.
LEMMA BuiltIsUploaded ==
  ASSUME TypeInv, UploadInv, NEW p \in Procs, pc[p] \in Saving, NEW n \in DOMAIN built[p]
  PROVE  /\ SpecRefs(ItemsOf(p)[n].kind, built[p][n].spec) \subseteq registry
         /\ Needed(dest[p], ItemsOf(p)[n]) \subseteq registry
<1>1. IsUploading(p)
  BY DEF TypeInv, Progress, IsDryRun, IsUploading
<1> QED BY <1>1 DEF UploadInv, BuiltUploaded, Holds

\* Created or patched, an object names what is pushed: what was constructed, what was
\* read, or what another import has put there in between.
LEMMA WriteUploaded ==
  ASSUME TypeInv, UploadInv, NEW p \in Procs, Create(p) \/ Patch(p)
  PROVE  UploadInv'
<1>1. CASE Stop(p, "failed")
  BY <1>1, QuietStep DEF Quiet
<1>2. CASE Create(p) /\ ~Stop(p, "failed")
  <2>1. /\ pc[p] = "write"
        /\ Store(p, [exists |-> TRUE, spec |-> built[p][pos[p]].spec, gen |-> 1, status |-> NoStatus])
    BY <1>2 DEF Create
  <2>2. SpecRefs(Current(p).kind, built[p][pos[p]].spec) \subseteq registry
    BY <2>1, Holding, BuiltIsUploaded DEF Saving, Current
  <2> QED BY <2>1, <2>2, StoreUploaded
<1>3. CASE Patch(p) /\ ~Stop(p, "failed")
  <2> DEFINE o == objects[Key(Current(p))]
             kind == Current(p).kind
  <2>1. /\ pc[p] = "write" /\ base[p].exists /\ o.exists
        /\ SpecRefs(kind, PatchedSpec(p)) \subseteq
             SpecRefs(kind, o.spec) \cup SpecRefs(kind, base[p].spec) \cup SpecRefs(kind, built[p][pos[p]].spec)
        /\ \E gen \in Nat \ {0} :
             Store(p, [exists |-> TRUE, spec |-> PatchedSpec(p), gen |-> gen, status |-> o.status])
    BY <1>3, PatchStep
  <2>2. SpecRefs(kind, built[p][pos[p]].spec) \subseteq registry
    BY <2>1, Holding, BuiltIsUploaded DEF Saving, Current
  <2>3. SpecRefs(kind, base[p].spec) \subseteq registry
    BY <2>1 DEF UploadInv, BaseUploaded
  <2>4. SpecRefs(kind, o.spec) \subseteq registry
    BY <2>1, Holding DEF UploadInv, ObjectsUploaded
  <2>5. SpecRefs(kind, PatchedSpec(p)) \subseteq registry
    BY <2>1, <2>2, <2>3, <2>4
  <2> QED BY <2>1, <2>5, StoreUploaded
<1> QED BY <1>1, <1>2, <1>3

\* The rest of the cluster makes no new references.
LEMMA ClusterUploaded ==
  ASSUME TypeInv, UploadInv,
         (\E o \in Keys : Reconcile(o)) \/ (\E o \in Deletable : Delete(o)) \/ SetDefaultRepository
           \/ UNCHANGED vars
  PROVE  UploadInv'
<1>1. UNCHANGED <<registry, pc, cmd, dest, pos, built, base>>
  BY DEF Reconcile, Report, Delete, SetDefaultRepository, vars, locals
<1>2. ObjectsUploaded'
  <2>1. ASSUME NEW o \in Keys, Reconcile(o) PROVE ObjectsUploaded'
    <3>1. PICK x \in ObjectsOf(o[1]) :
           /\ objects[o].exists /\ x.exists /\ x.spec = objects[o].spec
           /\ objects' = [objects EXCEPT ![o] = x]
      BY <2>1, ReportStep
    <3>2. \A k \in Keys : objects'[k].exists = objects[k].exists /\ objects'[k].spec = objects[k].spec
      BY <3>1, ObjectTyped DEF TypeInv, TypeOK
    <3> QED BY <1>1, <3>2 DEF UploadInv, ObjectsUploaded
  <2>2. ASSUME NEW o \in Deletable, Delete(o) PROVE ObjectsUploaded'
    <3>1. o \in Keys /\ objects' = [objects EXCEPT ![o] = NoObject]
      BY <2>2, DeleteStep
    <3>2. ~NoObject.exists
      BY DEF NoObject
    <3>3. \A k \in Keys : objects'[k].exists => objects'[k] = objects[k]
      BY <3>1, <3>2 DEF TypeInv, TypeOK
    <3> QED BY <1>1, <3>3 DEF UploadInv, ObjectsUploaded
  <2>3. CASE SetDefaultRepository \/ UNCHANGED vars
    BY <2>3 DEF SetDefaultRepository, vars, UploadInv, ObjectsUploaded
  <2> QED BY <2>1, <2>2, <2>3
<1> QED BY <1>1, <1>2
  DEF UploadInv, BuiltUploaded, BaseUploaded, ItemsOf, Current, IsUploading

\* So everything that is named stays pushed.
LEMMA StepUploaded == ASSUME TypeInv, UploadInv, [Next]_vars PROVE UploadInv'
<1>1. ASSUME NEW p \in Procs, Start(p) \/ Step(p) \/ Crash(p) \/ Finish(p) PROVE UploadInv'
  BY <1>1, QuietStep, ConstructUploaded, GetExistingUploaded, WriteUploaded DEF Step, Quiet
<1>2. CASE (\E o \in Keys : Reconcile(o)) \/ (\E o \in Deletable : Delete(o)) \/ SetDefaultRepository
             \/ UNCHANGED vars
  BY <1>2, ClusterUploaded
<1> QED BY <1>1, <1>2 DEF Next

\* At first nothing is named.
LEMMA InitUploaded == ASSUME Init PROVE UploadInv
<1>1. \A o \in Keys : ~objects[o].exists
  BY DEF Init, NoObject
<1>2. \A p \in Procs : pc[p] = "idle"
  BY DEF Init
<1> QED BY <1>1, <1>2 DEF UploadInv, ObjectsUploaded, BuiltUploaded, BaseUploaded, Holds, Saving

\* The invariant that carries the two results below.
LEMMA UploadInvariant == Spec => []UploadInv
BY TypeInvariant, InitUploaded, StepUploaded, PTL DEF Spec

\* No object ever names an image that is not in the registry, however imports overlap or
\* crash and whatever dry runs they mix with: patches merge what several have read.
THEOREM ImagesUploadedCorrect == Spec => []ImagesUploaded
<1>1. ASSUME UploadInv, NEW o \in Keys PROVE RefsOf(o) \subseteq registry
  <2>1. CASE ~objects[o].exists
    BY <2>1 DEF RefsOf
  <2>2. CASE objects[o].exists
    <3>1. o[1] \in Kinds
      BY DEF Keys
    <3>2. SpecRefs(o[1], objects[o].spec) \subseteq registry
      BY <1>1, <2>2 DEF UploadInv, ObjectsUploaded
    <3>3. RefsOf(o) = SpecRefs(o[1], objects[o].spec)
      BY <2>2, <3>1 DEF RefsOf, SpecRefs, Kinds
    <3> QED BY <3>2, <3>3
  <2> QED BY <2>1, <2>2
<1>2. UploadInv => ImagesUploaded
  BY <1>1 DEF ImagesUploaded
<1> QED BY <1>2, UploadInvariant, PTL

\* An import that saves anything has pushed every image of its descriptor: no resource is
\* created if any relocation fails.
THEOREM RelocatedBeforeSavedCorrect == Spec => []RelocatedBeforeSaved
<1>1. ASSUME TypeInv, UploadInv, NEW p \in Procs, pc[p] \in Saving,
             NEW i \in ImagesOf(PlanItems(p))
      PROVE  <<dest[p], i>> \in registry
  <2>1. PICK n \in DOMAIN ItemsOf(p) : \E k \in DOMAIN ItemsOf(p)[n].images : i = ItemsOf(p)[n].images[k]
    BY DEF ImagesOf, PlanItems
  <2>2. i \in ImagesOf({ItemsOf(p)[n]})
    BY <2>1, ImagesOfOne
  <2>3. <<dest[p], i>> \in Needed(dest[p], ItemsOf(p)[n])
    BY <2>2 DEF Needed, Relocated
  <2>4. n \in DOMAIN built[p]
    <3>1. cmd[p] \in Commands /\ Len(built[p]) = Len(ItemsOf(p)) /\ built[p] \in Seq(BuiltType)
      BY <1>1 DEF TypeInv, Progress, Saving
    <3> QED BY <3>1, ItemsTyped, LenProperties
  <2> QED BY <1>1, <2>3, <2>4, BuiltIsUploaded
<1>2. TypeInv /\ UploadInv => RelocatedBeforeSaved
  BY <1>1 DEF RelocatedBeforeSaved, Relocated, Saving
<1> QED BY <1>2, TypeInvariant, UploadInvariant, PTL
-----------------------------------------------------------------------------
(* Dry runs                                                                *)

\* A dry run changes no object, and pushes nothing unless it is asked to, whatever its
\* descriptor and whatever runs beside it: it is over before the loop that saves.
THEOREM DryRunHasNoEffectCorrect == Spec => DryRunHasNoEffect
<1> DEFINE NoEffect ==
      \A p \in Procs :
        (pc'[p] # pc[p] \/ pos'[p] # pos[p]) /\ pc[p] # "idle" /\ IsDryRun(p)
        => /\ objects' = objects
           /\ IsUploading(p) \/ registry' = registry
<1>1. ASSUME TypeInv, Next, NEW p \in Procs, pc'[p] # pc[p] \/ pos'[p] # pos[p],
             pc[p] # "idle", IsDryRun(p)
      PROVE  objects' = objects /\ (IsUploading(p) \/ registry' = registry)
  <2>1. Step(p) \/ Crash(p) \/ Finish(p)
    <3>1. ASSUME NEW q \in Procs, q # p, Start(q) \/ Step(q) \/ Crash(q) \/ Finish(q)
          PROVE  pc'[p] = pc[p] /\ pos'[p] = pos[p]
      <4>1. \A l : Stop(q, l) => pc'[p] = pc[p] /\ pos'[p] = pos[p]
        BY <3>1 DEF Stop, Goto, locals, TypeInv, TypeOK
      <4>2. \A x : Store(q, x) => pc'[p] = pc[p] /\ pos'[p] = pos[p]
        BY <3>1 DEF Store, Goto, TypeInv, TypeOK
      <4>3. \A l : Goto(q, l) => pc'[p] = pc[p]
        BY <3>1 DEF Goto, TypeInv, TypeOK
      <4>4. /\ pos' = [pos EXCEPT ![q] = 1] => pos'[p] = pos[p]
            /\ pos' = [pos EXCEPT ![q] = @ + 1] => pos'[p] = pos[p]
            /\ pos' = pos => pos'[p] = pos[p]
        BY <1>1, <3>1 DEF TypeInv, TypeOK
      <4>5. CASE Start(q) \/ Crash(q) \/ Finish(q)
        BY <4>1, <4>3, <4>4, <4>5 DEF Start, Crash, Finish
      <4>6. CASE Summarize(q) \/ Summarized(q) \/ Confirm(q) \/ Construct(q) \/ Relocation(q) \/ GetExisting(q)
        BY <4>1, <4>3, <4>4, <4>6 DEF Summarize, Summarized, Confirm, Construct, Relocation, GetExisting
      <4>7. CASE Create(q) \/ Patch(q)
        BY <4>1, <4>2, <4>7 DEF Create, Patch
      <4>8. CASE WaitResolved(q)
        BY <4>1, <4>3, <4>4, <4>8 DEF WaitResolved
      <4> QED BY <3>1, <4>5, <4>6, <4>7, <4>8 DEF Step
    <3>2. (\E o \in Keys : Reconcile(o)) \/ (\E o \in Deletable : Delete(o)) \/ SetDefaultRepository
          => pc' = pc /\ pos' = pos
      BY DEF Reconcile, Report, Delete, SetDefaultRepository, locals
    <3>3. ~Start(p)
      BY <1>1 DEF Start
    <3> QED BY <1>1, <3>1, <3>2, <3>3 DEF Next
  <2>2. pc[p] \notin Saving
    BY <1>1 DEF TypeInv, Progress
  <2>3. ~Create(p) /\ ~Patch(p)
    BY <2>2 DEF Create, Patch, Saving
  <2>4. CASE Construct(p)
    <3>1. CASE Stop(p, "failed")
      BY <3>1 DEF Stop
    <3>2. CASE ~Stop(p, "failed")
      BY <1>1, <2>4, <3>2, ConstructStep
    <3> QED BY <3>1, <3>2
  <2>5. CASE Summarize(p) \/ Summarized(p) \/ Confirm(p) \/ Relocation(p) \/ GetExisting(p)
             \/ WaitResolved(p) \/ Crash(p) \/ Finish(p)
    BY <2>5 DEF Summarize, Summarized, Confirm, Relocation, GetExisting, WaitResolved, Crash, Finish, Stop
  <2> QED BY <2>1, <2>3, <2>4, <2>5 DEF Step
<1>2. TypeInv /\ [Next]_vars => [NoEffect]_vars
  BY <1>1
<1> QED BY <1>2, TypeInvariant, PTL DEF Spec, DryRunHasNoEffect
-----------------------------------------------------------------------------
(* One import at a time                                                    *)

IdsAgree(spec) == StackId[spec.build[2]] = spec.id /\ StackId[spec.run[2]] = spec.id

\* The stacks an import has constructed have the id of both images.
BuiltAgree(p) ==
  pc[p] \in Holds =>
    \A n \in DOMAIN built[p] : ItemsOf(p)[n].kind = "stack" => IdsAgree(built[p][n].spec)

\* The object that is about to be patched is the one that was read, unless it is gone.
\* (This is what an overlapping import breaks.)
Fresh(p) ==
  pc[p] = "write" /\ base[p].exists /\ objects[Key(Current(p))].exists =>
    objects[Key(Current(p))].spec = base[p].spec

SequentialInv(p) == StackIdsAgree /\ BuiltAgree(p) /\ Fresh(p)

\* A patch of what was read gives what was wanted.
LEMMA FreshPatch ==
  ASSUME NEW kind \in Kinds, NEW o \in SpecsOf(kind), NEW u \in SpecsOf(kind)
  PROVE  ApplyMergePatch(o, CreatePatch(o, u)) = u
<1>1. ASSUME NEW F, o = [f \in F |-> o[f]], u = [f \in F |-> u[f]]
      PROVE  ApplyMergePatch(o, CreatePatch(o, u)) = u
  <2> DEFINE V == {o[f] : f \in F} \cup {u[f] : f \in F}
  <2>1. o \in [F -> V] /\ u \in [F -> V]
    BY <1>1
  <2> HIDE DEF V
  <2> QED BY <2>1, PatchCompletes
<1>2. CASE kind = "stack"
  <2> DEFINE F == {"id", "build", "run"}
  <2>1. /\ o \in [id : {StackId[i] : i \in Images}, build : Refs, run : Refs]
        /\ u \in [id : {StackId[i] : i \in Images}, build : Refs, run : Refs]
    BY <1>2, SpecsOfKinds
  <2>2. o = [f \in F |-> o[f]] /\ u = [f \in F |-> u[f]]
    BY <2>1
  <2> HIDE DEF F
  <2> QED BY <1>1, <2>2
<1>3. CASE kind = "store"
  <2> DEFINE F == {"sources"}
  <2>1. o \in [sources : SUBSET Refs] /\ u \in [sources : SUBSET Refs]
    BY <1>3, SpecsOfKinds
  <2>2. o = [f \in F |-> o[f]] /\ u = [f \in F |-> u[f]]
    BY <2>1
  <2> HIDE DEF F
  <2> QED BY <1>1, <2>2
<1>4. CASE kind \in {"lifecycle", "buildpack"}
  <2> DEFINE F == {"image"}
  <2>1. o \in [image : Refs] /\ u \in [image : Refs]
    BY <1>4, SpecsOfKinds
  <2>2. o = [f \in F |-> o[f]] /\ u = [f \in F |-> u[f]]
    BY <2>1
  <2> HIDE DEF F
  <2> QED BY <1>1, <2>2
<1>5. CASE kind = "builder"
  <2> DEFINE F == {"tag", "stack", "store"}
  <2>1. /\ o \in [tag : Repos, stack : Names, store : Names \cup {NoName}]
        /\ u \in [tag : Repos, stack : Names, store : Names \cup {NoName}]
    BY <1>5, SpecsOfKinds
  <2>2. o = [f \in F |-> o[f]] /\ u = [f \in F |-> u[f]]
    BY <2>1
  <2> HIDE DEF F
  <2> QED BY <1>1, <2>2
<1> QED BY <1>2, <1>3, <1>4, <1>5 DEF Kinds

\* So a save writes what it wants.
LEMMA FreshSave ==
  ASSUME TypeInv, NEW p \in Procs, Fresh(p), Patch(p), ~Stop(p, "failed")
  PROVE  PatchedSpec(p) = UpdateSpec(Current(p), objects[Key(Current(p))].spec, built[p][pos[p]].spec)
<1> DEFINE kind == Current(p).kind
           o == objects[Key(Current(p))].spec
           u == UpdateSpec(Current(p), o, built[p][pos[p]].spec)
<1>1. pc[p] = "write" /\ base[p].exists /\ objects[Key(Current(p))].exists
  BY DEF Patch
<1>2. base[p].spec = o
  BY <1>1 DEF Fresh
<1>3. kind \in Kinds /\ o \in SpecsOf(kind) /\ u \in SpecsOf(kind)
  BY <1>1, <1>2, Holding, UpdatedSpec
<1>4. PatchedSpec(p) = ApplyMergePatch(o, CreatePatch(o, u))
  BY <1>2 DEF PatchedSpec
<1> HIDE DEF o, u
<1>5. ApplyMergePatch(o, CreatePatch(o, u)) = u
  BY <1>3, FreshPatch
<1> QED BY <1>4, <1>5 DEF o, u

\* A step that neither pushes nor writes.
LEMMA QuietSequential ==
  ASSUME TypeInv, NEW p \in Procs, SequentialInv(p), Quiet(p)
  PROVE  SequentialInv(p)'
<1>1. UNCHANGED <<registry, objects>> /\ pc'[p] # "write"
  BY QuietForm
<1>2. StackIdsAgree'
  BY <1>1 DEF SequentialInv, StackIdsAgree
<1>3. Fresh(p)'
  BY <1>1 DEF Fresh
<1>4. BuiltAgree(p)'
  <2>1. CASE built'[p] = <<>> \/ pc'[p] \notin Holds
    BY <2>1 DEF BuiltAgree
  <2>2. CASE pc[p] \in Holds /\ cmd'[p] = cmd[p] /\ built'[p] = built[p]
    BY <2>2 DEF SequentialInv, BuiltAgree, ItemsOf
  <2> QED BY <2>1, <2>2, QuietForm
<1> QED BY <1>2, <1>3, <1>4 DEF SequentialInv

\* A stack is constructed only if its images have the same id (ValidateStackIDs).
LEMMA ConstructSequential ==
  ASSUME TypeInv, NEW p \in Procs, SequentialInv(p), Construct(p)
  PROVE  SequentialInv(p)'
<1>1. CASE Stop(p, "failed")
  BY <1>1, QuietSequential DEF Quiet
<1>2. CASE ~Stop(p, "failed")
  <2>0. StackIdsMatch(Current(p))
    BY <1>2 DEF Construct
  <2>1. PICK existing \in ObjectsOf(Current(p).kind) :
           /\ pc[p] = "relocate" /\ pos[p] \in DOMAIN ItemsOf(p)
           /\ built' = [built EXCEPT ![p] = Append(@,
                [spec |-> MakeSpec(Current(p), dest[p], existing), existed |-> existing.exists])]
           /\ UNCHANGED <<repo, objects, pc, cmd, dest, shown, base, want, gens>>
    BY <1>2, ConstructStep
  <2> DEFINE item == Current(p)
             spec == MakeSpec(item, dest[p], existing)
             new == [spec |-> spec, existed |-> existing.exists]
  <2>2. item.kind = "stack" => IdsAgree(spec)
    <3> SUFFICES ASSUME item.kind = "stack" PROVE IdsAgree(spec)
      OBVIOUS
    <3>1. spec = [id |-> StackId[item.images[1]],
                  build |-> <<dest[p], item.images[1]>>, run |-> <<dest[p], item.images[2]>>]
      BY DEF MakeSpec
    <3>2. StackId[item.images[1]] = StackId[item.images[2]]
      BY <2>0 DEF StackIdsMatch
    <3> HIDE DEF spec, item
    <3> QED BY <3>1, <3>2 DEF IdsAgree
  <2>3. new.spec = spec
    OBVIOUS
  <2>4. built' = [built EXCEPT ![p] = Append(built[p], new)]
    BY <2>1
  <2> HIDE DEF spec, new, item
  <2>5. /\ Len(built[p]) \in Nat /\ DOMAIN built[p] = 1..Len(built[p]) /\ pos[p] = Len(built[p]) + 1
    BY <2>1, LenProperties DEF TypeInv, Progress
  <2>6. /\ DOMAIN built'[p] = 1..Len(built[p]) \cup {Len(built[p]) + 1}
        /\ \A n \in 1..Len(built[p]) : built'[p][n] = built[p][n]
        /\ built'[p][Len(built[p]) + 1] = new
    <3>1. built'[p] = Append(built[p], new) /\ built[p] \in Seq(BuiltType)
      BY <2>4 DEF TypeInv, TypeOK, Progress
    <3>2. built[p] \in Seq(BuiltType \cup {new}) /\ new \in BuiltType \cup {new}
      BY <3>1, SeqMonotonic
    <3> QED BY <3>1, <3>2, <2>5, AppendProperties, LenProperties
  <2>7. BuiltAgree(p)'
    <3>1. ItemsOf(p)' = ItemsOf(p)
      BY <2>1 DEF ItemsOf
    <3>2. ASSUME NEW n \in 1..Len(built[p]), ItemsOf(p)[n].kind = "stack"
          PROVE  IdsAgree(built'[p][n].spec)
      BY <2>1, <2>5, <2>6, <3>2 DEF SequentialInv, BuiltAgree, Holds
    <3>3. ASSUME NEW n, n = Len(built[p]) + 1, ItemsOf(p)[n].kind = "stack"
          PROVE  IdsAgree(built'[p][n].spec)
      <4>1. ItemsOf(p)[n] = item /\ built'[p][n].spec = spec
        BY <2>3, <2>5, <2>6, <3>3 DEF Current, item
      <4> QED BY <2>2, <3>3, <4>1
    <3> QED BY <2>6, <3>1, <3>2, <3>3 DEF BuiltAgree
  <2>8. StackIdsAgree' /\ Fresh(p)'
    BY <2>1 DEF SequentialInv, StackIdsAgree, Fresh
  <2> QED BY <2>7, <2>8 DEF SequentialInv
<1> QED BY <1>1, <1>2

\* What was just read is what is there.
LEMMA GetExistingSequential ==
  ASSUME TypeInv, NEW p \in Procs, SequentialInv(p), GetExisting(p)
  PROVE  SequentialInv(p)'
<1>1. CASE Stop(p, "ok")
  BY <1>1, QuietSequential DEF Quiet
<1>2. CASE ~Stop(p, "ok")
  <2>1. /\ pc[p] = "get"
        /\ base' = [base EXCEPT ![p] = objects[Key(Current(p))]]
        /\ UNCHANGED <<repo, registry, objects, cmd, dest, pos, shown, built, want, gens>>
    BY <1>2 DEF GetExisting
  <2>2. Current(p)' = Current(p) /\ ItemsOf(p)' = ItemsOf(p) /\ base'[p] = objects[Key(Current(p))]
    BY <2>1 DEF Current, ItemsOf, TypeInv, TypeOK
  <2>3. Fresh(p)'
    BY <2>1, <2>2 DEF Fresh
  <2>4. BuiltAgree(p)' /\ StackIdsAgree'
    BY <2>1, <2>2 DEF SequentialInv, BuiltAgree, StackIdsAgree, Holds, Saving
  <2> QED BY <2>3, <2>4 DEF SequentialInv
<1> QED BY <1>1, <1>2

\* What is created or patched agrees: it is the constructed stack.
LEMMA WriteSequential ==
  ASSUME TypeInv, NEW p \in Procs, SequentialInv(p), Create(p) \/ Patch(p)
  PROVE  SequentialInv(p)'
<1>1. CASE Stop(p, "failed")
  BY <1>1, QuietSequential DEF Quiet
<1>2. ASSUME pc[p] = "write", NEW spec, NEW gen, NEW status,
             Current(p).kind = "stack" => IdsAgree(spec),
             Store(p, [exists |-> TRUE, spec |-> spec, gen |-> gen, status |-> status])
      PROVE  SequentialInv(p)'
  <2> DEFINE x == [exists |-> TRUE, spec |-> spec, gen |-> gen, status |-> status]
  <2>1. x.spec = spec
    OBVIOUS
  <2>2. /\ objects' = [objects EXCEPT ![Key(Current(p))] = x]
        /\ pc' = [pc EXCEPT ![p] = "wait"]
        /\ UNCHANGED <<repo, registry, cmd, dest, pos, shown, built, base, gens>>
    BY <1>2 DEF Store, Goto
  <2> HIDE DEF x
  <2>3. Key(Current(p)) \in Keys /\ Key(Current(p))[1] = Current(p).kind
    BY <1>2, Holding
  <2>4. StackIdsAgree'
    <3>1. ASSUME NEW o \in Keys, o[1] = "stack", objects'[o].exists PROVE IdsAgree(objects'[o].spec)
      <4>1. CASE o = Key(Current(p))
        <5>1. objects'[o] = x
          BY <2>2, <2>3, <4>1 DEF TypeInv, TypeOK
        <5> QED BY <1>2, <2>1, <2>3, <3>1, <4>1, <5>1
      <4>2. CASE o # Key(Current(p))
        <5>1. objects'[o] = objects[o]
          BY <2>2, <4>2 DEF TypeInv, TypeOK
        <5> QED BY <3>1, <5>1 DEF SequentialInv, StackIdsAgree, IdsAgree
      <4> QED BY <4>1, <4>2
    <3> QED BY <3>1 DEF StackIdsAgree, IdsAgree
  <2>5. BuiltAgree(p)' /\ Fresh(p)'
    BY <1>2, <2>2 DEF TypeInv, TypeOK, SequentialInv, BuiltAgree, Fresh, Holds, Saving, ItemsOf
  <2> QED BY <2>4, <2>5 DEF SequentialInv
<1>3. ASSUME pc[p] = "write", Current(p).kind = "stack" PROVE IdsAgree(built[p][pos[p]].spec)
  BY <1>3, Holding DEF SequentialInv, BuiltAgree, Holds, Saving, Current
<1>4. CASE Create(p) /\ ~Stop(p, "failed")
  <2>1. /\ pc[p] = "write"
        /\ Store(p, [exists |-> TRUE, spec |-> built[p][pos[p]].spec, gen |-> 1, status |-> NoStatus])
    BY <1>4 DEF Create
  <2> QED BY <1>2, <1>3, <2>1
<1>5. CASE Patch(p) /\ ~Stop(p, "failed")
  <2>1. PICK gen \in Nat \ {0} :
          Store(p, [exists |-> TRUE, spec |-> PatchedSpec(p), gen |-> gen,
                    status |-> objects[Key(Current(p))].status])
    BY <1>5, PatchStep
  <2>2. ASSUME Current(p).kind = "stack" PROVE IdsAgree(PatchedSpec(p))
    <3>1. PatchedSpec(p) = built[p][pos[p]].spec
      BY <1>5, <2>2, FreshSave DEF SequentialInv, UpdateSpec
    <3> QED BY <1>3, <1>5, <2>2, <3>1 DEF Patch
  <2> QED BY <1>2, <1>5, <2>1, <2>2 DEF Patch
<1> QED BY <1>1, <1>4, <1>5

\* Between the read and the write of the only import, objects are only deleted or
\* reported on.
LEMMA ClusterSequential ==
  ASSUME TypeInv, NEW p \in Procs, SequentialInv(p),
         (\E o \in Keys : Reconcile(o)) \/ (\E o \in Deletable : Delete(o)) \/ SetDefaultRepository
           \/ UNCHANGED vars
  PROVE  SequentialInv(p)'
<1>1. UNCHANGED <<registry, pc, cmd, dest, pos, built, base>>
  BY DEF Reconcile, Report, Delete, SetDefaultRepository, vars, locals
<1>2. \A k \in Keys : objects'[k].exists => objects[k].exists /\ objects'[k].spec = objects[k].spec
  <2>1. ASSUME NEW o \in Keys, Reconcile(o), NEW k \in Keys, objects'[k].exists
        PROVE  objects[k].exists /\ objects'[k].spec = objects[k].spec
    BY <2>1, ReportStep DEF TypeInv, TypeOK
  <2>2. ASSUME NEW o \in Deletable, Delete(o), NEW k \in Keys, objects'[k].exists
        PROVE  objects[k].exists /\ objects'[k].spec = objects[k].spec
    <3>1. o \in Keys /\ objects' = [objects EXCEPT ![o] = NoObject] /\ DOMAIN objects = Keys
      BY <2>2, DeleteStep DEF TypeInv, TypeOK
    <3>2. k # o
      BY <2>2, <3>1 DEF NoObject
    <3> QED BY <2>2, <3>1, <3>2
  <2>3. CASE SetDefaultRepository \/ UNCHANGED vars
    BY <2>3 DEF SetDefaultRepository, vars
  <2> QED BY <2>1, <2>2, <2>3
<1>3. StackIdsAgree'
  BY <1>2 DEF SequentialInv, StackIdsAgree
<1>4. Current(p)' = Current(p) /\ ItemsOf(p)' = ItemsOf(p)
  BY <1>1 DEF Current, ItemsOf
<1>5. BuiltAgree(p)'
  BY <1>1, <1>4 DEF SequentialInv, BuiltAgree
<1>6. Fresh(p)'
  <2>1. pc[p] = "write" => Key(Current(p)) \in Keys
    BY Holding
  <2> QED BY <1>1, <1>2, <1>4, <2>1 DEF SequentialInv, Fresh
<1> QED BY <1>3, <1>5, <1>6 DEF SequentialInv

\* The invariant of a single import.
LEMMA SequentialInvariant ==
  ASSUME NEW p, Procs = {p}
  PROVE  Spec => []SequentialInv(p)
<1>1. Init => SequentialInv(p)
  <2>1. ASSUME Init PROVE pc[p] = "idle" /\ \A o \in Keys : ~objects[o].exists
    BY <2>1 DEF Init, NoObject
  <2> QED BY <2>1 DEF SequentialInv, StackIdsAgree, BuiltAgree, Fresh, Holds, Saving
<1>2. TypeInv /\ SequentialInv(p) /\ [Next]_vars => SequentialInv(p)'
  <2> SUFFICES ASSUME TypeInv, SequentialInv(p), [Next]_vars PROVE SequentialInv(p)'
    OBVIOUS
  <2>1. CASE Start(p) \/ Step(p) \/ Crash(p) \/ Finish(p)
    BY <2>1, QuietSequential, ConstructSequential, GetExistingSequential, WriteSequential DEF Step, Quiet
  <2>2. CASE ~(Start(p) \/ Step(p) \/ Crash(p) \/ Finish(p))
    BY <2>2, ClusterSequential DEF Next
  <2> QED BY <2>1, <2>2
<1> QED BY <1>1, <1>2, TypeInvariant, PTL DEF Spec

\* If imports do not overlap, both images of every stack have the stack's id, though a
\* patch may carry only one of them, whatever stops the imports or deletes the stacks.
THEOREM StackIdsAgreeCorrect ==
  ASSUME NEW p, Procs = {p}
  PROVE  Spec => []StackIdsAgree
<1>1. SequentialInv(p) => StackIdsAgree
  BY DEF SequentialInv
<1> QED BY <1>1, SequentialInvariant, PTL

\* If imports do not overlap, none takes a buildpackage out of a store.
THEOREM StoresOnlyGrowCorrect ==
  ASSUME NEW p, Procs = {p}
  PROVE  Spec => StoresOnlyGrow
<1> DEFINE Grow == \A o \in Keys : o[1] = "store" /\ objects[o].exists /\ objects'[o].exists =>
                     objects[o].spec.sources \subseteq objects'[o].spec.sources
<1>1. ASSUME TypeInv, SequentialInv(p), Next, NEW o \in Keys, o[1] = "store",
             objects[o].exists, objects'[o].exists
      PROVE  objects[o].spec.sources \subseteq objects'[o].spec.sources
  <2>1. CASE objects'[o].spec = objects[o].spec
    BY <2>1
  <2>2. CASE Patch(p) /\ ~Stop(p, "failed") /\ Key(Current(p)) = o
    <3>1. Current(p).kind = "store" /\ pc[p] = "write"
      BY <1>1, <2>2 DEF Patch, Key
    <3>2. PICK gen : Store(p, [exists |-> TRUE, spec |-> PatchedSpec(p), gen |-> gen,
                               status |-> objects[o].status])
      BY <1>1, <2>2, PatchStep
    <3>3. objects'[o].spec = PatchedSpec(p)
      BY <1>1, <2>2, <3>2 DEF Store, TypeInv, TypeOK
    <3>4. PatchedSpec(p) = [sources |-> objects[o].spec.sources \cup built[p][pos[p]].spec.sources]
      BY <1>1, <2>2, <3>1, FreshSave DEF SequentialInv, UpdateSpec, CreateBuildpackageSuperset
    <3> QED BY <3>3, <3>4
  <2>3. CASE (Create(p) \/ Patch(p)) /\ ~Stop(p, "failed") /\ Key(Current(p)) # o
    <3>1. \E x : objects' = [objects EXCEPT ![Key(Current(p))] = x]
      BY <2>3 DEF Create, Patch, Store
    <3> QED BY <2>3, <3>1 DEF TypeInv, TypeOK
  <2>4. CASE Create(p) /\ ~Stop(p, "failed") /\ Key(Current(p)) = o
    BY <1>1, <2>4 DEF Create
  <2>5. CASE Quiet(p) \/ Construct(p) \/ GetExisting(p)
    <3>1. objects' = objects
      BY <1>1, <2>5, QuietForm DEF Construct, GetExisting, Stop
    <3> QED BY <3>1
  <2>6. CASE (\E k \in Keys : Reconcile(k)) \/ (\E k \in Deletable : Delete(k)) \/ SetDefaultRepository
    <3>1. ASSUME NEW k \in Keys, Reconcile(k) PROVE objects'[o].spec = objects[o].spec
      BY <1>1, <3>1, ReportStep DEF TypeInv, TypeOK
    <3>2. ASSUME NEW k \in Deletable, Delete(k) PROVE objects'[o].spec = objects[o].spec
      <4>1. k \in Keys /\ objects' = [objects EXCEPT ![k] = NoObject] /\ DOMAIN objects = Keys
        BY <1>1, <3>2, DeleteStep DEF TypeInv, TypeOK
      <4>2. k # o
        BY <1>1, <4>1 DEF NoObject
      <4> QED BY <1>1, <4>1, <4>2
    <3>3. CASE SetDefaultRepository
      BY <3>3 DEF SetDefaultRepository
    <3> QED BY <2>6, <3>1, <3>2, <3>3
  <2>7. Stop(p, "failed") => Quiet(p)
    BY DEF Quiet
  <2> QED BY <1>1, <2>2, <2>3, <2>4, <2>5, <2>6, <2>7 DEF Next, Step, Quiet
<1>2. TypeInv /\ SequentialInv(p) /\ [Next]_vars => [Grow]_vars
  BY <1>1
<1> QED BY <1>2, TypeInvariant, SequentialInvariant, PTL DEF Spec, StoresOnlyGrow
-----------------------------------------------------------------------------
(* The steps of an import with nobody else's in between                    *)

\* What a command of this import may do.
Moves(p) == Start(p) \/ Step(p) \/ Crash(p) \/ Finish(p)
Elsewhere == (\E o \in Keys : Reconcile(o)) \/ (\E o \in Deletable : Delete(o)) \/ SetDefaultRepository
               \/ UNCHANGED vars
Writes(p) == (Create(p) \/ Patch(p)) /\ ~Stop(p, "failed")

\* A write is of a new object, or of the object that is there with the wanted spec.
Saves(p, x) ==
  /\ pc[p] = "write" /\ pos[p] \in DOMAIN ItemsOf(p) /\ pos[p] \in DOMAIN built[p]
  /\ Current(p) \in PlanItem /\ Key(Current(p)) \in Keys
  /\ x \in ObjectsOf(Current(p).kind) /\ x.exists
  /\ objects' = [objects EXCEPT ![Key(Current(p))] = x]
  /\ want' = [want EXCEPT ![p] = x.gen]
  /\ pc' = [pc EXCEPT ![p] = "wait"]
  /\ UNCHANGED <<repo, registry, cmd, dest, pos, shown, built, base, gens>>
Created(p, x) ==
  /\ ~objects[Key(Current(p))].exists /\ ~base[p].exists /\ ~built[p][pos[p]].existed
  /\ x.spec = built[p][pos[p]].spec /\ x.gen = 1 /\ x.status = NoStatus
Patched(p, x) ==
  LET o == objects[Key(Current(p))] IN
  /\ o.exists
  /\ x.spec = UpdateSpec(Current(p), o.spec, built[p][pos[p]].spec)
  /\ x.gen = IF x.spec = o.spec THEN o.gen ELSE o.gen + 1
  /\ x.status = o.status

\* Every write is one or the other.
LEMMA SaveForm ==
  ASSUME TypeInv, NEW p \in Procs, Fresh(p), Writes(p)
  PROVE  \E x : Saves(p, x) /\ (Created(p, x) \/ Patched(p, x))
<1>0. pc[p] = "write"
  BY DEF Writes, Create, Patch
<1>1. /\ pos[p] \in DOMAIN ItemsOf(p) /\ pos[p] \in DOMAIN built[p] /\ Key(Current(p)) \in Keys
      /\ Current(p) \in PlanItem
      /\ Current(p).kind \in Kinds /\ built[p][pos[p]].spec \in SpecsOf(Current(p).kind)
  BY <1>0, Holding DEF TypeInv, Progress
<1>2. ASSUME NEW spec \in SpecsOf(Current(p).kind), NEW gen \in Nat \ {0}, NEW status \in Status,
             Store(p, [exists |-> TRUE, spec |-> spec, gen |-> gen, status |-> status])
      PROVE  \E x : Saves(p, x) /\ x.spec = spec /\ x.gen = gen /\ x.status = status
  <2> DEFINE x == [exists |-> TRUE, spec |-> spec, gen |-> gen, status |-> status]
  <2>1. x \in ObjectsOf(Current(p).kind) /\ x.exists /\ x.spec = spec /\ x.gen = gen /\ x.status = status
    BY DEF ObjectsOf
  <2>2. Store(p, x)
    BY <1>2
  <2> HIDE DEF x
  <2>3. Saves(p, x)
    BY <1>0, <1>1, <2>1, <2>2 DEF Saves, Store, Goto
  <2> QED BY <2>1, <2>3
<1>3. CASE Create(p) /\ ~Stop(p, "failed")
  <2>1. /\ ~objects[Key(Current(p))].exists /\ ~base[p].exists /\ ~built[p][pos[p]].existed
        /\ Store(p, [exists |-> TRUE, spec |-> built[p][pos[p]].spec, gen |-> 1, status |-> NoStatus])
    BY <1>3 DEF Create
  <2>2. NoStatus \in Status /\ 1 \in Nat \ {0}
    BY DEF NoStatus, Status, SeenBy, Unseen
  <2>3. PICK x : Saves(p, x) /\ x.spec = built[p][pos[p]].spec /\ x.gen = 1 /\ x.status = NoStatus
    BY <1>1, <1>2, <2>1, <2>2
  <2> QED BY <2>1, <2>3 DEF Created
<1>4. CASE Patch(p) /\ ~Stop(p, "failed")
  <2> DEFINE o == objects[Key(Current(p))]
             gen == IF PatchedSpec(p) = o.spec THEN o.gen ELSE o.gen + 1
  <2>1. /\ o.exists
        /\ Store(p, [exists |-> TRUE, spec |-> PatchedSpec(p), gen |-> gen, status |-> o.status])
    BY <1>4 DEF Patch, PatchedSpec
  <2>2. PatchedSpec(p) \in SpecsOf(Current(p).kind) /\ o.status \in Status
    BY <1>4, PatchStep
  <2>3. PatchedSpec(p) = UpdateSpec(Current(p), o.spec, built[p][pos[p]].spec)
    BY <1>4, FreshSave
  <2>4. gen \in Nat \ {0}
    <3>1. o \in ObjectsOf(Key(Current(p))[1])
      BY <1>1 DEF TypeInv, TypeOK
    <3>2. o.gen \in Nat \ {0}
      BY <2>1, <3>1, ObjectTyped
    <3> QED BY <3>2
  <2>5. PICK x : Saves(p, x) /\ x.spec = PatchedSpec(p) /\ x.gen = gen /\ x.status = o.status
    <3> HIDE DEF gen, o
    <3> QED BY <1>2, <2>1, <2>2, <2>4
  <2> QED BY <2>1, <2>3, <2>5 DEF Patched
<1> QED BY <1>3, <1>4 DEF Writes

\* What the import holds stays as it is.
Keeps(p) ==
  /\ objects' = objects /\ cmd'[p] = cmd[p] /\ dest'[p] = dest[p]
  /\ shown'[p] = shown[p] /\ built'[p] = built[p] /\ want'[p] = want[p]

\* The wait for an item is over.
Resolves(p) ==
  /\ pc[p] = "wait" /\ pc'[p] = "get" /\ pos[p] \in DOMAIN ItemsOf(p) /\ pos'[p] = pos[p] + 1
  /\ HasResolved(p) /\ objects[Key(Current(p))].status.ready
  /\ LET o == Key(Current(p)) IN
     gens'[p] = IF o[1] \in {"store", "stack"} THEN [gens[p] EXCEPT ![o] = want[p]] ELSE gens[p]

\* The steps between the writes of an import that saves.
LEMMA SavingForm ==
  ASSUME TypeInv, NEW p \in Procs, Moves(p), ~Writes(p), pc'[p] \in Saving
  PROVE  /\ Keeps(p)
         /\ \/ pc[p] = "relocate" /\ pc'[p] = "get" /\ pos'[p] = 1
            \/ pc[p] = "get" /\ pc'[p] = "write" /\ pos'[p] = pos[p] /\ gens'[p] = gens[p]
            \/ Resolves(p)
<1>1. \A l \in {"ok", "skipped", "failed", "relocate"} : ~Stop(p, l)
  BY DEF Stop, Goto, TypeInv, TypeOK, Saving
<1>2. ~Start(p) /\ ~Crash(p) /\ ~Finish(p) /\ ~Summarize(p) /\ ~Summarized(p) /\ ~Confirm(p)
  <2>1. ~Start(p)
    BY DEF Start, Goto, TypeInv, TypeOK, Saving
  <2>2. ~Finish(p) /\ ~Summarized(p)
    BY DEF Finish, Summarized, Goto, TypeInv, TypeOK, Saving
  <2>3. ~Summarize(p)
    BY <1>1 DEF Summarize, Saving
  <2>4. ~Crash(p) /\ ~Confirm(p)
    BY <1>1 DEF Crash, Confirm
  <2> QED BY <2>1, <2>2, <2>3, <2>4
<1>3. ~Construct(p)
  BY <1>1, ConstructStep DEF Saving
<1>4. CASE Relocation(p)
  BY <1>4 DEF Relocation, Goto, Keeps, TypeInv, TypeOK, Saving
<1>5. CASE GetExisting(p)
  BY <1>1, <1>5 DEF GetExisting, Goto, Keeps, TypeInv, TypeOK
<1>6. CASE WaitResolved(p)
  <2> DEFINE o == Key(Current(p))
  <2>1. /\ pc[p] = "wait" /\ HasResolved(p) /\ objects[o].status.ready
        /\ gens' = IF o[1] \in {"store", "stack"} THEN [gens EXCEPT ![p][o] = want[p]] ELSE gens
        /\ pos' = [pos EXCEPT ![p] = @ + 1]
        /\ pc' = [pc EXCEPT ![p] = "get"]
        /\ UNCHANGED <<repo, registry, objects, cmd, dest, shown, built, base, want>>
    BY <1>1, <1>6 DEF WaitResolved, Goto
  <2>2. pc'[p] = "get" /\ pos'[p] = pos[p] + 1 /\ pos[p] \in DOMAIN ItemsOf(p)
    BY <2>1 DEF TypeInv, TypeOK, Progress
  <2>3. gens'[p] = IF o[1] \in {"store", "stack"} THEN [gens[p] EXCEPT ![o] = want[p]] ELSE gens[p]
    <3>1. DOMAIN gens = Procs
      BY DEF TypeInv, TypeOK
    <3> HIDE DEF o
    <3> QED BY <2>1, <3>1
  <2>4. Keeps(p)
    BY <2>1 DEF Keeps
  <2> HIDE DEF o
  <2> QED BY <2>1, <2>2, <2>3, <2>4 DEF Resolves, o
<1> QED BY <1>1, <1>2, <1>3, <1>4, <1>5, <1>6 DEF Moves, Step, Writes, Create, Patch

\* A turn of relocateDescriptor, for an object that is there or not.
Constructs(p, new) ==
  /\ pc[p] = "relocate" /\ pc'[p] = "relocate" /\ pos[p] = Len(built[p]) + 1 /\ pos[p] \in DOMAIN ItemsOf(p)
  /\ Current(p) \in PlanItem /\ Key(Current(p)) \in Keys /\ dest[p] \in Repos
  /\ objects' = objects /\ cmd'[p] = cmd[p] /\ dest'[p] = dest[p] /\ shown'[p] = shown[p]
  /\ pos'[p] = pos[p] + 1
  /\ DOMAIN built'[p] = 1..(Len(built[p]) + 1) /\ DOMAIN built[p] = 1..Len(built[p])
  /\ \A n \in DOMAIN built[p] : built'[p][n] = built[p][n]
  /\ built'[p][pos[p]] = new
  /\ LET item == Current(p)
         o == objects[Key(item)]
     IN  /\ item.kind = "store" => new.spec = MakeSpec(item, dest[p], o) /\ new.existed = o.exists
         /\ item.kind = "store" /\ ~o.exists => item.images # <<>>
         /\ item.kind # "store" => new.spec = MakeSpec(item, dest[p], NoObject) /\ ~new.existed

\* The steps up to the last turn.
LEMMA RelocatingForm ==
  ASSUME TypeInv, NEW p \in Procs, Moves(p), pc'[p] = "relocate"
  PROVE  \/ /\ objects' = objects /\ built'[p] = <<>> /\ pos'[p] = 1
            /\ \/ pc[p] = "idle" /\ ~cmd'[p].show
               \/ pc[p] = "confirm" /\ cmd'[p] = cmd[p] /\ dest'[p] = dest[p] /\ shown'[p] = shown[p]
         \/ \E new : Constructs(p, new)
<1>1. \A l \in {"ok", "skipped", "failed"} : ~Stop(p, l)
  BY DEF Stop, Goto, TypeInv, TypeOK
<1>2. ~Finish(p) /\ ~Summarized(p) /\ ~Relocation(p) /\ ~GetExisting(p) /\ ~WaitResolved(p)
  <2>1. ~Finish(p) /\ ~Summarized(p)
    BY DEF Finish, Summarized, Goto, TypeInv, TypeOK
  <2>2. ~Relocation(p)
    BY DEF Relocation, Goto, TypeInv, TypeOK
  <2>3. ~GetExisting(p) /\ ~WaitResolved(p)
    BY <1>1 DEF GetExisting, WaitResolved, Goto, TypeInv, TypeOK
  <2> QED BY <2>1, <2>2, <2>3
<1>3. ~Summarize(p) /\ ~Crash(p) /\ ~Create(p) /\ ~Patch(p)
  <2>1. ~Summarize(p) /\ ~Crash(p)
    BY <1>1 DEF Summarize, Crash
  <2>2. \A x : ~Store(p, x)
    BY DEF Store, Goto, TypeInv, TypeOK
  <2> QED BY <1>1, <2>1, <2>2 DEF Create, Patch
<1>4. CASE Start(p)
  <2>1. PICK c \in Commands :
          /\ cmd' = [cmd EXCEPT ![p] = c]
          /\ Goto(p, IF ~ValidateDescriptor(c.descriptor) THEN "failed"
                     ELSE IF c.show THEN "summary" ELSE "relocate")
    BY <1>4 DEF Start
  <2>2. cmd'[p] = c
    BY <2>1 DEF TypeInv, TypeOK
  <2>3. ~c.show
    BY <2>1 DEF Goto, TypeInv, TypeOK
  <2>4. built[p] = <<>> /\ pos[p] = 1
    BY <1>4 DEF Start, TypeInv, Progress
  <2> QED BY <1>4, <2>2, <2>3, <2>4 DEF Start
<1>5. CASE Confirm(p)
  <2>1. built[p] = <<>> /\ pos[p] = 1
    BY <1>5 DEF Confirm, TypeInv, Progress
  <2> QED BY <1>1, <1>5, <2>1 DEF Confirm, Stop, locals
<1>6. CASE Construct(p)
  <2> DEFINE item == Current(p)
  <2>1. PICK existing \in ObjectsOf(Current(p).kind) :
           /\ Current(p).kind = "store" => existing = objects[Key(Current(p))]
           /\ Current(p).kind # "store" => existing = NoObject
           /\ pc[p] = "relocate" /\ pos[p] \in DOMAIN ItemsOf(p) /\ dest[p] \in Repos
           /\ built' = [built EXCEPT ![p] = Append(@,
                [spec |-> MakeSpec(Current(p), dest[p], existing), existed |-> existing.exists])]
           /\ pos' = [pos EXCEPT ![p] = @ + 1]
           /\ UNCHANGED <<repo, objects, pc, cmd, dest, shown, base, want, gens>>
    BY <1>1, <1>6, ConstructStep
  <2> DEFINE new == [spec |-> MakeSpec(Current(p), dest[p], existing), existed |-> existing.exists]
  <2>2. built'[p] = Append(built[p], new)
    BY <2>1 DEF TypeInv, TypeOK
  <2>3. new.spec = MakeSpec(item, dest[p], existing) /\ new.existed = existing.exists
    OBVIOUS
  <2> HIDE DEF new
  <2>4. built[p] \in Seq(BuiltType) /\ pos[p] = Len(built[p]) + 1
    BY <2>1 DEF TypeInv, Progress
  <2>5. /\ DOMAIN built'[p] = 1..(Len(built[p]) + 1) /\ DOMAIN built[p] = 1..Len(built[p])
        /\ \A n \in DOMAIN built[p] : built'[p][n] = built[p][n]
        /\ built'[p][pos[p]] = new
    <3>1. BuiltType \subseteq BuiltType \cup {new}
      OBVIOUS
    <3>2. built[p] \in Seq(BuiltType \cup {new}) /\ new \in BuiltType \cup {new}
      BY <2>4, <3>1, SeqMonotonic
    <3>3. /\ DOMAIN built[p] = 1..Len(built[p]) /\ Len(built[p]) \in Nat
          /\ Append(built[p], new) \in Seq(BuiltType \cup {new})
          /\ Len(Append(built[p], new)) = Len(built[p]) + 1
          /\ \A i \in 1..Len(built[p]) : Append(built[p], new)[i] = built[p][i]
          /\ Append(built[p], new)[Len(built[p]) + 1] = new
      BY <3>2, AppendProperties, LenProperties
    <3>4. DOMAIN Append(built[p], new) = 1..(Len(built[p]) + 1)
      BY <3>3, LenProperties
    <3> QED BY <2>2, <2>4, <3>3, <3>4
  <2>6. Current(p) \in PlanItem /\ Key(Current(p)) \in Keys
    BY <2>1, ItemsTyped DEF TypeInv, Progress, Current
  <2>7. /\ item.kind = "store" => new.spec = MakeSpec(item, dest[p], objects[Key(item)])
                                  /\ new.existed = objects[Key(item)].exists
        /\ item.kind = "store" /\ ~objects[Key(item)].exists => item.images # <<>>
        /\ item.kind # "store" => new.spec = MakeSpec(item, dest[p], NoObject) /\ ~new.existed
    <3>1. item.kind = "store" /\ ~objects[Key(item)].exists => item.images # <<>>
      BY <1>1, <1>6 DEF Construct
    <3>2. ~NoObject.exists
      BY DEF NoObject
    <3> QED BY <2>1, <2>3, <3>1, <3>2
  <2>8. /\ pc'[p] = "relocate" /\ pos'[p] = pos[p] + 1
        /\ cmd'[p] = cmd[p] /\ dest'[p] = dest[p] /\ shown'[p] = shown[p] /\ objects' = objects
    BY <2>1 DEF TypeInv, TypeOK
  <2> HIDE DEF item
  <2>9. Constructs(p, new)
    BY <2>1, <2>4, <2>5, <2>6, <2>7, <2>8 DEF Constructs, item
  <2> QED BY <2>9
<1> QED BY <1>2, <1>3, <1>4, <1>5, <1>6 DEF Moves, Step

\* The only step that ends an import in success.
LEMMA SuccessForm ==
  ASSUME TypeInv, NEW p \in Procs, Moves(p), Succeeded(p)'
  PROVE  /\ pc[p] = "get" /\ pos[p] \notin DOMAIN ItemsOf(p)
         /\ UNCHANGED <<repo, registry, objects, locals>>
<1>1. pc'[p] = "ok" /\ cmd'[p].mode = "live"
  BY DEF Succeeded, IsDryRun
<1>2. \A l \in {"relocate", "skipped", "failed"} : ~Stop(p, l)
  BY <1>1 DEF Stop, Goto, TypeInv, TypeOK
<1>3. ~Start(p) /\ ~Finish(p) /\ ~Crash(p) /\ ~Summarize(p) /\ ~Summarized(p) /\ ~Confirm(p)
  <2>1. ~Start(p)
    BY <1>1 DEF Start, Goto, TypeInv, TypeOK
  <2>2. ~Finish(p) /\ ~Summarized(p)
    BY <1>1 DEF Finish, Summarized, Goto, TypeInv, TypeOK
  <2>3. ~Summarize(p)
    BY <1>1, <1>2 DEF Summarize
  <2>4. ~Crash(p) /\ ~Confirm(p)
    BY <1>2 DEF Crash, Confirm
  <2> QED BY <2>1, <2>2, <2>3, <2>4
<1>4. ~Construct(p) /\ ~WaitResolved(p) /\ ~Create(p) /\ ~Patch(p)
  <2>1. ~Construct(p)
    BY <1>1, <1>2, ConstructStep
  <2>2. ~WaitResolved(p)
    BY <1>1, <1>2 DEF WaitResolved, Goto, TypeInv, TypeOK
  <2>3. \A x : ~Store(p, x)
    BY <1>1 DEF Store, Goto, TypeInv, TypeOK
  <2> QED BY <1>2, <2>1, <2>2, <2>3 DEF Create, Patch
<1>5. ~Relocation(p)
  BY <1>1 DEF Relocation, Goto, IsDryRun, TypeInv, TypeOK
<1>6. CASE GetExisting(p)
  BY <1>1, <1>6 DEF GetExisting, Stop, Goto, TypeInv, TypeOK
<1> QED BY <1>3, <1>4, <1>5, <1>6 DEF Moves, Step

\* A report of the controller.
Reported(o) ==
  /\ objects[o].exists /\ objects'[o].exists
  /\ objects'[o].spec = objects[o].spec /\ objects'[o].gen = objects[o].gen
  /\ objects'[o].status.observed = objects[o].gen
  /\ \A d \in {"stack", "store"} : objects'[o].status[d] \in {CurrentSeen(o, d), LastSeen(o, d)}
  /\ o[1] = "builder" /\ objects'[o].status.ready =>
       /\ objects'[o].status.stack # Unseen
       /\ objects'[o].status.store # Unseen \/ objects[o].spec.store = NoName

\* What happens elsewhere to an object.
LEMMA ClusterForm ==
  ASSUME TypeInv, Elsewhere
  PROVE  /\ UNCHANGED <<registry, pc, cmd, dest, pos, shown, built, base, want, gens>>
         /\ \A o \in Keys : \/ objects'[o] = objects[o]
                            \/ o \in Deletable /\ objects'[o] = NoObject
                            \/ Reported(o)
<1>1. UNCHANGED <<registry, pc, cmd, dest, pos, shown, built, base, want, gens>>
  BY DEF Elsewhere, Reconcile, Report, Delete, SetDefaultRepository, vars, locals
<1>2. ASSUME NEW o \in Keys, Reconcile(o), NEW k \in Keys
      PROVE  objects'[k] = objects[k] \/ Reported(k)
  <2>1. PICK stack \in {CurrentSeen(o, "stack"), LastSeen(o, "stack")},
             store \in {CurrentSeen(o, "store"), LastSeen(o, "store")},
             ready \in {TRUE} \cup {o \notin Unready} : Report(o, ready, stack, store)
    BY <1>2 DEF Reconcile
  <2> DEFINE status == [observed |-> objects[o].gen, ready |-> ready, stack |-> stack, store |-> store]
  <2>2. /\ objects[o].exists /\ objects' = [objects EXCEPT ![o].status = status]
        /\ (ready /\ o[1] = "builder") => stack # Unseen /\ (store # Unseen \/ objects[o].spec.store = NoName)
    BY <2>1 DEF Report
  <2>3. /\ status.observed = objects[o].gen /\ status.ready = ready
        /\ status.stack = stack /\ status.store = store
        /\ status["stack"] = stack /\ status["store"] = store
    OBVIOUS
  <2> HIDE DEF status
  <2>4. objects[o] \in [exists: {TRUE}, spec: SpecsOf(o[1]), gen: Nat \ {0}, status: Status]
    <3>1. objects[o] \in ObjectsOf(o[1])
      BY DEF TypeInv, TypeOK
    <3>2. objects[o] # NoObject
      BY <2>2 DEF NoObject
    <3> QED BY <3>1, <3>2 DEF ObjectsOf
  <2>5. CASE k = o
    <3>1. objects'[o] = [objects[o] EXCEPT !.status = status]
      BY <2>2 DEF TypeInv, TypeOK
    <3>2. /\ objects'[o].exists = objects[o].exists /\ objects'[o].spec = objects[o].spec
          /\ objects'[o].gen = objects[o].gen /\ objects'[o].status = status
      BY <2>4, <3>1
    <3> QED BY <2>1, <2>2, <2>3, <2>5, <3>2 DEF Reported
  <2>6. CASE k # o
    BY <2>2, <2>6 DEF TypeInv, TypeOK
  <2> QED BY <2>5, <2>6
<1>3. ASSUME NEW o \in Deletable, Delete(o), NEW k \in Keys
      PROVE  objects'[k] = objects[k] \/ (k \in Deletable /\ objects'[k] = NoObject)
  BY <1>3, DeleteStep DEF TypeInv, TypeOK
<1>4. CASE SetDefaultRepository \/ UNCHANGED vars
  BY <1>1, <1>4 DEF SetDefaultRepository, vars
<1> QED BY <1>1, <1>2, <1>3, <1>4 DEF Elsewhere

\* With one process these are all the steps there are.
LEMMA OneProcess ==
  ASSUME NEW p, Procs = {p}, [Next]_vars
  PROVE  Moves(p) \/ Elsewhere
BY DEF Next, Moves, Elsewhere

\* Nothing else writes.
LEMMA NoWrite ==
  ASSUME TypeInv, NEW p \in Procs, Moves(p), ~Writes(p)
  PROVE  objects' = objects
<1>1. CASE Quiet(p)
  BY <1>1, QuietForm
<1>2. CASE Construct(p) \/ GetExisting(p)
  BY <1>2 DEF Construct, GetExisting, Stop
<1> QED BY <1>1, <1>2 DEF Moves, Step, Quiet, Writes, Create, Patch

\* Relocating or saving, an import goes on with what it had, or constructs one more object.
LEMMA HoldsForm ==
  ASSUME TypeInv, NEW p \in Procs, Moves(p), ~Writes(p), pc'[p] \in Holds
  PROVE  /\ objects' = objects
         /\ \/ built'[p] = <<>>
            \/ /\ pc[p] \in Holds /\ cmd'[p] = cmd[p] /\ dest'[p] = dest[p]
               /\ shown'[p] = shown[p] /\ built'[p] = built[p]
            \/ \E new : Constructs(p, new)
<1>1. CASE pc'[p] \in Saving
  BY <1>1, SavingForm DEF Keeps, Resolves, Holds, Saving
<1>2. CASE pc'[p] = "relocate"
  BY <1>2, NoWrite, RelocatingForm
<1> QED BY <1>1, <1>2 DEF Holds

\* Numbers of the objects that are there, or are not.
LEMMA ObjectNats ==
  ASSUME TypeInv, NEW o \in Keys
  PROVE  objects[o].gen \in Nat /\ objects[o].status \in Status /\ objects[o].status.observed \in Nat
<1>1. CASE objects[o] = NoObject
  <2>1. objects[o].gen = 0 /\ objects[o].status = NoStatus
    BY <1>1 DEF NoObject
  <2>2. NoStatus \in Status
    BY DEF NoStatus, Status, SeenBy, Unseen
  <2> QED BY <2>1, <2>2 DEF Status
<1>2. CASE objects[o] # NoObject
  <2>1. objects[o].gen \in Nat \ {0} /\ objects[o].status \in Status
    BY <1>2 DEF TypeInv, TypeOK, ObjectsOf
  <2> QED BY <2>1 DEF Status
<1> QED BY <1>1, <1>2

\* What was not refused is what was accepted.
Accepted(p) ==
  pc[p] \in {"summary", "confirm", "relocate", "get", "write", "wait", "ok"} =>
    ValidateDescriptor(cmd[p].descriptor)

\* An import that goes on has a valid descriptor.
LEMMA AcceptedInvariant ==
  ASSUME NEW p, Procs = {p}
  PROVE  Spec => []Accepted(p)
<1>1. Init => Accepted(p)
  <2>1. ASSUME Init PROVE pc[p] = "idle"
    BY <2>1 DEF Init
  <2> QED BY <2>1 DEF Accepted
<1>2. TypeInv /\ Accepted(p) /\ [Next]_vars => Accepted(p)'
  <2> SUFFICES ASSUME TypeInv, Accepted(p), [Next]_vars PROVE Accepted(p)'
    OBVIOUS
  <2>1. CASE Start(p)
    <3>1. PICK c \in Commands :
            /\ cmd' = [cmd EXCEPT ![p] = c]
            /\ Goto(p, IF ~ValidateDescriptor(c.descriptor) THEN "failed"
                       ELSE IF c.show THEN "summary" ELSE "relocate")
      BY <2>1 DEF Start
    <3>2. cmd'[p] = c /\ (~ValidateDescriptor(c.descriptor) => pc'[p] = "failed")
      BY <3>1 DEF Goto, TypeInv, TypeOK
    <3> QED BY <3>2 DEF Accepted
  <2>2. CASE cmd'[p] = cmd[p] /\ (pc'[p] \in {"failed", "skipped"} \/ pc[p] \notin {"idle", "skipped", "failed"})
    BY <2>2 DEF Accepted, TypeInv, TypeOK
  <2>3. CASE Step(p) \/ Crash(p)
    <3>1. cmd' = cmd
      BY <2>3 DEF Step, Summarize, Summarized, Confirm, Construct, Relocation, GetExisting, Create, Patch,
                  WaitResolved, Crash, Store, Stop, locals
    <3>2. pc[p] \notin {"idle", "skipped", "failed"}
      BY <2>3 DEF Step, Summarize, Summarized, Confirm, Construct, Relocation, GetExisting, Create, Patch,
                  WaitResolved, Crash
    <3> QED BY <2>2, <3>1, <3>2
  <2>4. CASE Finish(p)
    BY <2>4 DEF Finish, Goto, TypeInv, TypeOK, Accepted
  <2>5. CASE Elsewhere
    BY <2>5, ClusterForm DEF Accepted
  <2> QED BY <2>1, <2>3, <2>4, <2>5, OneProcess DEF Moves
<1> QED BY <1>1, <1>2, TypeInvariant, PTL DEF Spec
-----------------------------------------------------------------------------
(* The waits                                                               *)

\* An item that was waited for, and is not being written again.
Before(p, n) == n < pos[p] /\ (pc[p] = "wait" => Key(ItemsOf(p)[n]) # Key(Current(p)))

\* The import waits for what it wrote; what it waited for has been observed.
WaitInv(p) ==
  /\ \A o \in Keys : objects[o].status.observed <= objects[o].gen
  /\ pc[p] = "wait" /\ objects[Key(Current(p))].exists => want[p] = objects[Key(Current(p))].gen
  /\ pc[p] \in Saving =>
       \A n \in DOMAIN ItemsOf(p) : Before(p, n) =>
         objects[Key(ItemsOf(p)[n])].status.observed = objects[Key(ItemsOf(p)[n])].gen

\* A write is waited for by the generation it made.
LEMMA SaveWaits ==
  ASSUME TypeInv, NEW p \in Procs, Fresh(p), WaitInv(p), Writes(p)
  PROVE  WaitInv(p)'
<1> DEFINE k == Key(Current(p))
<1>1. PICK x : Saves(p, x) /\ (Created(p, x) \/ Patched(p, x))
  BY SaveForm
<1>2. k \in Keys /\ objects' = [objects EXCEPT ![k] = x] /\ pc[p] = "write"
  BY <1>1 DEF Saves
<1>3. objects'[k] = x /\ \A o \in Keys \ {k} : objects'[o] = objects[o]
  BY <1>2 DEF TypeInv, TypeOK
<1>4. objects[k].gen \in Nat /\ objects[k].status.observed \in Nat
  BY <1>2, ObjectNats
<1>5. x.status.observed <= x.gen
  <2>1. CASE Created(p, x)
    BY <2>1 DEF Created, NoStatus
  <2>2. CASE Patched(p, x)
    BY <1>2, <1>4, <2>2 DEF Patched, WaitInv
  <2> QED BY <1>1, <2>1, <2>2
<1>6. pc'[p] = "wait" /\ want'[p] = x.gen /\ Current(p)' = Current(p) /\ ItemsOf(p)' = ItemsOf(p) /\ pos' = pos
  BY <1>1 DEF Saves, Current, ItemsOf, TypeInv, TypeOK
<1>7. ASSUME NEW n \in DOMAIN ItemsOf(p), n < pos[p], Key(ItemsOf(p)[n]) # k
      PROVE  objects'[Key(ItemsOf(p)[n])].status.observed = objects'[Key(ItemsOf(p)[n])].gen
  <2>1. Key(ItemsOf(p)[n]) \in Keys
    BY <1>2, ItemsTyped DEF TypeInv, Progress
  <2>2. Before(p, n)
    BY <1>2, <1>7 DEF Before
  <2> QED BY <1>2, <1>3, <1>7, <2>1, <2>2 DEF WaitInv, Saving
<1>8. \A o \in Keys : objects'[o].status.observed <= objects'[o].gen
  BY <1>3, <1>5 DEF WaitInv
<1> QED BY <1>3, <1>6, <1>7, <1>8 DEF WaitInv, Before, Saving

\* Other steps of the import change no object, and a wait ends when the generation was observed.
LEMMA MoveWaits ==
  ASSUME TypeInv, NEW p \in Procs, WaitInv(p), Moves(p), ~Writes(p)
  PROVE  WaitInv(p)'
<1>1. objects' = objects
  BY NoWrite
<1>2. CASE pc'[p] \notin Saving
  BY <1>1, <1>2 DEF WaitInv, Saving
<1>3. CASE pc'[p] \in Saving
  <2>1. /\ Keeps(p)
        /\ \/ pc[p] = "relocate" /\ pc'[p] = "get" /\ pos'[p] = 1
           \/ pc[p] = "get" /\ pc'[p] = "write" /\ pos'[p] = pos[p] /\ gens'[p] = gens[p]
           \/ Resolves(p)
    BY <1>3, SavingForm
  <2>2. ItemsOf(p)' = ItemsOf(p)
    BY <2>1 DEF Keeps, ItemsOf
  <2>3. CASE pc[p] = "relocate" /\ pc'[p] = "get" /\ pos'[p] = 1
    <3>1. DOMAIN ItemsOf(p) = 1..Len(ItemsOf(p))
      BY <2>3, ItemsTyped DEF TypeInv, Progress
    <3>2. \A n \in DOMAIN ItemsOf(p) : ~(n < 1)
      BY <3>1
    <3> QED BY <1>1, <2>2, <2>3, <3>2 DEF WaitInv, Before
  <2>4. CASE pc[p] = "get" /\ pc'[p] = "write" /\ pos'[p] = pos[p]
    BY <1>1, <2>2, <2>4 DEF WaitInv, Before, Saving
  <2>5. CASE Resolves(p)
    <3> DEFINE k == Key(Current(p))
    <3>1. /\ pc[p] = "wait" /\ pc'[p] = "get" /\ pos'[p] = pos[p] + 1
          /\ objects[k].exists /\ objects[k].status.observed >= want[p]
      BY <2>5 DEF Resolves, HasResolved
    <3>2. k \in Keys /\ DOMAIN ItemsOf(p) = 1..Len(ItemsOf(p)) /\ pos[p] \in DOMAIN ItemsOf(p)
      BY <3>1, ItemsTyped DEF TypeInv, Progress, Current
    <3>3. objects[k].status.observed = objects[k].gen
      <4>1. objects[k].gen \in Nat /\ objects[k].status.observed \in Nat
        BY <3>2, ObjectNats
      <4> QED BY <3>1, <3>2, <4>1 DEF WaitInv
    <3>4. ASSUME NEW n \in DOMAIN ItemsOf(p), n < pos[p] + 1
          PROVE  objects[Key(ItemsOf(p)[n])].status.observed = objects[Key(ItemsOf(p)[n])].gen
      <4>1. CASE Key(ItemsOf(p)[n]) = k
        BY <3>3, <4>1
      <4>2. CASE Key(ItemsOf(p)[n]) # k
        <5>1. n < pos[p]
          BY <3>2, <3>4, <4>2 DEF Current
        <5> QED BY <3>1, <4>2, <5>1 DEF WaitInv, Before, Saving
      <4> QED BY <4>1, <4>2
    <3> QED BY <1>1, <2>2, <3>1, <3>4 DEF WaitInv, Before
  <2> QED BY <2>1, <2>3, <2>4, <2>5
<1> QED BY <1>2, <1>3

\* The controller only ever observes what is there.
LEMMA ClusterWaits ==
  ASSUME TypeInv, NEW p \in Procs, WaitInv(p), Elsewhere
  PROVE  WaitInv(p)'
<1>1. /\ UNCHANGED <<registry, pc, cmd, dest, pos, shown, built, base, want, gens>>
      /\ \A o \in Keys : \/ objects'[o] = objects[o]
                         \/ o \in Deletable /\ objects'[o] = NoObject
                         \/ Reported(o)
  BY ClusterForm
<1>2. ASSUME NEW o \in Keys
      PROVE  /\ objects'[o] = objects[o] \/ objects'[o].status.observed = objects'[o].gen
             /\ objects'[o].status.observed <= objects'[o].gen
             /\ objects'[o].exists => objects[o].exists /\ objects'[o].gen = objects[o].gen
  <2>1. CASE objects'[o] = objects[o]
    BY <2>1 DEF WaitInv
  <2>2. CASE objects'[o] = NoObject
    BY <2>2 DEF NoObject, NoStatus
  <2>3. CASE Reported(o)
    BY <2>3, ObjectNats DEF Reported
  <2> QED BY <1>1, <2>1, <2>2, <2>3
<1>3. ItemsOf(p)' = ItemsOf(p) /\ Current(p)' = Current(p) /\ pc' = pc /\ pos' = pos /\ want' = want
  BY <1>1 DEF ItemsOf, Current
<1>4. pc[p] \in Saving => \A n \in DOMAIN ItemsOf(p) : Key(ItemsOf(p)[n]) \in Keys
  BY ItemsTyped DEF TypeInv, Progress, Saving
<1>5. pc[p] = "wait" => Key(Current(p)) \in Keys
  BY <1>4 DEF Saving, TypeInv, Progress, Current
<1> QED BY <1>2, <1>3, <1>4, <1>5 DEF WaitInv, Before

\* The invariant of the waits.
LEMMA WaitInvariant ==
  ASSUME NEW p, Procs = {p}
  PROVE  Spec => []WaitInv(p)
<1>1. Init => WaitInv(p)
  <2>1. ASSUME Init PROVE pc[p] = "idle" /\ \A o \in Keys : objects[o] = NoObject
    BY <2>1 DEF Init
  <2>2. NoObject.status.observed = 0 /\ NoObject.gen = 0
    BY DEF NoObject, NoStatus
  <2> QED BY <2>1, <2>2 DEF WaitInv, Saving
<1>2. TypeInv /\ SequentialInv(p) /\ WaitInv(p) /\ [Next]_vars => WaitInv(p)'
  BY SaveWaits, MoveWaits, ClusterWaits, OneProcess DEF SequentialInv
<1> QED BY <1>1, <1>2, TypeInvariant, SequentialInvariant, PTL DEF Spec

\* If imports do not overlap, no builder is saved before the controller has observed what
\* the same import made of its stack and its store, whatever is deleted in between: they
\* come first in every plan (Plan), and each save waits for its generation.
THEOREM DependenciesObservedCorrect ==
  ASSUME NEW p, Procs = {p}
  PROVE  Spec => []DependenciesObserved
<1>1. TypeInv /\ WaitInv(p) => DependenciesObserved
  <2> SUFFICES ASSUME TypeInv, WaitInv(p), pc[p] = "wait", Current(p).kind = "builder",
                      NEW o \in {StackKey(Current(p)), StoreKey(Current(p))}, InPlan(p, o)
               PROVE  objects[o].status.observed = objects[o].gen
    BY DEF DependenciesObserved
  <2>1. PICK n \in DOMAIN ItemsOf(p) : Key(ItemsOf(p)[n]) = o
    BY DEF InPlan, PlanItems
  <2>2. o[1] # "builder" /\ ItemsOf(p)[n].kind # "builder"
    BY <2>1 DEF StackKey, StoreKey, Key
  <2>3. cmd[p].descriptor \in Descriptors /\ pos[p] \in DOMAIN ItemsOf(p)
    BY ImportAssumption DEF TypeInv, Progress
  <2>4. n < pos[p]
    BY <2>2, <2>3, BuildersLast DEF ItemsOf, Current
  <2>5. Key(Current(p)) # o
    BY <2>2 DEF Key
  <2> QED BY <2>1, <2>4, <2>5 DEF WaitInv, Before, Saving
<1> QED BY <1>1, TypeInvariant, WaitInvariant, PTL
-----------------------------------------------------------------------------
(* Stores                                                                  *)

\* One reference for each digest.
OneEach(sources) == \A r, s \in sources : r[2] = s[2] => r = s

\* AddToStore keeps it so: what it adds goes into one repository.
LEMMA AddsOneEach ==
  ASSUME NEW sources, OneEach(sources), NEW dst, NEW images
  PROVE  OneEach(AddToStore(sources, Relocated(dst, images)))
<1> DEFINE added == {r \in Relocated(dst, images) : r[2] \notin DigestsOf(sources)}
<1>1. AddToStore(sources, Relocated(dst, images)) = sources \cup added
  BY DEF AddToStore
<1>2. ASSUME NEW r \in added, NEW s \in added, r[2] = s[2] PROVE r = s
  BY <1>2 DEF Relocated
<1>3. ASSUME NEW r \in added, NEW s \in sources PROVE r[2] # s[2]
  BY DEF DigestsOf
<1> HIDE DEF added
<1> QED BY <1>1, <1>2, <1>3 DEF OneEach

\* The constructed stores hold one reference each, and everything that is in the cluster.
StoreInv(p) ==
  /\ OneReferenceEach
  /\ pc[p] \in Holds =>
       \A n \in DOMAIN built[p] : ItemsOf(p)[n].kind = "store" =>
         LET o == objects[Key(ItemsOf(p)[n])] IN
         /\ OneEach(built[p][n].spec.sources)
         /\ o.exists => o.spec.sources \subseteq built[p][n].spec.sources

\* The indices of what is constructed are those of items.
LEMMA BuiltItems ==
  ASSUME TypeInv, NEW p \in Procs, pc[p] \in Holds
  PROVE  /\ cmd[p] \in Commands /\ cmd[p].descriptor \in Descriptors
         /\ DOMAIN built[p] \subseteq DOMAIN ItemsOf(p)
         /\ pc[p] \in Saving => DOMAIN built[p] = DOMAIN ItemsOf(p)
         /\ \A n \in DOMAIN built[p] :
              ItemsOf(p)[n] \in PlanItem /\ Key(ItemsOf(p)[n]) \in Keys /\ n \in Nat
              /\ built[p][n].spec \in SpecsOf(ItemsOf(p)[n].kind)
<1>1. cmd[p] \in Commands /\ cmd[p].descriptor \in Descriptors /\ built[p] \in Seq(BuiltType)
  BY ImportAssumption DEF TypeInv, Progress, Holds, Saving
<1>2. /\ DOMAIN built[p] = 1..Len(built[p]) /\ Len(built[p]) \in Nat
      /\ DOMAIN ItemsOf(p) = 1..Len(ItemsOf(p)) /\ Len(ItemsOf(p)) \in Nat
      /\ \A n \in DOMAIN ItemsOf(p) : ItemsOf(p)[n] \in PlanItem /\ Key(ItemsOf(p)[n]) \in Keys
  BY <1>1, ItemsTyped, LenProperties
<1>3. /\ pc[p] = "relocate" => Len(built[p]) <= Len(ItemsOf(p))
      /\ pc[p] \in Saving => Len(built[p]) = Len(ItemsOf(p))
      /\ \A n \in DOMAIN built[p] : built[p][n].spec \in SpecsOf(ItemsOf(p)[n].kind)
  BY DEF TypeInv, Progress, Holds
<1>4. DOMAIN built[p] \subseteq DOMAIN ItemsOf(p)
  BY <1>2, <1>3 DEF Holds
<1> QED BY <1>1, <1>2, <1>3, <1>4

\* What a save of a store writes is what was constructed.
LEMMA SavesBuilt ==
  ASSUME TypeInv, NEW p \in Procs, StoreInv(p), NEW x, Saves(p, x), Created(p, x) \/ Patched(p, x),
         Current(p).kind = "store"
  PROVE  x.spec.sources = built[p][pos[p]].spec.sources
<1>1. CASE Created(p, x)
  BY <1>1 DEF Created
<1>2. CASE Patched(p, x)
  <2> DEFINE o == objects[Key(Current(p))]
             b == built[p][pos[p]].spec
  <2>1. o.exists /\ x.spec = [sources |-> o.spec.sources \cup b.sources]
    BY <1>2 DEF Patched, UpdateSpec, CreateBuildpackageSuperset
  <2>2. o.spec.sources \subseteq b.sources
    BY <2>1 DEF StoreInv, Saves, Current, Holds, Saving
  <2> HIDE DEF o, b
  <2>3. x.spec.sources = b.sources
    BY <2>1, <2>2
  <2> QED BY <2>3 DEF b
<1> QED BY <1>1, <1>2

\* So it keeps one reference each, and no other constructed store is about this object.
LEMMA SaveStores ==
  ASSUME TypeInv, NEW p \in Procs, Fresh(p), Accepted(p), StoreInv(p), Writes(p)
  PROVE  StoreInv(p)'
<1> DEFINE k == Key(Current(p))
<1>1. PICK x : Saves(p, x) /\ (Created(p, x) \/ Patched(p, x))
  BY SaveForm
<1>2. /\ k \in Keys /\ objects' = [objects EXCEPT ![k] = x] /\ pc[p] = "write" /\ pos[p] \in DOMAIN built[p]
      /\ built' = built /\ ItemsOf(p)' = ItemsOf(p) /\ k[1] = Current(p).kind
  BY <1>1 DEF Saves, ItemsOf, Key
<1>3. objects'[k] = x /\ \A o \in Keys \ {k} : objects'[o] = objects[o]
  BY <1>2 DEF TypeInv, TypeOK
<1>4. Current(p).kind = "store" =>
        x.spec.sources = built[p][pos[p]].spec.sources /\ OneEach(x.spec.sources)
  BY <1>1, <1>2, SavesBuilt DEF StoreInv, Current, Holds, Saving
<1>5. OneReferenceEach'
  <2>1. ASSUME NEW o \in Keys, o[1] = "store", objects'[o].exists PROVE OneEach(objects'[o].spec.sources)
    <3>1. CASE o = k
      BY <1>2, <1>3, <1>4, <2>1, <3>1
    <3>2. CASE o # k
      BY <1>3, <2>1, <3>2 DEF StoreInv, OneReferenceEach, OneEach
    <3> QED BY <3>1, <3>2
  <2> QED BY <2>1 DEF OneReferenceEach, OneEach
<1>6. ASSUME NEW n \in DOMAIN built[p], ItemsOf(p)[n].kind = "store"
      PROVE  /\ OneEach(built[p][n].spec.sources)
             /\ objects'[Key(ItemsOf(p)[n])].exists =>
                  objects'[Key(ItemsOf(p)[n])].spec.sources \subseteq built[p][n].spec.sources
  <2>1. OneEach(built[p][n].spec.sources)
    BY <1>2, <1>6 DEF StoreInv, Holds, Saving
  <2>2. Key(ItemsOf(p)[n]) \in Keys /\ n \in DOMAIN ItemsOf(p) /\ pos[p] \in DOMAIN ItemsOf(p)
        /\ cmd[p].descriptor \in Descriptors
    BY <1>2, BuiltItems DEF Holds, Saving
  <2>3. CASE Key(ItemsOf(p)[n]) = k
    <3>1. Current(p).kind = "store" /\ Current(p).name = ItemsOf(p)[n].name
      BY <1>6, <2>3 DEF Key
    <3>2. n = pos[p]
      BY <1>2, <1>6, <2>2, <3>1, StoresApart DEF Accepted, ItemsOf, Current
    <3> QED BY <1>3, <1>4, <2>1, <2>3, <3>1, <3>2
  <2>4. CASE Key(ItemsOf(p)[n]) # k
    BY <1>2, <1>3, <1>6, <2>1, <2>2, <2>4 DEF StoreInv, Holds, Saving
  <2> QED BY <2>3, <2>4
<1> QED BY <1>2, <1>5, <1>6 DEF StoreInv

\* A store is constructed from what is in the cluster.
LEMMA MoveStores ==
  ASSUME TypeInv, NEW p \in Procs, StoreInv(p), Moves(p), ~Writes(p)
  PROVE  StoreInv(p)'
<1>1. objects' = objects /\ OneReferenceEach'
  BY NoWrite DEF StoreInv, OneReferenceEach
<1>2. CASE pc'[p] \notin Holds \/ built'[p] = <<>>
  BY <1>1, <1>2 DEF StoreInv
<1>3. CASE pc[p] \in Holds /\ cmd'[p] = cmd[p] /\ built'[p] = built[p]
  <2>1. ItemsOf(p)' = ItemsOf(p)
    BY <1>3 DEF ItemsOf
  <2> QED BY <1>1, <1>3, <2>1 DEF StoreInv
<1>4. ASSUME NEW new, Constructs(p, new) PROVE StoreInv(p)'
  <2> DEFINE item == Current(p)
             o == objects[Key(item)]
  <2>1. /\ pc[p] \in Holds /\ ItemsOf(p)' = ItemsOf(p) /\ built'[p][pos[p]] = new
        /\ DOMAIN built'[p] = DOMAIN built[p] \cup {pos[p]}
        /\ \A n \in DOMAIN built[p] : built'[p][n] = built[p][n]
        /\ item = ItemsOf(p)[pos[p]] /\ Key(item) \in Keys
    <3>1. Len(built[p]) \in Nat
      BY <1>4, LenProperties DEF Constructs, TypeInv, Progress
    <3> QED BY <1>4, <3>1 DEF Constructs, Holds, ItemsOf, Current
  <2>2. ASSUME item.kind = "store"
        PROVE  OneEach(new.spec.sources) /\ (o.exists => o.spec.sources \subseteq new.spec.sources)
    <3> DEFINE old == IF o.exists THEN o.spec.sources ELSE {}
               added == Relocated(dest[p], ImagesOf({item}))
    <3>1. new.spec = [sources |-> AddToStore(old, added)]
      BY <1>4, <2>2 DEF Constructs, MakeSpec
    <3>2. OneEach(old)
      <4>1. CASE o.exists
        <5>1. Key(item)[1] = "store"
          BY <2>2 DEF Key
        <5>2. \A r, s \in o.spec.sources : r[2] = s[2] => r = s
          BY <2>1, <4>1, <5>1 DEF StoreInv, OneReferenceEach
        <5> QED BY <4>1, <5>2 DEF OneEach
      <4>2. CASE ~o.exists
        BY <4>2 DEF OneEach
      <4> QED BY <4>1, <4>2
    <3>3. OneEach(AddToStore(old, added))
      BY <3>2, AddsOneEach
    <3>4. old \subseteq AddToStore(old, added)
      BY DEF AddToStore
    <3>5. o.exists => old = o.spec.sources
      OBVIOUS
    <3> HIDE DEF old, added, o
    <3> QED BY <3>1, <3>3, <3>4, <3>5
  <2> HIDE DEF item, o
  <2>3. ASSUME NEW n \in DOMAIN built'[p], ItemsOf(p)[n].kind = "store"
        PROVE  /\ OneEach(built'[p][n].spec.sources)
               /\ objects[Key(ItemsOf(p)[n])].exists =>
                    objects[Key(ItemsOf(p)[n])].spec.sources \subseteq built'[p][n].spec.sources
    <3>1. CASE n \in DOMAIN built[p]
      BY <2>1, <2>3, <3>1 DEF StoreInv
    <3>2. CASE n = pos[p]
      BY <2>1, <2>2, <2>3, <3>2 DEF o
    <3> QED BY <2>1, <2>3, <3>1, <3>2
  <2> QED BY <1>1, <2>1, <2>3 DEF StoreInv
<1> QED BY <1>2, <1>3, <1>4, HoldsForm

\* Nobody else adds to a store.
LEMMA ClusterStores ==
  ASSUME TypeInv, NEW p \in Procs, StoreInv(p), Elsewhere
  PROVE  StoreInv(p)'
<1>1. /\ UNCHANGED <<registry, pc, cmd, dest, pos, shown, built, base, want, gens>>
      /\ \A o \in Keys : \/ objects'[o] = objects[o]
                         \/ o \in Deletable /\ objects'[o] = NoObject
                         \/ Reported(o)
  BY ClusterForm
<1>2. \A o \in Keys : objects'[o].exists => objects[o].exists /\ objects'[o].spec = objects[o].spec
  BY <1>1 DEF Reported, NoObject
<1>3. ItemsOf(p)' = ItemsOf(p)
  BY <1>1 DEF ItemsOf
<1>4. pc[p] \in Holds => \A n \in DOMAIN built[p] : Key(ItemsOf(p)[n]) \in Keys
  BY BuiltItems
<1> QED BY <1>1, <1>2, <1>3, <1>4 DEF StoreInv, OneReferenceEach

\* The invariant of the stores.
LEMMA StoreInvariant ==
  ASSUME NEW p, Procs = {p}
  PROVE  Spec => []StoreInv(p)
<1>1. Init => StoreInv(p)
  <2>1. ASSUME Init PROVE pc[p] = "idle" /\ \A o \in Keys : ~objects[o].exists
    BY <2>1 DEF Init, NoObject
  <2> QED BY <2>1 DEF StoreInv, OneReferenceEach, Holds, Saving
<1>2. TypeInv /\ SequentialInv(p) /\ Accepted(p) /\ StoreInv(p) /\ [Next]_vars => StoreInv(p)'
  BY SaveStores, MoveStores, ClusterStores, OneProcess DEF SequentialInv
<1> QED BY <1>1, <1>2, TypeInvariant, SequentialInvariant, AcceptedInvariant, PTL DEF Spec

\* If imports do not overlap, a store knows every buildpackage under one reference, whatever
\* repositories they were imported into and whatever stops the imports or deletes the
\* stores: what createBuildpackageSuperset compares by reference was compared by digest
\* before (AddToStore), with nothing in between.
THEOREM OneReferenceEachCorrect ==
  ASSUME NEW p, Procs = {p}
  PROVE  Spec => []OneReferenceEach
<1>1. StoreInv(p) => OneReferenceEach
  BY DEF StoreInv
<1> QED BY <1>1, StoreInvariant, PTL
-----------------------------------------------------------------------------
(* What was asked for                                                      *)

\* A spec is what an item of the plan asks for.
Describes(p, n, spec) ==
  LET item == ItemsOf(p)[n] IN
  IF item.kind = "store" THEN ImagesOf({item}) \subseteq DigestsOf(spec.sources)
  ELSE spec = MakeSpec(item, dest[p], NoObject)

\* Every factory makes what its item asks for.
MadeInv(p) == pc[p] \in Holds => \A n \in DOMAIN built[p] : Describes(p, n, built[p][n].spec)

\* A store that is added to has the images that were added.
LEMMA AddsAll ==
  ASSUME NEW sources, NEW dst, NEW images
  PROVE  images \subseteq DigestsOf(AddToStore(sources, Relocated(dst, images)))
<1>1. ASSUME NEW i \in images
      PROVE  \E r \in AddToStore(sources, Relocated(dst, images)) : r[2] = i
  <2>1. <<dst, i>> \in Relocated(dst, images) /\ <<dst, i>>[2] = i
    BY DEF Relocated
  <2>2. CASE i \in DigestsOf(sources)
    BY <2>2 DEF DigestsOf, AddToStore
  <2>3. CASE i \notin DigestsOf(sources)
    BY <2>1, <2>3 DEF AddToStore
  <2> QED BY <2>2, <2>3
<1> QED BY <1>1 DEF DigestsOf

\* What was constructed is what was asked for.
LEMMA MadeInvariant ==
  ASSUME NEW p, Procs = {p}
  PROVE  Spec => []MadeInv(p)
<1>1. Init => MadeInv(p)
  <2>1. ASSUME Init PROVE pc[p] = "idle"
    BY <2>1 DEF Init
  <2> QED BY <2>1 DEF MadeInv, Holds, Saving
<1>2. TypeInv /\ SequentialInv(p) /\ MadeInv(p) /\ [Next]_vars => MadeInv(p)'
  <2> SUFFICES ASSUME TypeInv, SequentialInv(p), MadeInv(p), [Next]_vars PROVE MadeInv(p)'
    OBVIOUS
  <2>1. ASSUME cmd'[p] = cmd[p], dest'[p] = dest[p], built'[p] = built[p], pc[p] \in Holds PROVE MadeInv(p)'
    <3>1. ItemsOf(p)' = ItemsOf(p)
      BY <2>1 DEF ItemsOf
    <3> QED BY <2>1, <3>1 DEF MadeInv, Describes
  <2>2. CASE Writes(p)
    <3>1. PICK x : Saves(p, x)
      BY <2>2, SaveForm DEF SequentialInv
    <3> QED BY <2>1, <3>1 DEF Saves, Holds, Saving
  <2>3. CASE Moves(p) /\ ~Writes(p) /\ (pc'[p] \notin Holds \/ built'[p] = <<>>)
    BY <2>3 DEF MadeInv
  <2>4. ASSUME NEW new, Constructs(p, new) PROVE MadeInv(p)'
    <3> DEFINE item == Current(p)
    <3>1. /\ pc[p] \in Holds /\ ItemsOf(p)' = ItemsOf(p) /\ built'[p][pos[p]] = new /\ dest'[p] = dest[p]
          /\ DOMAIN built'[p] = DOMAIN built[p] \cup {pos[p]}
          /\ \A n \in DOMAIN built[p] : built'[p][n] = built[p][n]
          /\ item = ItemsOf(p)[pos[p]]
      <4>1. Len(built[p]) \in Nat
        BY <2>4, LenProperties DEF Constructs, TypeInv, Progress
      <4> QED BY <2>4, <4>1 DEF Constructs, Holds, ItemsOf, Current
    <3>2. Describes(p, pos[p], new.spec)
      <4>1. CASE item.kind = "store"
        <5>1. PICK old : new.spec = [sources |-> AddToStore(old, Relocated(dest[p], ImagesOf({item})))]
          BY <2>4, <4>1 DEF Constructs, MakeSpec
        <5>2. new.spec.sources = AddToStore(old, Relocated(dest[p], ImagesOf({item})))
          BY <5>1
        <5>3. ImagesOf({item}) \subseteq DigestsOf(new.spec.sources)
          BY <5>2, AddsAll
        <5> QED BY <3>1, <4>1, <5>3 DEF Describes
      <4>2. CASE item.kind # "store"
        BY <2>4, <3>1, <4>2 DEF Constructs, Describes
      <4> QED BY <4>1, <4>2
    <3>3. ASSUME NEW n \in DOMAIN built'[p] PROVE Describes(p, n, built'[p][n].spec)
      BY <3>1, <3>2, <3>3 DEF MadeInv
    <3>4. ASSUME NEW n \in DOMAIN built'[p] PROVE Describes(p, n, built[p][n].spec)'
      BY <3>1, <3>3 DEF Describes
    <3> QED BY <3>4 DEF MadeInv
  <2>5. CASE Elsewhere
    <3>1. cmd' = cmd /\ dest' = dest /\ built' = built /\ pc' = pc
      BY <2>5, ClusterForm
    <3> QED BY <2>1, <3>1 DEF MadeInv
  <2> QED BY <2>1, <2>2, <2>3, <2>4, <2>5, HoldsForm, OneProcess
<1> QED BY <1>1, <1>2, TypeInvariant, SequentialInvariant, PTL DEF Spec

\* An entry of the descriptor may have the name of the copy of a default: ValidateDescriptor
\* does not look.  Only then does a plan ask for one object twice.
IsTaken(items, default, as) == default \in NamesOf(items) /\ as \in NamesOf(items)
CopiesApart(d) ==
  /\ ~IsTaken(d.lifecycles, d.defaultLifecycle, LifecycleName)
  /\ ~IsTaken(d.stacks, d.defaultStack, "default")
  /\ ~IsTaken(d.builders, d.defaultBuilder, "default")

\* A copy with a name of its own keeps names distinct.
LEMMA WithDefaultDistinct ==
  ASSUME NEW S, NEW items \in Seq(S), NEW default, NEW as,
         \A item \in S : [item EXCEPT !.name = as].name = as,
         NamesDistinct(items), ~IsTaken(items, default, as)
  PROVE  NamesDistinct(WithDefault(items, default, as))
<1>1. CASE default \notin NamesOf(items)
  BY <1>1 DEF WithDefault
<1>2. CASE default \in NamesOf(items)
  <2> DEFINE j == CHOOSE k \in DOMAIN items : items[k].name = default
             copy == [items[j] EXCEPT !.name = as]
             all == Append(items, copy)
  <2>1. j \in DOMAIN items
    BY <1>2 DEF NamesOf
  <2>2. copy.name = as /\ WithDefault(items, default, as) = all
    BY <1>2, <2>1, LenProperties DEF WithDefault
  <2> HIDE DEF j, copy
  <2>3. items \in Seq(S \cup {copy}) /\ copy \in S \cup {copy}
    BY SeqMonotonic
  <2>4. /\ Len(items) \in Nat /\ DOMAIN items = 1..Len(items)
        /\ all \in Seq(S \cup {copy}) /\ Len(all) = Len(items) + 1
        /\ \A k \in 1..Len(items) : all[k] = items[k]
        /\ all[Len(items) + 1] = copy
    BY <2>3, AppendProperties, LenProperties
  <2>5. DOMAIN all = 1..(Len(items) + 1)
    BY <2>4, LenProperties
  <2> HIDE DEF all
  <2>6. \A k \in DOMAIN items : items[k].name # as
    BY <1>2 DEF IsTaken, NamesOf
  <2>7. ASSUME NEW m \in DOMAIN all, NEW n \in DOMAIN all, all[m].name = all[n].name PROVE m = n
    <3>1. CASE m \in DOMAIN items /\ n \in DOMAIN items
      BY <2>4, <2>7, <3>1 DEF NamesDistinct
    <3>2. CASE m \in DOMAIN items /\ n \notin DOMAIN items
      <4>1. n = Len(items) + 1
        BY <2>4, <2>5, <3>2
      <4>2. all[n] = copy
        BY <2>4, <4>1
      <4>3. all[m].name # as
        BY <2>4, <2>6, <3>2
      <4> QED BY <2>2, <2>7, <4>2, <4>3
    <3>3. CASE m \notin DOMAIN items /\ n \in DOMAIN items
      <4>1. m = Len(items) + 1
        BY <2>4, <2>5, <3>3
      <4>2. all[m] = copy
        BY <2>4, <4>1
      <4>3. all[n].name # as
        BY <2>4, <2>6, <3>3
      <4> QED BY <2>2, <2>7, <4>2, <4>3
    <3>4. CASE m \notin DOMAIN items /\ n \notin DOMAIN items
      BY <2>4, <2>5, <3>4
    <3> QED BY <3>1, <3>2, <3>3, <3>4
  <2> QED BY <2>2, <2>7 DEF NamesDistinct
<1> QED BY <1>1, <1>2

OfKinds(kinds) == {item \in PlanItem : item.kind \in kinds}
KeysDistinct(items) == \A m, n \in DOMAIN items : Key(items[m]) = Key(items[n]) => m = n

\* Items of other kinds are other objects.
LEMMA KindsApart ==
  ASSUME NEW A, NEW B, A \cap B = {}, NEW s \in Seq(OfKinds(A)), NEW t \in Seq(OfKinds(B)),
         KeysDistinct(s), KeysDistinct(t)
  PROVE  s \o t \in Seq(OfKinds(A \cup B)) /\ KeysDistinct(s \o t)
<1> DEFINE u == s \o t
           S == OfKinds(A \cup B)
<1>1. OfKinds(A) \subseteq S /\ OfKinds(B) \subseteq S
  BY DEF OfKinds
<1>2. s \in Seq(S) /\ t \in Seq(S)
  BY <1>1, SeqMonotonic
<1> HIDE DEF S
<1>3. /\ u \in Seq(S) /\ Len(u) = Len(s) + Len(t) /\ Len(s) \in Nat /\ Len(t) \in Nat
      /\ DOMAIN s = 1..Len(s) /\ DOMAIN t = 1..Len(t) /\ DOMAIN u = 1..Len(u)
      /\ \A k \in 1..(Len(s) + Len(t)) : u[k] = IF k <= Len(s) THEN s[k] ELSE t[k - Len(s)]
  BY <1>2, ConcatProperties, LenProperties
<1> HIDE DEF u
<1>4. \A k \in DOMAIN s : s[k].kind \in A
  BY LenProperties DEF OfKinds
<1>5. \A k \in DOMAIN t : t[k].kind \in B
  BY LenProperties DEF OfKinds
<1>6. ASSUME NEW m \in DOMAIN u, NEW n \in DOMAIN u, Key(u[m]) = Key(u[n]) PROVE m = n
  <2>0. u[m].kind = u[n].kind
    BY <1>6 DEF Key
  <2>1. \A k \in DOMAIN u : \/ k \in DOMAIN s /\ u[k] = s[k]
                            \/ ~(k <= Len(s)) /\ k - Len(s) \in DOMAIN t /\ u[k] = t[k - Len(s)]
    BY <1>3
  <2>2. CASE m \in DOMAIN s /\ u[m] = s[m] /\ n \in DOMAIN s /\ u[n] = s[n]
    BY <1>6, <2>2 DEF KeysDistinct
  <2>3. CASE /\ m - Len(s) \in DOMAIN t /\ u[m] = t[m - Len(s)]
             /\ n - Len(s) \in DOMAIN t /\ u[n] = t[n - Len(s)]
    <3>1. m - Len(s) = n - Len(s)
      BY <1>6, <2>3 DEF KeysDistinct
    <3> QED BY <1>3, <3>1
  <2> QED BY <1>4, <1>5, <2>0, <2>1, <2>2, <2>3
<1> QED BY <1>3, <1>6 DEF KeysDistinct, u, S

\* A plan asks for one object twice only if an entry has the name of the copy of a default.
LEMMA PlansAreDistinct ==
  ASSUME NEW d \in Descriptors, ValidateDescriptor(d), CopiesApart(d)
  PROVE  KeysDistinct(Plan(d))
<1>1. /\ Plan(d) = LifecycleItems(d) \o BuildpackItems(d) \o StoreItems(d) \o StackItems(d) \o BuilderItems(d)
      /\ LifecycleItems(d) \in Seq(OfKinds({"lifecycle"})) /\ BuildpackItems(d) \in Seq(OfKinds({"buildpack"}))
      /\ StoreItems(d) \in Seq(OfKinds({"store"})) /\ StackItems(d) \in Seq(OfKinds({"stack"}))
      /\ BuilderItems(d) \in Seq(OfKinds({"builder"}))
  <2>1. \A kind : OfKind(kind) = OfKinds({kind})
    BY DEF OfKind, OfKinds
  <2> QED BY <2>1, PlanParts
<1>2. /\ d.lifecycles \in Seq(ImageItem) /\ d.stacks \in Seq(StackItem) /\ d.builders \in Seq(BuilderItem)
  BY DEF Descriptors
<1>3. NamesDistinct(GetClusterLifecycles(d))
  <2>1. \A item \in ImageItem : [item EXCEPT !.name = LifecycleName].name = LifecycleName
    BY DEF ImageItem
  <2> QED BY <1>2, <2>1, WithDefaultDistinct DEF GetClusterLifecycles, CopiesApart, ValidateDescriptor
<1>4. NamesDistinct(GetClusterStacks(d))
  <2>1. \A item \in StackItem : [item EXCEPT !.name = "default"].name = "default"
    BY DEF StackItem
  <2> QED BY <1>2, <2>1, WithDefaultDistinct DEF GetClusterStacks, CopiesApart, ValidateDescriptor
<1>5. NamesDistinct(GetClusterBuilders(d))
  <2>1. \A item \in BuilderItem : [item EXCEPT !.name = "default"].name = "default"
    BY DEF BuilderItem
  <2> QED BY <1>2, <2>1, WithDefaultDistinct DEF GetClusterBuilders, CopiesApart, ValidateDescriptor
<1>6. /\ KeysDistinct(LifecycleItems(d)) /\ KeysDistinct(BuildpackItems(d)) /\ KeysDistinct(StoreItems(d))
      /\ KeysDistinct(StackItems(d)) /\ KeysDistinct(BuilderItems(d))
  <2>1. KeysDistinct(LifecycleItems(d))
    BY <1>3 DEF KeysDistinct, NamesDistinct, LifecycleItems, Item, Key
  <2>2. KeysDistinct(BuildpackItems(d))
    BY DEF ValidateDescriptor, KeysDistinct, NamesDistinct, BuildpackItems, Item, Key
  <2>3. KeysDistinct(StoreItems(d))
    BY DEF ValidateDescriptor, KeysDistinct, NamesDistinct, StoreItems, Item, Key
  <2>4. KeysDistinct(StackItems(d))
    BY <1>4 DEF KeysDistinct, NamesDistinct, StackItems, Item, Key
  <2>5. KeysDistinct(BuilderItems(d))
    BY <1>5 DEF KeysDistinct, NamesDistinct, BuilderItems, Item, Key
  <2> QED BY <2>1, <2>2, <2>3, <2>4, <2>5
<1>7. DEFINE a == LifecycleItems(d) \o BuildpackItems(d)
             b == a \o StoreItems(d)
             c == b \o StackItems(d)
<1>8. a \in Seq(OfKinds({"lifecycle"} \cup {"buildpack"})) /\ KeysDistinct(a)
  BY <1>1, <1>6, KindsApart
<1> HIDE DEF a
<1>9. b \in Seq(OfKinds({"lifecycle"} \cup {"buildpack"} \cup {"store"})) /\ KeysDistinct(b)
  <2>1. ({"lifecycle"} \cup {"buildpack"}) \cap {"store"} = {}
    OBVIOUS
  <2> QED BY <1>1, <1>6, <1>8, <2>1, KindsApart
<1> HIDE DEF b
<1>10. c \in Seq(OfKinds({"lifecycle"} \cup {"buildpack"} \cup {"store"} \cup {"stack"})) /\ KeysDistinct(c)
  <2>1. ({"lifecycle"} \cup {"buildpack"} \cup {"store"}) \cap {"stack"} = {}
    OBVIOUS
  <2> QED BY <1>1, <1>6, <1>9, <2>1, KindsApart
<1> HIDE DEF c
<1>11. KeysDistinct(c \o BuilderItems(d))
  <2>1. ({"lifecycle"} \cup {"buildpack"} \cup {"store"} \cup {"stack"}) \cap {"builder"} = {}
    OBVIOUS
  <2> QED BY <1>1, <1>6, <1>10, <2>1, KindsApart
<1> QED BY <1>1, <1>11 DEF a, b, c

\* No accepted descriptor asks for an object twice.
PlansDistinct ==
  \A c \in Commands : ValidateDescriptor(c.descriptor) => KeysDistinct(Plan(c.descriptor))

\* So it is a hypothesis about the names of entries.
LEMMA DistinctByNames ==
  ASSUME \A k \in Commands : ValidateDescriptor(k.descriptor) => CopiesApart(k.descriptor)
  PROVE  PlansDistinct
<1>1. ASSUME NEW k \in Commands, ValidateDescriptor(k.descriptor) PROVE KeysDistinct(Plan(k.descriptor))
  <2>1. k.descriptor \in Descriptors
    BY ImportAssumption
  <2> QED BY <1>1, <2>1, PlansAreDistinct
<1> QED BY <1>1 DEF PlansDistinct, KeysDistinct

\* The items that were written.
IsWritten(p, n) == (pc[p] \in Saving /\ n < pos[p]) \/ (pc[p] = "wait" /\ n = pos[p]) \/ Succeeded(p)

DescribedInv(p) ==
  pc[p] \in Saving \cup {"ok"} =>
    \A n \in DOMAIN ItemsOf(p) : IsWritten(p, n) =>
      /\ objects[Key(ItemsOf(p)[n])].exists
      /\ Describes(p, n, objects[Key(ItemsOf(p)[n])].spec)

\* A save writes what was constructed, and no other item is about the same object.
LEMMA SaveDescribes ==
  ASSUME PlansDistinct, TypeInv, NEW p \in Procs, Fresh(p), Accepted(p), MadeInv(p), DescribedInv(p), Writes(p)
  PROVE  DescribedInv(p)'
<1> DEFINE k == Key(Current(p))
<1>1. PICK x : Saves(p, x) /\ (Created(p, x) \/ Patched(p, x))
  BY SaveForm
<1>2. /\ k \in Keys /\ objects' = [objects EXCEPT ![k] = x] /\ pc[p] = "write" /\ pc'[p] = "wait"
      /\ pos[p] \in DOMAIN built[p] /\ pos' = pos /\ x.exists
      /\ built' = built /\ dest' = dest /\ cmd' = cmd
  BY <1>1 DEF Saves, TypeInv, TypeOK
<1>3. objects'[k] = x /\ \A o \in Keys \ {k} : objects'[o] = objects[o]
  BY <1>2 DEF TypeInv, TypeOK
<1>4. /\ cmd[p] \in Commands /\ ValidateDescriptor(cmd[p].descriptor)
      /\ pos[p] \in DOMAIN ItemsOf(p) /\ \A n \in DOMAIN ItemsOf(p) : Key(ItemsOf(p)[n]) \in Keys
  BY <1>2, BuiltItems, ItemsTyped DEF Accepted, Holds, Saving
<1>5. Describes(p, pos[p], x.spec)
  <2> DEFINE b == built[p][pos[p]].spec
  <2>1. Describes(p, pos[p], b)
    BY <1>2 DEF MadeInv, Holds, Saving
  <2>2. CASE x.spec = b
    BY <2>1, <2>2
  <2>3. CASE Patched(p, x) /\ Current(p).kind = "store"
    <3>1. PICK old : x.spec = [sources |-> old \cup b.sources]
      BY <2>3 DEF Patched, UpdateSpec, CreateBuildpackageSuperset
    <3>2. DigestsOf(b.sources) \subseteq DigestsOf(x.spec.sources)
      <4> HIDE DEF b
      <4> QED BY <3>1 DEF DigestsOf
    <3> QED BY <2>1, <2>3, <3>2 DEF Describes, Current
  <2> QED BY <1>1, <2>2, <2>3 DEF Created, Patched, UpdateSpec
<1>6. \A n \in DOMAIN ItemsOf(p) : Key(ItemsOf(p)[n]) = k => n = pos[p]
  BY <1>4 DEF PlansDistinct, KeysDistinct, ItemsOf, Current
<1>7. ASSUME NEW n \in DOMAIN ItemsOf(p), n < pos[p] \/ n = pos[p]
      PROVE  objects'[Key(ItemsOf(p)[n])].exists /\ Describes(p, n, objects'[Key(ItemsOf(p)[n])].spec)
  <2>1. CASE n = pos[p]
    BY <1>2, <1>3, <1>5, <2>1 DEF Current
  <2>2. CASE n # pos[p]
    <3>1. IsWritten(p, n)
      BY <1>2, <1>7, <2>2 DEF IsWritten, Saving
    <3> QED BY <1>2, <1>3, <1>4, <1>6, <2>2, <3>1 DEF DescribedInv, Saving
  <2> QED BY <2>1, <2>2
<1>8. ItemsOf(p)' = ItemsOf(p) /\ (\A n : IsWritten(p, n)' => n < pos[p] \/ n = pos[p])
  BY <1>2 DEF ItemsOf, IsWritten, Succeeded
<1> QED BY <1>2, <1>7, <1>8 DEF DescribedInv, Describes

\* An item that is left behind was written.
LEMMA MoveDescribes ==
  ASSUME TypeInv, NEW p \in Procs, DescribedInv(p), Moves(p), ~Writes(p)
  PROVE  DescribedInv(p)'
<1>1. objects' = objects
  BY NoWrite
<1>2. ASSUME cmd'[p] = cmd[p], dest'[p] = dest[p], pc[p] \in Saving \cup {"ok"},
             \A n \in DOMAIN ItemsOf(p) : IsWritten(p, n)' => IsWritten(p, n)
      PROVE  DescribedInv(p)'
  <2>1. ItemsOf(p)' = ItemsOf(p)
    BY <1>2 DEF ItemsOf
  <2>2. \A n, spec : Describes(p, n, spec) = (LET item == ItemsOf(p)[n] IN
           IF item.kind = "store" THEN ImagesOf({item}) \subseteq DigestsOf(spec.sources)
           ELSE spec = MakeSpec(item, dest'[p], NoObject))
    BY <1>2 DEF Describes
  <2> QED BY <1>1, <1>2, <2>1, <2>2 DEF DescribedInv, Describes
<1>3. CASE pc'[p] \in Saving
  <2>1. /\ Keeps(p)
        /\ \/ pc[p] = "relocate" /\ pc'[p] = "get" /\ pos'[p] = 1
           \/ pc[p] = "get" /\ pc'[p] = "write" /\ pos'[p] = pos[p] /\ gens'[p] = gens[p]
           \/ Resolves(p)
    BY <1>3, SavingForm
  <2>2. ~Succeeded(p)'
    BY <1>3 DEF Succeeded, Saving
  <2>3. CASE pc[p] = "relocate" /\ pc'[p] = "get" /\ pos'[p] = 1
    <3>1. DOMAIN ItemsOf(p) = 1..Len(ItemsOf(p)) /\ ItemsOf(p)' = ItemsOf(p)
      BY <2>1, <2>3, ItemsTyped DEF TypeInv, Progress, Keeps, ItemsOf
    <3>2. \A n \in DOMAIN ItemsOf(p) : ~(n < 1)
      BY <3>1
    <3> QED BY <2>2, <2>3, <3>1, <3>2 DEF DescribedInv, IsWritten
  <2>4. CASE pc[p] = "get" /\ pc'[p] = "write" /\ pos'[p] = pos[p]
    BY <1>2, <2>1, <2>2, <2>4 DEF IsWritten, Saving, Keeps
  <2>5. CASE Resolves(p)
    <3>1. DOMAIN ItemsOf(p) = 1..Len(ItemsOf(p)) /\ pos[p] \in Nat
      BY <2>5, ItemsTyped DEF TypeInv, TypeOK, Progress, Resolves
    <3>2. \A n \in DOMAIN ItemsOf(p) : n < pos[p] + 1 => n < pos[p] \/ n = pos[p]
      BY <3>1
    <3> QED BY <1>2, <2>1, <2>2, <2>5, <3>2 DEF IsWritten, Saving, Keeps, Resolves
  <2> QED BY <2>1, <2>3, <2>4, <2>5
<1>4. CASE Succeeded(p)'
  <2>1. /\ pc[p] = "get" /\ pos[p] \notin DOMAIN ItemsOf(p)
        /\ cmd' = cmd /\ dest' = dest
    BY <1>4, SuccessForm DEF locals
  <2>2. /\ DOMAIN ItemsOf(p) = 1..Len(ItemsOf(p)) /\ Len(ItemsOf(p)) \in Nat /\ pos[p] \in Nat \ {0}
    BY <2>1, ItemsTyped DEF TypeInv, TypeOK, Progress
  <2>3. \A n \in DOMAIN ItemsOf(p) : n < pos[p]
    BY <2>1, <2>2
  <2> QED BY <1>2, <2>1, <2>3 DEF IsWritten, Saving
<1>5. CASE pc'[p] \notin Saving /\ ~Succeeded(p)'
  BY <1>5 DEF DescribedInv, IsWritten, Saving
<1> QED BY <1>3, <1>4, <1>5

\* The invariant of what was asked for.
LEMMA DescribedInvariant ==
  ASSUME NEW p, Procs = {p}, PlansDistinct, Deletable = {}
  PROVE  Spec => []DescribedInv(p)
<1>1. Init => DescribedInv(p)
  <2>1. ASSUME Init PROVE pc[p] = "idle"
    BY <2>1 DEF Init
  <2> QED BY <2>1 DEF DescribedInv, Saving
<1>2. TypeInv /\ SequentialInv(p) /\ Accepted(p) /\ MadeInv(p) /\ DescribedInv(p) /\ [Next]_vars => DescribedInv(p)'
  <2>1. ASSUME TypeInv, DescribedInv(p), Elsewhere PROVE DescribedInv(p)'
    <3>1. /\ UNCHANGED <<registry, pc, cmd, dest, pos, shown, built, base, want, gens>>
          /\ \A o \in Keys : objects[o].exists => objects'[o].exists /\ objects'[o].spec = objects[o].spec
      BY <2>1, ClusterForm DEF Reported
    <3>2. ItemsOf(p)' = ItemsOf(p) /\ (\A n : IsWritten(p, n)' = IsWritten(p, n))
      BY <3>1 DEF ItemsOf, IsWritten, Succeeded, IsDryRun
    <3>3. pc[p] \in Saving \cup {"ok"} => \A n \in DOMAIN ItemsOf(p) : Key(ItemsOf(p)[n]) \in Keys
      BY <2>1, ItemsTyped DEF TypeInv, Progress, Saving
    <3> QED BY <2>1, <3>1, <3>2, <3>3 DEF DescribedInv, Describes
  <2> QED BY <2>1, SaveDescribes, MoveDescribes, OneProcess DEF SequentialInv
<1> QED BY <1>1, <1>2, TypeInvariant, SequentialInvariant, AcceptedInvariant, MadeInvariant, PTL DEF Spec

\* If imports do not overlap and nothing is deleted, everything a successful import was
\* asked for is in the cluster as its descriptor says, whatever was there before: for
\* every descriptor that does not ask for one object twice.
THEOREM ImportedAsDescribedCorrect ==
  ASSUME NEW p, Procs = {p}, PlansDistinct, Deletable = {}
  PROVE  Spec => []ImportedAsDescribed
<1>1. TypeInv /\ DescribedInv(p) => ImportedAsDescribed
  <2> SUFFICES ASSUME TypeInv, DescribedInv(p), Succeeded(p), NEW item \in PlanItems(p)
               PROVE  /\ objects[Key(item)].exists
                      /\ IF item.kind = "store" THEN ImagesOf({item}) \subseteq DigestsOf(objects[Key(item)].spec.sources)
                         ELSE objects[Key(item)].spec = MakeSpec(item, dest[p], NoObject)
    BY DEF ImportedAsDescribed
  <2>1. PICK n \in DOMAIN ItemsOf(p) : item = ItemsOf(p)[n]
    BY DEF PlanItems
  <2>2. objects[Key(item)].exists /\ Describes(p, n, objects[Key(item)].spec)
    BY <2>1 DEF DescribedInv, IsWritten, Succeeded
  <2> QED BY <2>1, <2>2 DEF Describes
<1> QED BY <1>1, TypeInvariant, DescribedInvariant, PTL
-----------------------------------------------------------------------------
(* What a builder was made of                                              *)

Dependencies == {"stack", "store"}

\* Stacks and stores stay.
NoDependencyDeleted == \A o \in Deletable : o[1] \notin Dependencies

\* What a builder reports to have seen was there, in the generation it says; what it
\* reports of its own generation is about the stack and the store it names.
SeenOf(o, d) ==
  LET seen == objects[o].status[d]
      k == <<d, seen.name>>
  IN  seen # Unseen =>
        /\ k \in Keys /\ objects[k].exists
        /\ seen.gen <= objects[k].gen
        /\ seen.gen = objects[k].gen => seen.spec = objects[k].spec
        /\ objects[o].status.observed = objects[o].gen => seen.name = objects[o].spec[d]
ReadyOf(o) ==
  objects[o].status.ready /\ objects[o].status.observed = objects[o].gen =>
    /\ objects[o].status.stack # Unseen
    /\ objects[o].status.store # Unseen \/ objects[o].spec.store = NoName
SeenInv ==
  \A o \in Keys : o[1] = "builder" /\ objects[o].exists =>
    ReadyOf(o) /\ \A d \in Dependencies : SeenOf(o, d)

\* What is seen of an object is what is there.
LEMMA SeenIsThere ==
  ASSUME TypeInv, NEW k \in Keys, objects[k].exists
  PROVE  Seen(k).name = k[2] /\ Seen(k).gen = objects[k].gen /\ Seen(k).spec = objects[k].spec
BY DEF Seen

\* An object that nobody has seen is there.
LEMMA UnseenIsNothing ==
  ASSUME NEW k, Seen(k) # Unseen
  PROVE  k \in Keys /\ objects[k].exists
BY DEF Seen

\* A write leaves older generations to what was seen before.
LEMMA SaveSeen ==
  ASSUME TypeInv, NEW p \in Procs, Fresh(p), WaitInv(p), SeenInv, Writes(p)
  PROVE  SeenInv'
<1> DEFINE k == Key(Current(p))
<1>1. PICK x : Saves(p, x) /\ (Created(p, x) \/ Patched(p, x))
  BY SaveForm
<1>2. k \in Keys /\ objects' = [objects EXCEPT ![k] = x] /\ x.exists
  BY <1>1 DEF Saves
<1>3. objects'[k] = x /\ \A o \in Keys \ {k} : objects'[o] = objects[o]
  BY <1>2 DEF TypeInv, TypeOK
<1>4. objects[k].gen \in Nat /\ objects[k].status.observed \in Nat /\ objects[k].status.observed <= objects[k].gen
  BY <1>2, ObjectNats DEF WaitInv
<1>5. \/ ~objects[k].exists /\ x.gen = 1 /\ x.status = NoStatus
      \/ objects[k].exists /\ x.status = objects[k].status /\ x.spec = objects[k].spec /\ x.gen = objects[k].gen
      \/ objects[k].exists /\ x.status = objects[k].status /\ x.gen = objects[k].gen + 1
  BY <1>1 DEF Created, Patched
<1> HIDE DEF k
<1>6. NoStatus.stack = Unseen /\ NoStatus.store = Unseen /\ NoStatus["stack"] = Unseen /\ NoStatus["store"] = Unseen
      /\ NoStatus.observed = 0
  BY DEF NoStatus
<1>7. ASSUME NEW o \in Keys, o[1] = "builder", objects'[o].exists,
             NEW d \in Dependencies, objects'[o].status[d] # Unseen
      PROVE  SeenOf(o, d)'
  <2> DEFINE seen == objects'[o].status[d]
             s == <<d, seen.name>>
  <2>1. objects[o].exists /\ objects[o].status[d] = seen
    BY <1>3, <1>5, <1>6, <1>7 DEF Dependencies
  <2>2. /\ s \in Keys /\ objects[s].exists /\ seen.gen <= objects[s].gen
        /\ seen.gen = objects[s].gen => seen.spec = objects[s].spec
        /\ objects[o].status.observed = objects[o].gen => seen.name = objects[o].spec[d]
    BY <1>7, <2>1 DEF SeenInv, SeenOf
  <2>3. seen.gen \in Nat /\ objects[s].gen \in Nat
    <3>1. objects[o].status \in Status
      BY ObjectNats
    <3>2. seen \in SeenBy(d)
      BY <2>1, <3>1 DEF Status, Dependencies
    <3>3. seen.gen \in Nat
      BY <3>2 DEF SeenBy, Unseen
    <3> QED BY <2>2, <3>3, ObjectNats
  <2> HIDE DEF seen, s
  <2>4. /\ objects'[s].exists /\ seen.gen <= objects'[s].gen
        /\ seen.gen = objects'[s].gen => seen.spec = objects'[s].spec
    <3>1. CASE s = k
      BY <1>2, <1>3, <1>5, <2>2, <2>3, <3>1
    <3>2. CASE s # k
      BY <1>3, <2>2, <3>2
    <3> QED BY <3>1, <3>2
  <2>5. objects'[o].status.observed = objects'[o].gen => seen.name = objects'[o].spec[d]
    <3>1. CASE o = k
      BY <1>3, <1>4, <1>5, <2>1, <2>2, <3>1
    <3>2. CASE o # k
      BY <1>3, <2>2, <3>2
    <3> QED BY <3>1, <3>2
  <2> QED BY <2>2, <2>4, <2>5 DEF SeenOf, seen, s
<1>8. ASSUME NEW o \in Keys, o[1] = "builder", objects'[o].exists PROVE ReadyOf(o)'
  <2>1. CASE o = k
    <3>1. CASE objects[k].exists /\ x.status = objects[k].status /\ x.spec = objects[k].spec /\ x.gen = objects[k].gen
      BY <1>3, <1>8, <2>1, <3>1 DEF SeenInv, ReadyOf
    <3>2. CASE x.status.observed # x.gen
      BY <1>3, <2>1, <3>2 DEF ReadyOf
    <3>3. x.gen = 1 /\ x.status = NoStatus => x.status.observed # x.gen
      BY <1>6
    <3>4. x.status = objects[k].status /\ x.gen = objects[k].gen + 1 => x.status.observed # x.gen
      BY <1>4
    <3> QED BY <1>5, <3>1, <3>2, <3>3, <3>4
  <2>2. CASE o # k
    BY <1>3, <1>8, <2>2 DEF SeenInv, ReadyOf
  <2> QED BY <2>1, <2>2
<1>9. ASSUME NEW o \in Keys, NEW d, ~(objects'[o].status[d] # Unseen) PROVE SeenOf(o, d)'
  BY <1>9 DEF SeenOf
<1> QED BY <1>7, <1>8, <1>9 DEF SeenInv

\* A report says what is there now, or what it said last.
LEMMA ClusterSeen ==
  ASSUME NoDependencyDeleted, TypeInv, NEW p \in Procs, WaitInv(p), SeenInv, Elsewhere
  PROVE  SeenInv'
<1>1. \A o \in Keys : \/ objects'[o] = objects[o]
                      \/ o \in Deletable /\ objects'[o] = NoObject
                      \/ Reported(o)
  BY ClusterForm
<1>2. \A o \in Keys : objects'[o].exists =>
        /\ objects[o].exists /\ objects'[o].spec = objects[o].spec /\ objects'[o].gen = objects[o].gen
  BY <1>1 DEF Reported, NoObject
<1>3. \A o \in Keys : o[1] \in Dependencies /\ objects[o].exists => objects'[o].exists
  BY <1>1 DEF Reported, NoDependencyDeleted
<1>4. ASSUME NEW o \in Keys, o[1] = "builder", objects'[o].exists PROVE ReadyOf(o)'
  <2>1. CASE objects'[o] = objects[o]
    BY <1>4, <2>1 DEF SeenInv, ReadyOf
  <2>2. CASE Reported(o)
    BY <1>4, <2>2 DEF Reported, ReadyOf
  <2> QED BY <1>1, <1>4, <2>1, <2>2 DEF NoObject
<1>5. ASSUME NEW o \in Keys, o[1] = "builder", objects'[o].exists,
             NEW d \in Dependencies, objects'[o].status[d] # Unseen
      PROVE  SeenOf(o, d)'
  <2> DEFINE seen == objects'[o].status[d]
             s == <<d, seen.name>>
  <2>1. /\ s \in Keys /\ objects[s].exists /\ seen.gen <= objects[s].gen
        /\ seen.gen = objects[s].gen => seen.spec = objects[s].spec
        /\ objects'[o].status.observed = objects[o].gen => seen.name = objects[o].spec[d]
    <3>1. CASE objects'[o] = objects[o]
      BY <1>5, <3>1 DEF SeenInv, SeenOf
    <3>2. CASE Reported(o) /\ seen = CurrentSeen(o, d)
      <4> DEFINE t == <<d, objects[o].spec[d]>>
      <4>1. seen = Seen(t)
        BY <1>2, <1>5, <3>2 DEF CurrentSeen
      <4>2. t \in Keys /\ objects[t].exists
        BY <1>5, <4>1, UnseenIsNothing
      <4>3. seen.name = objects[o].spec[d] /\ seen.gen = objects[t].gen /\ seen.spec = objects[t].spec
        BY <4>1, <4>2, SeenIsThere
      <4>4. objects[t].gen \in Nat
        BY <4>2, ObjectNats
      <4> HIDE DEF seen
      <4> QED BY <4>2, <4>3, <4>4
    <3>3. CASE Reported(o) /\ seen = LastSeen(o, d)
      <4>1. seen = objects[o].status[d] /\ seen.name = objects[o].spec[d]
        BY <1>2, <1>5, <3>3 DEF LastSeen
      <4>2. SeenOf(o, d)
        BY <1>2, <1>5 DEF SeenInv
      <4> QED BY <1>5, <4>1, <4>2 DEF SeenOf
    <3> QED BY <1>1, <1>5, <3>1, <3>2, <3>3 DEF Reported, NoObject, Dependencies
  <2>2. s[1] = d
    OBVIOUS
  <2> HIDE DEF seen, s
  <2>3. objects'[s].exists /\ objects'[s].spec = objects[s].spec /\ objects'[s].gen = objects[s].gen
    BY <1>2, <1>3, <2>1, <2>2
  <2> QED BY <1>2, <1>5, <2>1, <2>3 DEF SeenOf, seen, s
<1>6. ASSUME NEW o \in Keys, NEW d, ~(objects'[o].status[d] # Unseen) PROVE SeenOf(o, d)'
  BY <1>6 DEF SeenOf
<1> QED BY <1>4, <1>5, <1>6 DEF SeenInv

\* What builders report is true of some generation.
LEMMA SeenInvariant ==
  ASSUME NEW p, Procs = {p}, NoDependencyDeleted
  PROVE  Spec => []SeenInv
<1>1. Init => SeenInv
  BY DEF Init, SeenInv, NoObject
<1>2. TypeInv /\ SequentialInv(p) /\ WaitInv(p) /\ SeenInv /\ [Next]_vars => SeenInv'
  <2>1. ASSUME objects' = objects, SeenInv PROVE SeenInv'
    BY <2>1 DEF SeenInv, SeenOf, ReadyOf
  <2> QED BY <2>1, SaveSeen, NoWrite, ClusterSeen, OneProcess DEF SequentialInv
<1> QED BY <1>1, <1>2, TypeInvariant, SequentialInvariant, WaitInvariant, PTL DEF Spec

\* A builder has the stack and the store its item names, and has seen them as they are.
UpToDate(p, n) ==
  LET item == ItemsOf(p)[n]
      o == objects[Key(item)]
  IN  o.exists => \A d \in Dependencies : InPlan(p, <<d, item[d]>>) =>
        /\ objects[<<d, item[d]>>].exists
        /\ o.spec[d] = item[d]
        /\ o.status[d] = Seen(<<d, item[d]>>)

\* The import knows the generations of what it saved, and its builders are up to date.
RebuiltInv(p) ==
  /\ pc[p] \in Saving =>
       \A n \in DOMAIN ItemsOf(p) : n < pos[p] /\ ItemsOf(p)[n].kind \in Dependencies =>
         /\ objects[Key(ItemsOf(p)[n])].exists
         /\ gens[p][Key(ItemsOf(p)[n])] = objects[Key(ItemsOf(p)[n])].gen
  /\ pc[p] = "wait" /\ Current(p).kind = "builder" /\ objects[Key(Current(p))].exists =>
       \A d \in Dependencies : objects[Key(Current(p))].spec[d] = Current(p)[d]
  /\ pc[p] \in Saving \cup {"ok"} =>
       \A n \in DOMAIN ItemsOf(p) :
         ((pc[p] \in Saving /\ n < pos[p]) \/ Succeeded(p)) /\ ItemsOf(p)[n].kind = "builder" => UpToDate(p, n)

\* The plan of an import that was accepted has each object once, dependencies first.
LEMMA PlanOf ==
  ASSUME PlansDistinct, TypeInv, NEW p \in Procs, Accepted(p), pc[p] \in Saving
  PROVE  /\ \A m, n \in DOMAIN ItemsOf(p) : Key(ItemsOf(p)[m]) = Key(ItemsOf(p)[n]) => m = n
         /\ \A m, n \in DOMAIN ItemsOf(p) :
              ItemsOf(p)[m].kind \in Dependencies /\ ItemsOf(p)[n].kind = "builder" => m < n
         /\ DOMAIN ItemsOf(p) = 1..Len(ItemsOf(p))
         /\ \A n \in DOMAIN ItemsOf(p) : ItemsOf(p)[n] \in PlanItem /\ Key(ItemsOf(p)[n]) \in Keys
<1>1. cmd[p] \in Commands /\ cmd[p].descriptor \in Descriptors /\ ValidateDescriptor(cmd[p].descriptor)
  BY ImportAssumption DEF TypeInv, Progress, Accepted, Saving
<1>2. \A m, n \in DOMAIN ItemsOf(p) : Key(ItemsOf(p)[m]) = Key(ItemsOf(p)[n]) => m = n
  BY <1>1 DEF PlansDistinct, KeysDistinct, ItemsOf
<1>3. ASSUME NEW m \in DOMAIN ItemsOf(p), NEW n \in DOMAIN ItemsOf(p),
             ItemsOf(p)[m].kind \in Dependencies, ItemsOf(p)[n].kind = "builder"
      PROVE  m < n
  BY <1>1, <1>3, BuildersLast DEF ItemsOf, Dependencies
<1> QED BY <1>1, <1>2, <1>3, ItemsTyped

\* A write leaves alone what was saved, and the builders and what they were made of.
LEMMA SaveRebuilds ==
  ASSUME PlansDistinct, TypeInv, NEW p \in Procs, Fresh(p), Accepted(p), MadeInv(p), RebuiltInv(p), Writes(p)
  PROVE  RebuiltInv(p)'
<1> DEFINE k == Key(Current(p))
<1>1. PICK x : Saves(p, x) /\ (Created(p, x) \/ Patched(p, x))
  BY SaveForm
<1>2. /\ k \in Keys /\ objects' = [objects EXCEPT ![k] = x] /\ pc[p] = "write" /\ pc'[p] = "wait"
      /\ pos[p] \in DOMAIN built[p] /\ pos[p] \in DOMAIN ItemsOf(p) /\ pos' = pos /\ cmd' = cmd /\ gens' = gens
  BY <1>1 DEF Saves, TypeInv, TypeOK
<1>3. objects'[k] = x /\ \A o \in Keys \ {k} : objects'[o] = objects[o]
  BY <1>2 DEF TypeInv, TypeOK
<1>4. /\ \A m, n \in DOMAIN ItemsOf(p) : Key(ItemsOf(p)[m]) = Key(ItemsOf(p)[n]) => m = n
      /\ \A m, n \in DOMAIN ItemsOf(p) :
           ItemsOf(p)[m].kind \in Dependencies /\ ItemsOf(p)[n].kind = "builder" => m < n
      /\ DOMAIN ItemsOf(p) = 1..Len(ItemsOf(p))
      /\ \A n \in DOMAIN ItemsOf(p) : Key(ItemsOf(p)[n]) \in Keys
  BY <1>2, PlanOf DEF Saving
<1>5. ASSUME NEW n \in DOMAIN ItemsOf(p), n < pos[p] PROVE Key(ItemsOf(p)[n]) # k
  <2>1. n # pos[p]
    BY <1>2, <1>4, <1>5
  <2> QED BY <1>2, <1>4, <2>1 DEF Current
<1>6. ItemsOf(p)' = ItemsOf(p) /\ Current(p)' = Current(p) /\ (\A o : InPlan(p, o)' = InPlan(p, o)) /\ ~Succeeded(p)'
  BY <1>2 DEF ItemsOf, Current, InPlan, PlanItems, Succeeded
<1>7. \A n \in DOMAIN ItemsOf(p) : n < pos[p] /\ ItemsOf(p)[n].kind \in Dependencies =>
        /\ objects'[Key(ItemsOf(p)[n])].exists
        /\ gens[p][Key(ItemsOf(p)[n])] = objects'[Key(ItemsOf(p)[n])].gen
  BY <1>2, <1>3, <1>4, <1>5 DEF RebuiltInv, Saving
<1>8. ASSUME Current(p).kind = "builder", NEW d \in Dependencies PROVE x.spec[d] = Current(p)[d]
  <2>1. x.spec = built[p][pos[p]].spec
    BY <1>1, <1>8 DEF Created, Patched, UpdateSpec
  <2>2. built[p][pos[p]].spec = [tag |-> dest[p], stack |-> Current(p).stack, store |-> Current(p).store]
    BY <1>2, <1>8 DEF MadeInv, Describes, Current, MakeSpec, Holds, Saving
  <2> QED BY <2>1, <2>2 DEF Dependencies
<1>9. ASSUME NEW n \in DOMAIN ItemsOf(p), n < pos[p], ItemsOf(p)[n].kind = "builder" PROVE UpToDate(p, n)'
  <2> DEFINE item == ItemsOf(p)[n]
  <2>1. objects'[Key(item)] = objects[Key(item)]
    BY <1>3, <1>4, <1>5, <1>9
  <2>2. ASSUME objects[Key(item)].exists, NEW d \in Dependencies, InPlan(p, <<d, item[d]>>)
        PROVE  /\ objects'[<<d, item[d]>>].exists
               /\ objects[Key(item)].spec[d] = item[d]
               /\ objects[Key(item)].status[d] = Seen(<<d, item[d]>>)'
    <3> DEFINE t == <<d, item[d]>>
    <3>1. UpToDate(p, n)
      BY <1>2, <1>9 DEF RebuiltInv, Saving
    <3>2. PICK m \in DOMAIN ItemsOf(p) : Key(ItemsOf(p)[m]) = t
      BY <2>2 DEF InPlan, PlanItems
    <3>3. ItemsOf(p)[m].kind \in Dependencies
      BY <3>2 DEF Key
    <3>4. m < n
      BY <1>4, <1>9, <3>3
    <3>5. t \in Keys /\ t # k
      BY <1>2, <1>4, <1>5, <1>9, <3>2, <3>4
    <3>6. objects'[t] = objects[t]
      BY <1>3, <3>5
    <3>7. Seen(t)' = Seen(t)
      BY <1>6, <3>6 DEF Seen
    <3> QED BY <2>2, <3>1, <3>6, <3>7 DEF UpToDate
  <2> HIDE DEF item
  <2> QED BY <1>6, <2>1, <2>2 DEF UpToDate, item
<1> QED BY <1>2, <1>3, <1>6, <1>7, <1>8, <1>9 DEF RebuiltInv, Saving

\* A builder that has resolved was made of what the import saved: its status is about its
\* spec, what it has seen has at least the recorded generations, and there are no later ones.
LEMMA ResolvedIsRebuilt ==
  ASSUME PlansDistinct, TypeInv, NEW p \in Procs, Accepted(p), WaitInv(p), SeenInv, RebuiltInv(p),
         Resolves(p), Current(p).kind = "builder"
  PROVE  UpToDate(p, pos[p])
<1> DEFINE item == Current(p)
           k == Key(item)
           o == objects[k]
<1>1. /\ pc[p] = "wait" /\ pos[p] \in DOMAIN ItemsOf(p)
      /\ o.exists /\ o.status.observed >= want[p] /\ o.status.ready
      /\ o.status.store.gen # 0 => o.status.store.gen >= ExpectedGeneration(p, <<"store", item.store>>)
      /\ o.status.stack.gen # 0 => o.status.stack.gen >= ExpectedGeneration(p, <<"stack", item.stack>>)
  BY DEF Resolves, HasResolved, StoreKey, StackKey
<1>2. item = ItemsOf(p)[pos[p]] /\ k \in Keys /\ k[1] = "builder" /\ item.stack \in Names
  BY <1>1, PlanOf DEF Current, Key, PlanItem, Saving
<1>3. o.status.observed = o.gen /\ o.status \in Status
  <2>1. o.gen \in Nat /\ o.status.observed \in Nat /\ o.status \in Status
    BY <1>2, ObjectNats
  <2> QED BY <1>1, <1>2, <2>1 DEF WaitInv
<1>4. ASSUME NEW d \in Dependencies, InPlan(p, <<d, item[d]>>)
      PROVE  /\ objects[<<d, item[d]>>].exists
             /\ o.spec[d] = item[d]
             /\ o.status[d] = Seen(<<d, item[d]>>)
  <2> DEFINE t == <<d, item[d]>>
             seen == o.status[d]
  <2>1. PICK m \in DOMAIN ItemsOf(p) : Key(ItemsOf(p)[m]) = t
    BY <1>4 DEF InPlan, PlanItems
  <2>2. ItemsOf(p)[m].kind \in Dependencies
    BY <2>1 DEF Key
  <2>3. m < pos[p] /\ t \in Keys
    BY <1>1, <1>2, <2>1, <2>2, PlanOf DEF Saving
  <2>4. objects[t].exists /\ gens[p][t] = objects[t].gen
    BY <1>1, <2>1, <2>2, <2>3 DEF RebuiltInv, Saving
  <2>5. o.spec[d] = item[d]
    BY <1>1 DEF RebuiltInv
  <2>6. seen # Unseen
    <3>1. CASE d = "stack"
      BY <1>1, <1>2, <1>3, <3>1 DEF SeenInv, ReadyOf
    <3>2. CASE d = "store"
      <4>1. item.store \in Names
        BY <2>3, <3>2 DEF Keys
      <4>2. o.spec.store # NoName
        BY <2>5, <3>2, <4>1, NamesAssumption
      <4> QED BY <1>1, <1>2, <1>3, <3>2, <4>2 DEF SeenInv, ReadyOf
    <3> QED BY <3>1, <3>2 DEF Dependencies
  <2>7. seen \in [name: Names, gen: Nat \ {0}, spec: SpecsOf(d)]
    BY <1>3, <2>6 DEF Status, Dependencies, SeenBy
  <2>8. /\ seen.name = o.spec[d]
        /\ seen.gen <= objects[<<d, seen.name>>].gen
        /\ seen.gen = objects[<<d, seen.name>>].gen => seen.spec = objects[<<d, seen.name>>].spec
    BY <1>1, <1>2, <1>3, <2>6 DEF SeenInv, SeenOf
  <2>9. seen.gen >= gens[p][t]
    BY <1>1, <2>3, <2>7 DEF ExpectedGeneration, Dependencies
  <2>10. seen.gen = objects[t].gen /\ seen.spec = objects[t].spec /\ seen.name = item[d]
    <3>1. objects[t].gen \in Nat
      BY <2>3, ObjectNats
    <3> QED BY <2>4, <2>5, <2>7, <2>8, <2>9, <3>1
  <2>11. seen = [name |-> item[d], gen |-> objects[t].gen, spec |-> objects[t].spec]
    BY <2>7, <2>10
  <2>12. Seen(t) = [name |-> item[d], gen |-> objects[t].gen, spec |-> objects[t].spec]
    BY <2>3, <2>4 DEF Seen
  <2> QED BY <2>4, <2>5, <2>11, <2>12
<1> QED BY <1>2, <1>4 DEF UpToDate

\* So an item that is left behind was recorded, or is up to date.
LEMMA MoveRebuilds ==
  ASSUME PlansDistinct, TypeInv, NEW p \in Procs, Accepted(p), WaitInv(p), SeenInv, RebuiltInv(p),
         Moves(p), ~Writes(p)
  PROVE  RebuiltInv(p)'
<1>1. objects' = objects /\ \A k : Seen(k)' = Seen(k)
  BY NoWrite DEF Seen
<1>2. ASSUME cmd'[p] = cmd[p]
      PROVE  ItemsOf(p)' = ItemsOf(p) /\ (\A n : UpToDate(p, n)' = UpToDate(p, n))
  <2>1. ItemsOf(p)' = ItemsOf(p) /\ (\A o : InPlan(p, o)' = InPlan(p, o))
    BY <1>2 DEF ItemsOf, InPlan, PlanItems
  <2> QED BY <1>1, <2>1 DEF UpToDate
<1>3. CASE pc'[p] \in Saving
  <2>1. /\ Keeps(p)
        /\ \/ pc[p] = "relocate" /\ pc'[p] = "get" /\ pos'[p] = 1
           \/ pc[p] = "get" /\ pc'[p] = "write" /\ pos'[p] = pos[p] /\ gens'[p] = gens[p]
           \/ Resolves(p)
    BY <1>3, SavingForm
  <2>2. ~Succeeded(p)' /\ pc'[p] # "wait"
    BY <1>3, <2>1 DEF Succeeded, Saving, Resolves
  <2>3. ItemsOf(p)' = ItemsOf(p) /\ (\A n : UpToDate(p, n)' = UpToDate(p, n))
    BY <1>2, <2>1 DEF Keeps
  <2>4. CASE pc[p] = "relocate" /\ pc'[p] = "get" /\ pos'[p] = 1
    <3>1. DOMAIN ItemsOf(p) = 1..Len(ItemsOf(p))
      BY <2>4, ItemsTyped DEF TypeInv, Progress
    <3>2. \A n \in DOMAIN ItemsOf(p) : ~(n < 1)
      BY <3>1
    <3> QED BY <2>2, <2>3, <2>4, <3>2 DEF RebuiltInv
  <2>5. CASE pc[p] = "get" /\ pc'[p] = "write" /\ pos'[p] = pos[p] /\ gens'[p] = gens[p]
    BY <1>1, <2>2, <2>3, <2>5 DEF RebuiltInv, Saving
  <2>6. CASE Resolves(p)
    <3> DEFINE k == Key(Current(p))
    <3>1. /\ pc[p] = "wait" /\ pc'[p] = "get" /\ pos'[p] = pos[p] + 1 /\ objects[k].exists
          /\ gens'[p] = IF k[1] \in {"store", "stack"} THEN [gens[p] EXCEPT ![k] = want[p]] ELSE gens[p]
      BY <2>6 DEF Resolves, HasResolved
    <3>2. /\ \A m, n \in DOMAIN ItemsOf(p) : Key(ItemsOf(p)[m]) = Key(ItemsOf(p)[n]) => m = n
          /\ DOMAIN ItemsOf(p) = 1..Len(ItemsOf(p)) /\ pos[p] \in DOMAIN ItemsOf(p)
          /\ \A n \in DOMAIN ItemsOf(p) : Key(ItemsOf(p)[n]) \in Keys
      BY <2>6, <3>1, PlanOf DEF Saving, Resolves
    <3>3. want[p] = objects[k].gen /\ DOMAIN gens[p] = Keys
      BY <3>1 DEF WaitInv, TypeInv, TypeOK
    <3>4. ASSUME NEW n \in DOMAIN ItemsOf(p), n < pos[p] + 1 PROVE n < pos[p] \/ n = pos[p]
      BY <3>2, <3>4
    <3>5. ASSUME NEW n \in DOMAIN ItemsOf(p), n < pos[p] + 1, ItemsOf(p)[n].kind \in Dependencies
          PROVE  /\ objects[Key(ItemsOf(p)[n])].exists
                 /\ gens'[p][Key(ItemsOf(p)[n])] = objects[Key(ItemsOf(p)[n])].gen
      <4>1. CASE n = pos[p]
        <5>1. Key(ItemsOf(p)[n]) = k /\ k[1] \in {"store", "stack"} /\ k \in Keys
          BY <3>2, <3>5, <4>1 DEF Current, Key, Dependencies
        <5> HIDE DEF k
        <5> QED BY <3>1, <3>3, <5>1
      <4>2. CASE n < pos[p]
        <5>1. n # pos[p]
          BY <3>2, <4>2
        <5>2. Key(ItemsOf(p)[n]) # k /\ Key(ItemsOf(p)[n]) \in Keys
          BY <3>2, <5>1 DEF Current
        <5>3. gens'[p][Key(ItemsOf(p)[n])] = gens[p][Key(ItemsOf(p)[n])]
          <6> HIDE DEF k
          <6> QED BY <3>1, <3>3, <5>2
        <5> QED BY <3>1, <3>5, <4>2, <5>3 DEF RebuiltInv, Saving
      <4> QED BY <3>4, <3>5, <4>1, <4>2
    <3>6. ASSUME NEW n \in DOMAIN ItemsOf(p), n < pos[p] + 1, ItemsOf(p)[n].kind = "builder" PROVE UpToDate(p, n)
      <4>1. CASE n = pos[p]
        BY <2>6, <3>6, <4>1, ResolvedIsRebuilt DEF Current
      <4>2. CASE n < pos[p]
        BY <3>1, <3>6, <4>2 DEF RebuiltInv, Saving
      <4> QED BY <3>4, <3>6, <4>1, <4>2
    <3> QED BY <1>1, <2>2, <2>3, <3>1, <3>5, <3>6 DEF RebuiltInv
  <2> QED BY <2>1, <2>4, <2>5, <2>6
<1>4. CASE Succeeded(p)'
  <2>1. /\ pc[p] = "get" /\ pos[p] \notin DOMAIN ItemsOf(p) /\ cmd' = cmd
    BY <1>4, SuccessForm DEF locals
  <2>2. /\ DOMAIN ItemsOf(p) = 1..Len(ItemsOf(p)) /\ Len(ItemsOf(p)) \in Nat /\ pos[p] \in Nat \ {0}
    BY <2>1, ItemsTyped DEF TypeInv, TypeOK, Progress
  <2>3. \A n \in DOMAIN ItemsOf(p) : n < pos[p]
    BY <2>1, <2>2
  <2>4. ItemsOf(p)' = ItemsOf(p) /\ (\A n : UpToDate(p, n)' = UpToDate(p, n))
    BY <1>2, <2>1
  <2>5. pc'[p] = "ok"
    BY <1>4 DEF Succeeded
  <2> QED BY <2>1, <2>3, <2>4, <2>5 DEF RebuiltInv, Saving
<1>5. CASE pc'[p] \notin Saving /\ ~Succeeded(p)'
  BY <1>5 DEF RebuiltInv, Saving
<1> QED BY <1>3, <1>4, <1>5

\* A report of a builder that is up to date says the same again.
LEMMA ClusterRebuilds ==
  ASSUME NoDependencyDeleted, TypeInv, NEW p \in Procs, RebuiltInv(p), Elsewhere
  PROVE  RebuiltInv(p)'
<1>1. /\ UNCHANGED <<registry, pc, cmd, dest, pos, shown, built, base, want, gens>>
      /\ \A o \in Keys : \/ objects'[o] = objects[o]
                         \/ o \in Deletable /\ objects'[o] = NoObject
                         \/ Reported(o)
  BY ClusterForm
<1>2. \A o \in Keys : objects'[o].exists =>
        /\ objects[o].exists /\ objects'[o].spec = objects[o].spec /\ objects'[o].gen = objects[o].gen
  BY <1>1 DEF Reported, NoObject
<1>3. \A o \in Keys : o[1] \in Dependencies /\ objects[o].exists => objects'[o].exists
  BY <1>1 DEF Reported, NoDependencyDeleted
<1>4. /\ ItemsOf(p)' = ItemsOf(p) /\ Current(p)' = Current(p) /\ (\A o : InPlan(p, o)' = InPlan(p, o))
      /\ Succeeded(p)' = Succeeded(p)
  BY <1>1 DEF ItemsOf, Current, InPlan, PlanItems, Succeeded, IsDryRun
<1>5. pc[p] \in Saving \cup {"ok"} =>
        /\ \A n \in DOMAIN ItemsOf(p) : Key(ItemsOf(p)[n]) \in Keys
        /\ \A o : InPlan(p, o) => o \in Keys
  BY ItemsTyped DEF TypeInv, Progress, Saving, InPlan, PlanItems
<1>6. pc[p] = "wait" => Key(Current(p)) \in Keys
  BY <1>5 DEF Saving, TypeInv, Progress, Current
<1>7. ASSUME pc[p] \in Saving \cup {"ok"}, NEW n \in DOMAIN ItemsOf(p), ItemsOf(p)[n].kind = "builder", UpToDate(p, n)
      PROVE  UpToDate(p, n)'
  <2> DEFINE item == ItemsOf(p)[n]
             o == Key(item)
  <2>1. o \in Keys /\ o[1] = "builder"
    BY <1>5, <1>7 DEF Key
  <2>2. ASSUME objects'[o].exists, NEW d \in Dependencies, InPlan(p, <<d, item[d]>>)
        PROVE  /\ objects'[<<d, item[d]>>].exists
               /\ objects'[o].spec[d] = item[d]
               /\ objects'[o].status[d] = Seen(<<d, item[d]>>)'
    <3> DEFINE t == <<d, item[d]>>
    <3>1. t \in Keys /\ objects[t].exists /\ objects[o].spec[d] = item[d] /\ objects[o].status[d] = Seen(t)
          /\ objects[o].exists
      BY <1>2, <1>5, <1>7, <2>1, <2>2 DEF UpToDate
    <3>2. objects'[t].exists /\ objects'[t].spec = objects[t].spec /\ objects'[t].gen = objects[t].gen
      BY <1>2, <1>3, <3>1
    <3>3. Seen(t)' = Seen(t)
      <4>1. t' = t
        BY <1>4
      <4> HIDE DEF t
      <4> QED BY <3>1, <3>2, <4>1 DEF Seen
    <3>4. CurrentSeen(o, d) = Seen(t) /\ LastSeen(o, d) = Seen(t)
      <4>1. Seen(t).name = item[d]
        BY <3>1, SeenIsThere
      <4> QED BY <2>1, <3>1, <4>1 DEF CurrentSeen, LastSeen
    <3>5. objects'[o].status[d] = Seen(t)
      <4>1. CASE objects'[o] = objects[o]
        BY <3>1, <4>1
      <4>2. CASE Reported(o)
        BY <3>4, <4>2 DEF Reported, Dependencies
      <4> QED BY <1>1, <2>1, <2>2, <4>1, <4>2 DEF NoObject
    <3> QED BY <1>2, <2>1, <2>2, <3>1, <3>2, <3>3, <3>5
  <2> HIDE DEF item, o
  <2> QED BY <1>4, <2>2 DEF UpToDate, item, o
<1>8. pc[p] \in Saving =>
        \A n \in DOMAIN ItemsOf(p) : n < pos[p] /\ ItemsOf(p)[n].kind \in Dependencies =>
          /\ objects'[Key(ItemsOf(p)[n])].exists
          /\ gens[p][Key(ItemsOf(p)[n])] = objects'[Key(ItemsOf(p)[n])].gen
  BY <1>2, <1>3, <1>5 DEF RebuiltInv, Key
<1>9. pc[p] = "wait" /\ Current(p).kind = "builder" /\ objects'[Key(Current(p))].exists =>
        \A d \in Dependencies : objects'[Key(Current(p))].spec[d] = Current(p)[d]
  BY <1>2, <1>6 DEF RebuiltInv
<1>10. pc[p] \in Saving \cup {"ok"} =>
         \A n \in DOMAIN ItemsOf(p) :
           ((pc[p] \in Saving /\ n < pos[p]) \/ Succeeded(p)) /\ ItemsOf(p)[n].kind = "builder" => UpToDate(p, n)'
  BY <1>7 DEF RebuiltInv
<1> QED BY <1>1, <1>4, <1>8, <1>9, <1>10 DEF RebuiltInv

\* The invariant of what builders were made of.
LEMMA RebuiltInvariant ==
  ASSUME NEW p, Procs = {p}, PlansDistinct, NoDependencyDeleted
  PROVE  Spec => []RebuiltInv(p)
<1>1. Init => RebuiltInv(p)
  <2>1. ASSUME Init PROVE pc[p] = "idle"
    BY <2>1 DEF Init
  <2> QED BY <2>1 DEF RebuiltInv, Saving
<1>2. TypeInv /\ SequentialInv(p) /\ Accepted(p) /\ MadeInv(p) /\ WaitInv(p) /\ SeenInv /\ RebuiltInv(p)
        /\ [Next]_vars => RebuiltInv(p)'
  BY SaveRebuilds, MoveRebuilds, ClusterRebuilds, OneProcess DEF SequentialInv
<1> QED BY <1>1, <1>2, TypeInvariant, SequentialInvariant, AcceptedInvariant, MadeInvariant, WaitInvariant,
           SeenInvariant, PTL DEF Spec

\* If imports do not overlap and no stack or store is deleted, the builders of a successful
\* import were made of the stacks and stores it has imported, even if they were there before
\* and named others, if the controller's cache lags behind, and if builders are deleted: for
\* every descriptor that does not ask for one object twice (builderHasResolved).
THEOREM BuildersAreRebuiltCorrect ==
  ASSUME NEW p, Procs = {p}, PlansDistinct, NoDependencyDeleted
  PROVE  Spec => []BuildersAreRebuilt
<1>1. TypeInv /\ RebuiltInv(p) => BuildersAreRebuilt
  <2> SUFFICES ASSUME TypeInv, RebuiltInv(p), Succeeded(p),
                      NEW item \in PlanItems(p), item.kind = "builder", objects[Key(item)].exists,
                      NEW d \in Dependencies, InPlan(p, <<d, item[d]>>)
               PROVE  objects[Key(item)].status[d].spec = objects[<<d, item[d]>>].spec
    BY DEF BuildersAreRebuilt, StackKey, StoreKey, Dependencies
  <2>1. PICK n \in DOMAIN ItemsOf(p) : item = ItemsOf(p)[n]
    BY DEF PlanItems
  <2>2. UpToDate(p, n)
    BY <2>1 DEF RebuiltInv, Succeeded
  <2>3. objects[<<d, item[d]>>].exists /\ objects[Key(item)].status[d] = Seen(<<d, item[d]>>)
    BY <2>1, <2>2 DEF UpToDate
  <2>4. <<d, item[d]>> \in Keys
    BY ItemsTyped DEF InPlan, PlanItems, Succeeded, TypeInv, Progress
  <2> QED BY <2>3, <2>4, SeenIsThere
<1> QED BY <1>1, TypeInvariant, RebuiltInvariant, PTL
-----------------------------------------------------------------------------
(* What the summary leaves out                                             *)

\* Nothing of an item is new to the object that it is about.
Matches(p, n) ==
  LET item == ItemsOf(p)[n]
      o == objects[Key(item)]
  IN  IF item.kind = "store"
      THEN Relocated(dest[p], ImagesOf({item})) \subseteq IF o.exists THEN o.spec.sources ELSE {}
      ELSE o.exists /\ Compared(item.kind, o.spec) = Compared(item.kind, MakeSpec(item, dest[p], NoObject))

\* Nor of the store that was constructed for it, which is there.
AddsNothing(p, n) ==
  LET o == objects[Key(ItemsOf(p)[n])] IN
  ItemsOf(p)[n].kind = "store" => o.exists /\ built[p][n].spec.sources \subseteq o.spec.sources

\* What a summary has been through without showing it needs no change.
Announced(p) ==
  pc[p] \in {"summary", "confirm"} \cup Holds /\ cmd[p].show =>
    \A n \in DOMAIN ItemsOf(p) :
      (pc[p] = "summary" => n < pos[p]) /\ Key(ItemsOf(p)[n]) \notin shown[p] =>
        /\ Matches(p, n)
        /\ pc[p] \in Holds /\ n \in DOMAIN built[p] => AddsNothing(p, n)

\* The steps of the summary.
LEMMA SummaryForm ==
  ASSUME TypeInv, NEW p \in Procs, Moves(p), pc'[p] \in {"summary", "confirm"}
  PROVE  \/ pc'[p] = "summary" /\ pos'[p] = 1
         \/ /\ pc[p] = "summary" /\ objects' = objects /\ cmd'[p] = cmd[p] /\ dest'[p] = dest[p]
            /\ \/ /\ pc'[p] = "summary" /\ pos[p] \in DOMAIN ItemsOf(p) /\ pos'[p] = pos[p] + 1
                  /\ shown[p] \subseteq shown'[p]
                  /\ Key(Current(p)) \notin shown'[p] => Matches(p, pos[p])
               \/ /\ pc'[p] = "confirm" /\ pos[p] \notin DOMAIN ItemsOf(p) /\ shown'[p] = shown[p]
<1>1. \A l \in {"relocate", "ok", "skipped", "failed"} : ~Stop(p, l)
  BY DEF Stop, Goto, TypeInv, TypeOK
<1>2. ~Finish(p) /\ ~Relocation(p) /\ ~GetExisting(p) /\ ~WaitResolved(p) /\ ~Confirm(p) /\ ~Crash(p)
  <2>1. ~Finish(p)
    BY DEF Finish, Goto, TypeInv, TypeOK
  <2>2. ~Relocation(p)
    BY DEF Relocation, Goto, TypeInv, TypeOK
  <2>3. ~GetExisting(p) /\ ~WaitResolved(p)
    BY <1>1 DEF GetExisting, WaitResolved, Goto, TypeInv, TypeOK
  <2>4. ~Confirm(p) /\ ~Crash(p)
    BY <1>1 DEF Confirm, Crash
  <2> QED BY <2>1, <2>2, <2>3, <2>4
<1>3. ~Construct(p) /\ ~Create(p) /\ ~Patch(p)
  <2>1. \A x : ~Store(p, x)
    BY DEF Store, Goto, TypeInv, TypeOK
  <2>2. ~Construct(p)
    BY <1>1, ConstructStep DEF TypeInv, TypeOK
  <2> QED BY <1>1, <2>1, <2>2 DEF Create, Patch
<1>4. CASE Start(p)
  <2>1. pos'[p] = 1 /\ pc'[p] # "confirm"
    BY <1>4 DEF Start, Goto, TypeInv, TypeOK, Progress
  <2> QED BY <2>1
<1>5. CASE Summarized(p)
  BY <1>5 DEF Summarized, Goto, TypeInv, TypeOK
<1>6. CASE Summarize(p)
  <2> DEFINE item == Current(p)
             object == objects[Key(item)]
             diff == IF item.kind = "store" THEN DiffClusterStore(item, object, dest[p])
                     ELSE DiffOther(item, object, MakeSpec(item, dest[p], object))
  <2>1. /\ pc[p] = "summary" /\ pos[p] \in DOMAIN ItemsOf(p)
        /\ shown' = [shown EXCEPT ![p] = IF diff THEN @ \cup {Key(item)} ELSE @]
        /\ pos' = [pos EXCEPT ![p] = @ + 1]
        /\ UNCHANGED <<repo, registry, objects, pc, cmd, dest, built, base, want, gens>>
    BY <1>1, <1>6 DEF Summarize
  <2>2. shown'[p] = (IF diff THEN shown[p] \cup {Key(item)} ELSE shown[p]) /\ pos'[p] = pos[p] + 1
    <3> HIDE DEF diff
    <3> QED BY <2>1 DEF TypeInv, TypeOK
  <2>3. ASSUME ~diff PROVE Matches(p, pos[p])
    <3>1. CASE item.kind = "store"
      <4>1. Relocated(dest[p], {item.images[k] : k \in DOMAIN item.images})
              \subseteq IF object.exists THEN object.spec.sources ELSE {}
        BY <2>3, <3>1 DEF DiffClusterStore
      <4>2. ImagesOf({item}) = {item.images[k] : k \in DOMAIN item.images}
        BY ImagesOfOne
      <4> QED BY <3>1, <4>1, <4>2 DEF Matches, Current
    <3>2. CASE item.kind # "store"
      <4>1. object.exists /\ Compared(item.kind, object.spec) = Compared(item.kind, MakeSpec(item, dest[p], object))
        BY <2>3, <3>2 DEF DiffOther
      <4>2. item.kind \in Kinds
        BY <2>1, ItemsTyped DEF TypeInv, Progress, Current, PlanItem
      <4>3. MakeSpec(item, dest[p], object) = MakeSpec(item, dest[p], NoObject)
        BY <3>2, <4>2 DEF MakeSpec, Kinds
      <4> QED BY <3>2, <4>1, <4>3 DEF Matches, Current
    <3> QED BY <3>1, <3>2
  <2> HIDE DEF diff
  <2> QED BY <2>1, <2>2, <2>3
<1> QED BY <1>2, <1>3, <1>4, <1>5, <1>6 DEF Moves, Step

\* An item that needs no change is saved without one.
LEMMA SaveOfMatching ==
  ASSUME TypeInv, NEW p \in Procs, SequentialInv(p), MadeInv(p), NEW x,
         Saves(p, x), Created(p, x) \/ Patched(p, x), Matches(p, pos[p]), AddsNothing(p, pos[p])
  PROVE  /\ objects[Key(Current(p))].exists
         /\ Current(p).kind = "store" => x.spec = objects[Key(Current(p))].spec
         /\ Current(p).kind # "store" =>
              /\ Compared(Current(p).kind, x.spec) = Compared(Current(p).kind, objects[Key(Current(p))].spec)
              /\ x.spec = built[p][pos[p]].spec
<1> DEFINE item == Current(p)
           o == objects[Key(item)]
<1>1. o.exists
  BY DEF Matches, AddsNothing, Current
<1>2. x.spec = UpdateSpec(item, o.spec, built[p][pos[p]].spec)
  BY <1>1 DEF Created, Patched
<1>3. CASE item.kind = "store"
  <2>1. x.spec = [sources |-> o.spec.sources \cup built[p][pos[p]].spec.sources]
    BY <1>2, <1>3 DEF UpdateSpec, CreateBuildpackageSuperset
  <2>2. built[p][pos[p]].spec.sources \subseteq o.spec.sources
    BY <1>3 DEF AddsNothing, Current
  <2>3. o.spec \in [sources : SUBSET Refs]
    <3>1. o \in ObjectsOf(item.kind)
      BY DEF Saves, TypeInv, TypeOK, Key
    <3> QED BY <1>1, <1>3, <3>1, ObjectTyped, SpecsOfKinds
  <2>4. x.spec = [sources |-> o.spec.sources]
    BY <2>1, <2>2
  <2> QED BY <1>1, <1>3, <2>3, <2>4
<1>4. CASE item.kind # "store"
  <2>1. x.spec = built[p][pos[p]].spec
    BY <1>2, <1>4 DEF UpdateSpec
  <2>2. built[p][pos[p]].spec = MakeSpec(item, dest[p], NoObject)
    BY <1>4 DEF MadeInv, Describes, Saves, Holds, Saving, Current
  <2>3. Compared(item.kind, o.spec) = Compared(item.kind, MakeSpec(item, dest[p], NoObject))
    BY <1>4 DEF Matches, Current
  <2> QED BY <1>1, <1>4, <2>1, <2>2, <2>3
<1> QED BY <1>3, <1>4

\* A save changes nothing that was not shown.
LEMMA SaveAnnounced ==
  ASSUME TypeInv, NEW p \in Procs, SequentialInv(p), MadeInv(p), Announced(p), Writes(p)
  PROVE  Announced(p)'
<1> DEFINE k == Key(Current(p))
<1>1. PICK x : Saves(p, x) /\ (Created(p, x) \/ Patched(p, x))
  BY SaveForm DEF SequentialInv
<1>2. /\ k \in Keys /\ objects' = [objects EXCEPT ![k] = x] /\ pc[p] = "write" /\ pc'[p] = "wait" /\ x.exists
      /\ pos[p] \in DOMAIN built[p] /\ pos[p] \in DOMAIN ItemsOf(p)
      /\ UNCHANGED <<pos, cmd, dest, shown, built>>
  BY <1>1 DEF Saves, TypeInv, TypeOK
<1>3. objects'[k] = x /\ \A o \in Keys \ {k} : objects'[o] = objects[o]
  BY <1>2 DEF TypeInv, TypeOK
<1>4. ItemsOf(p)' = ItemsOf(p)
  BY <1>2 DEF ItemsOf
<1>5. SUFFICES ASSUME cmd[p].show, NEW n \in DOMAIN ItemsOf(p), Key(ItemsOf(p)[n]) \notin shown[p]
               PROVE  Matches(p, n)' /\ (n \in DOMAIN built[p] => AddsNothing(p, n)')
  BY <1>2, <1>4 DEF Announced
<1> DEFINE item == ItemsOf(p)[n]
           o == Key(item)
<1>6. Matches(p, n) /\ (n \in DOMAIN built[p] => AddsNothing(p, n))
  BY <1>2, <1>5 DEF Announced, Holds, Saving
<1>7. o \in Keys /\ item.kind = o[1]
  BY <1>2, ItemsTyped DEF TypeInv, Progress, Key
<1>8. item' = item /\ o' = o /\ dest' = dest /\ built' = built
  BY <1>2, <1>4
<1>9. CASE objects'[o] = objects[o]
  BY <1>6, <1>8, <1>9 DEF Matches, AddsNothing
<1>10. CASE objects'[o] # objects[o]
  <2>1. o = k /\ Current(p).kind = item.kind
    BY <1>3, <1>7, <1>10 DEF Key
  <2>2. Matches(p, pos[p]) /\ AddsNothing(p, pos[p])
    BY <1>2, <1>5, <2>1 DEF Announced, Holds, Saving, Current
  <2>3. /\ objects[o].exists
        /\ item.kind = "store" => x.spec = objects[o].spec
        /\ item.kind # "store" => Compared(item.kind, x.spec) = Compared(item.kind, objects[o].spec)
    BY <1>1, <2>1, <2>2, SaveOfMatching
  <2> HIDE DEF item, o
  <2>4. objects'[o] = x
    BY <1>3, <2>1
  <2> QED BY <1>2, <1>6, <1>8, <2>3, <2>4 DEF Matches, AddsNothing, item, o
<1> QED BY <1>9, <1>10

\* An item that a summary did not show is constructed as it is.
LEMMA ConstructAnnounced ==
  ASSUME TypeInv, NEW p \in Procs, Announced(p), NEW new, Constructs(p, new)
  PROVE  Announced(p)'
<1>1. /\ pc[p] = "relocate" /\ pc'[p] = "relocate" /\ pos[p] \in DOMAIN ItemsOf(p)
      /\ objects' = objects /\ cmd'[p] = cmd[p] /\ dest'[p] = dest[p] /\ shown'[p] = shown[p]
      /\ DOMAIN built'[p] = DOMAIN built[p] \cup {pos[p]}
      /\ \A n \in DOMAIN built[p] : built'[p][n] = built[p][n]
      /\ built'[p][pos[p]] = new
  <2>1. pos[p] = Len(built[p]) + 1 /\ Len(built[p]) \in Nat
    BY LenProperties DEF Constructs, TypeInv, Progress
  <2>2. 1..(Len(built[p]) + 1) = 1..Len(built[p]) \cup {Len(built[p]) + 1}
    BY <2>1
  <2> QED BY <2>1, <2>2 DEF Constructs
<1>2. ItemsOf(p)' = ItemsOf(p)
  BY <1>1 DEF ItemsOf
<1>3. SUFFICES ASSUME cmd[p].show, NEW n \in DOMAIN ItemsOf(p), Key(ItemsOf(p)[n]) \notin shown[p]
               PROVE  Matches(p, n)' /\ (n \in DOMAIN built'[p] => AddsNothing(p, n)')
  BY <1>1, <1>2 DEF Announced
<1>4. Matches(p, n) /\ (n \in DOMAIN built[p] => AddsNothing(p, n))
  BY <1>1, <1>3 DEF Announced, Holds, Saving
<1>5. Matches(p, n)'
  BY <1>1, <1>2, <1>4 DEF Matches
<1>6. ASSUME n \in DOMAIN built[p] PROVE AddsNothing(p, n)'
  BY <1>1, <1>2, <1>4, <1>6 DEF AddsNothing
<1>7. ASSUME n = pos[p] PROVE AddsNothing(p, n)'
  <2> DEFINE item == Current(p)
             o == objects[Key(item)]
             added == Relocated(dest[p], ImagesOf({item}))
  <2>1. SUFFICES ASSUME item.kind = "store"
                 PROVE  o.exists /\ new.spec.sources \subseteq o.spec.sources
    BY <1>1, <1>2, <1>7 DEF AddsNothing, Current
  <2>2. added \subseteq IF o.exists THEN o.spec.sources ELSE {}
    BY <1>4, <1>7, <2>1 DEF Matches, Current
  <2>3. o.exists
    <3>1. SUFFICES ASSUME ~o.exists PROVE FALSE
      OBVIOUS
    <3>2. item.images # <<>> /\ item \in PlanItem
      BY <2>1, <3>1 DEF Constructs
    <3>3. PICK i \in DOMAIN item.images : TRUE
      <4>1. item.images \in Seq(Images)
        BY <3>2 DEF PlanItem
      <4>2. Len(item.images) \in Nat \ {0} /\ DOMAIN item.images = 1..Len(item.images)
        BY <3>2, <4>1, EmptySeq, LenProperties
      <4> HIDE DEF item
      <4>3. 1 \in DOMAIN item.images
        BY <4>2
      <4> QED BY <4>3
    <3>4. <<dest[p], item.images[i]>> \in added
      BY <3>3, ImagesOfOne DEF Relocated
    <3> QED BY <2>2, <3>1, <3>4
  <2>4. new.spec = [sources |-> AddToStore(o.spec.sources, added)]
    BY <2>1, <2>3 DEF Constructs, MakeSpec
  <2>5. added \subseteq o.spec.sources
    BY <2>2, <2>3
  <2> HIDE DEF o, added
  <2>6. new.spec.sources = AddToStore(o.spec.sources, added)
    BY <2>4
  <2>7. AddToStore(o.spec.sources, added) \subseteq o.spec.sources
    BY <2>5 DEF AddToStore
  <2> QED BY <2>3, <2>6, <2>7
<1> QED BY <1>1, <1>5, <1>6, <1>7

\* No other step of the import does.
LEMMA MoveAnnounced ==
  ASSUME TypeInv, NEW p \in Procs, Announced(p), Moves(p), ~Writes(p)
  PROVE  Announced(p)'
<1>1. CASE pc'[p] \notin {"summary", "confirm"} \cup Holds
  BY <1>1 DEF Announced
<1>2. ASSUME objects' = objects, cmd'[p] = cmd[p], dest'[p] = dest[p]
      PROVE  ItemsOf(p)' = ItemsOf(p) /\ (\A n : Matches(p, n)' = Matches(p, n))
  <2>1. ItemsOf(p)' = ItemsOf(p)
    BY <1>2 DEF ItemsOf
  <2> QED BY <1>2, <2>1 DEF Matches
<1>3. CASE pc'[p] \in {"summary", "confirm"}
  <2>1. CASE pc'[p] = "summary" /\ pos'[p] = 1
    <3>1. \A n \in DOMAIN ItemsOf(p)' : ~(n < 1)
      <4>1. TypeInv'
        BY StepTyped DEF Moves, Next
      <4>2. cmd'[p] \in Commands
        BY <1>3, <4>1 DEF TypeInv, Progress
      <4>3. ItemsOf(p)' \in Seq(PlanItem)
        BY <4>2, PlanTyped, ImportAssumption DEF ItemsOf
      <4>4. DOMAIN ItemsOf(p)' = 1..Len(ItemsOf(p)') /\ Len(ItemsOf(p)') \in Nat
        BY <4>3, LenProperties
      <4> QED BY <4>4
    <3> QED BY <2>1, <3>1 DEF Announced
  <2>2. CASE /\ pc[p] = "summary" /\ objects' = objects /\ cmd'[p] = cmd[p] /\ dest'[p] = dest[p]
             /\ pc'[p] = "summary" /\ pos[p] \in DOMAIN ItemsOf(p) /\ pos'[p] = pos[p] + 1
             /\ shown[p] \subseteq shown'[p]
             /\ Key(Current(p)) \notin shown'[p] => Matches(p, pos[p])
    <3>1. DOMAIN ItemsOf(p) \subseteq Nat
      BY <2>2, ItemsTyped DEF TypeInv, Progress
    <3>2. ASSUME cmd[p].show, NEW n \in DOMAIN ItemsOf(p), n < pos'[p], Key(ItemsOf(p)[n]) \notin shown'[p]
          PROVE  Matches(p, n)
      <4>1. n = pos[p] \/ n < pos[p]
        BY <2>2, <3>1, <3>2
      <4>2. Key(ItemsOf(p)[n]) \notin shown[p]
        BY <2>2, <3>2
      <4>3. CASE n = pos[p]
        BY <2>2, <3>2, <4>3 DEF Current
      <4>4. CASE n < pos[p]
        BY <2>2, <3>2, <4>2, <4>4 DEF Announced
      <4> QED BY <4>1, <4>3, <4>4
    <3> QED BY <1>2, <2>2, <3>2 DEF Announced, Holds, Saving
  <2>3. CASE /\ pc[p] = "summary" /\ objects' = objects /\ cmd'[p] = cmd[p] /\ dest'[p] = dest[p]
             /\ pc'[p] = "confirm" /\ pos[p] \notin DOMAIN ItemsOf(p) /\ shown'[p] = shown[p]
    <3>1. \A n \in DOMAIN ItemsOf(p) : n < pos[p]
      <4>1. DOMAIN ItemsOf(p) = 1..Len(ItemsOf(p)) /\ Len(ItemsOf(p)) \in Nat
        BY <2>3, ItemsTyped DEF TypeInv, Progress
      <4>2. pos[p] \in Nat \ {0}
        BY DEF TypeInv, TypeOK
      <4> QED BY <2>3, <4>1, <4>2
    <3> QED BY <1>2, <2>3, <3>1 DEF Announced, Holds, Saving
  <2> QED BY <1>3, <2>1, <2>2, <2>3, SummaryForm
<1>4. CASE pc'[p] = "relocate"
  <2>1. CASE ~cmd'[p].show
    BY <2>1 DEF Announced
  <2>2. CASE /\ objects' = objects /\ built'[p] = <<>>
             /\ pc[p] = "confirm" /\ cmd'[p] = cmd[p] /\ dest'[p] = dest[p] /\ shown'[p] = shown[p]
    BY <1>2, <2>2 DEF Announced
  <2> QED BY <1>4, <2>1, <2>2, RelocatingForm, ConstructAnnounced
<1>5. CASE pc'[p] \in Saving
  <2>1. Keeps(p) /\ pc[p] \in Holds
    BY <1>5, SavingForm DEF Resolves, Holds, Saving
  <2>2. \A n : AddsNothing(p, n)' = AddsNothing(p, n)
    BY <1>2, <2>1 DEF Keeps, AddsNothing
  <2> QED BY <1>2, <1>5, <2>1, <2>2 DEF Announced, Keeps, Holds, Saving
<1> QED BY <1>1, <1>3, <1>4, <1>5 DEF Holds

\* The invariant of what the summary left out.
LEMMA AnnouncedInvariant ==
  ASSUME NEW p, Procs = {p}, Deletable = {}
  PROVE  Spec => []Announced(p)
<1>1. Init => Announced(p)
  <2>1. ASSUME Init PROVE pc[p] = "idle"
    BY <2>1 DEF Init
  <2> QED BY <2>1 DEF Announced, Holds, Saving
<1>2. TypeInv /\ SequentialInv(p) /\ MadeInv(p) /\ Announced(p) /\ [Next]_vars => Announced(p)'
  <2>1. ASSUME TypeInv, Announced(p), Elsewhere PROVE Announced(p)'
    <3>1. /\ UNCHANGED <<registry, pc, cmd, dest, pos, shown, built, base, want, gens>>
          /\ \A o \in Keys : (objects'[o].exists <=> objects[o].exists) /\ objects'[o].spec = objects[o].spec
      BY <2>1, ClusterForm DEF Reported
    <3>2. ItemsOf(p)' = ItemsOf(p)
      BY <3>1 DEF ItemsOf
    <3>3. pc[p] \in {"summary", "confirm"} \cup Holds => \A n \in DOMAIN ItemsOf(p) : Key(ItemsOf(p)[n]) \in Keys
      BY <2>1, ItemsTyped DEF TypeInv, Progress, Holds, Saving
    <3>4. ASSUME NEW n, Key(ItemsOf(p)[n]) \in Keys
          PROVE  (Matches(p, n) => Matches(p, n)') /\ (AddsNothing(p, n) => AddsNothing(p, n)')
      BY <3>1, <3>2, <3>4 DEF Matches, AddsNothing
    <3> QED BY <2>1, <3>1, <3>2, <3>3, <3>4 DEF Announced
  <2> QED BY <2>1, SaveAnnounced, MoveAnnounced, OneProcess
<1> QED BY <1>1, <1>2, TypeInvariant, SequentialInvariant, MadeInvariant, PTL DEF Spec

\* If imports do not overlap and nothing is deleted, whatever an import creates or changes
\* its summary has shown before somebody was asked, for every descriptor, repository and
\* cluster, and even if the descriptor asks for one object twice (import_differ.go).
THEOREM SummaryIsCompleteCorrect ==
  ASSUME NEW p, Procs = {p}, Deletable = {}
  PROVE  Spec => SummaryIsComplete
<1>1. ASSUME TypeInv, SequentialInv(p), MadeInv(p), Announced(p), Next,
             pc[p] = "write", pc'[p] = "wait", cmd[p].show, Key(Current(p)) \notin shown[p]
      PROVE  LET o == Key(Current(p)) IN
             objects[o].exists /\ Announceable(o[1], objects'[o].spec) = Announceable(o[1], objects[o].spec)
  <2> DEFINE o == Key(Current(p))
             kind == Current(p).kind
  <2>1. Writes(p)
    <3>1. pc'[p] # pc[p] /\ [Next]_vars
      BY <1>1
    <3>2. Moves(p)
      BY <1>1, <3>1, OneProcess DEF Elsewhere, Reconcile, Report, Delete, SetDefaultRepository, vars, locals
    <3> QED BY <1>1, <3>2, SavingForm DEF Resolves, Saving
  <2>2. PICK x : Saves(p, x) /\ (Created(p, x) \/ Patched(p, x))
    BY <1>1, <2>1, SaveForm DEF SequentialInv
  <2>3. /\ pos[p] \in DOMAIN ItemsOf(p) /\ pos[p] \in DOMAIN built[p] /\ o \in Keys /\ o[1] = kind
        /\ x \in ObjectsOf(kind) /\ x.exists /\ kind \in Kinds
        /\ objects' = [objects EXCEPT ![o] = x]
    BY <2>2 DEF Saves, Key, Keys
  <2>4. Matches(p, pos[p]) /\ AddsNothing(p, pos[p])
    BY <1>1, <2>3 DEF Announced, Holds, Saving, Current
  <2>5. /\ objects[o].exists
        /\ kind = "store" => x.spec = objects[o].spec
        /\ kind # "store" => Compared(kind, x.spec) = Compared(kind, objects[o].spec)
                             /\ x.spec = built[p][pos[p]].spec
    BY <1>1, <2>2, <2>4, SaveOfMatching
  <2>6. x.spec \in SpecsOf(kind) /\ objects[o].spec \in SpecsOf(kind)
    <3>1. objects[o] \in ObjectsOf(kind)
      BY <1>1, <2>3 DEF TypeInv, TypeOK
    <3> QED BY <2>3, <2>5, <3>1, ObjectTyped
  <2>7. Announceable(kind, x.spec) = Announceable(kind, objects[o].spec)
    <3>1. CASE kind = "store"
      BY <2>5, <3>1
    <3>2. CASE kind \in {"lifecycle", "buildpack"}
      <4>1. x.spec.image = objects[o].spec.image
        BY <2>5, <3>2 DEF Compared, ComparedFields
      <4>2. x.spec \in [image : Refs] /\ objects[o].spec \in [image : Refs]
        BY <2>6, <3>2, SpecsOfKinds
      <4>3. x.spec = objects[o].spec
        BY <4>1, <4>2
      <4> QED BY <4>3
    <3>3. CASE kind = "stack"
      <4>1. x.spec.build = objects[o].spec.build /\ x.spec.run = objects[o].spec.run
        BY <2>5, <3>3 DEF Compared, ComparedFields
      <4>2. IdsAgree(objects[o].spec)
        BY <1>1, <2>3, <2>5, <3>3 DEF SequentialInv, StackIdsAgree, IdsAgree
      <4>3. IdsAgree(x.spec)
        BY <1>1, <2>3, <2>5, <3>3 DEF SequentialInv, BuiltAgree, Holds, Saving, Current
      <4>4. x.spec.id = objects[o].spec.id
        BY <4>1, <4>2, <4>3 DEF IdsAgree
      <4>5. /\ x.spec \in [id : {StackId[i] : i \in Images}, build : Refs, run : Refs]
            /\ objects[o].spec \in [id : {StackId[i] : i \in Images}, build : Refs, run : Refs]
        BY <2>6, <3>3, SpecsOfKinds
      <4>6. x.spec = objects[o].spec
        BY <4>1, <4>4, <4>5
      <4> QED BY <4>6
    <3>4. CASE kind = "builder"
      <4>1. x.spec.stack = objects[o].spec.stack /\ x.spec.store = objects[o].spec.store
        BY <2>5, <3>4 DEF Compared, ComparedFields
      <4> QED BY <3>4, <4>1 DEF Announceable
    <3> QED BY <2>3, <3>1, <3>2, <3>3, <3>4 DEF Kinds
  <2>8. objects'[o] = x
    <3> HIDE DEF o
    <3> QED BY <1>1, <2>3 DEF TypeInv, TypeOK
  <2> QED BY <2>3, <2>5, <2>7, <2>8
<1>2. TypeInv /\ SequentialInv(p) /\ MadeInv(p) /\ Announced(p) /\ [Next]_vars => [IsShown]_vars
  BY <1>1 DEF IsShown
<1> QED BY <1>2, TypeInvariant, SequentialInvariant, MadeInvariant, AnnouncedInvariant, PTL
        DEF Spec, SummaryIsComplete
=============================================================================
