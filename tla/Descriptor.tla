----------------------------- MODULE Descriptor -----------------------------
(***************************************************************************)
(* Dependency descriptors: what `kp import -f` reads, how the two older    *)
(* formats become the current one, which descriptors are refused, and the  *)
(* sequence of resources one asks for, in the order they are relocated and *)
(* saved.                                                                  *)
(***************************************************************************)
EXTENDS Naturals, Sequences

CONSTANTS
  Names,          \* names of resources
  Images,         \* images, by digest
  NoName,         \* an empty name
  LifecycleName   \* v1alpha2.DefaultLifecycleName

ASSUME NamesAssumption == NoName \notin Names

ImageItem == [name: Names \cup {NoName}, image: Images]
StoreItem == [name: Names, images: Seq(Images)]
StackItem == [name: Names, build: Images, run: Images]
BuilderItem == [name: Names, stack: Names, store: Names \cup {NoName}]

\* DefaultLifecycleName, DefaultClusterStack and DefaultClusterBuilder may be empty.
Descriptors ==
  [lifecycles: Seq(ImageItem), buildpacks: Seq(ImageItem), stores: Seq(StoreItem),
   stacks: Seq(StackItem), builders: Seq(BuilderItem),
   defaultLifecycle: Names \cup {NoName}, defaultStack: Names \cup {NoName},
   defaultBuilder: Names \cup {NoName}]

-----------------------------------------------------------------------------
(* The older formats *)

\* v1alpha1 has neither lifecycles nor buildpacks.
FromV1Alpha1(d) ==
  [lifecycles |-> <<>>, buildpacks |-> <<>>, stores |-> d.stores, stacks |-> d.stacks,
   builders |-> d.builders, defaultLifecycle |-> NoName,
   defaultStack |-> d.defaultStack, defaultBuilder |-> d.defaultBuilder]

\* v1alpha3 has at most one lifecycle, without a name: it becomes kpack's default one.
FromV1Alpha3(d) ==
  [FromV1Alpha1(d) EXCEPT
     !.lifecycles = [k \in DOMAIN d.lifecycle |->
                       [name |-> LifecycleName, image |-> d.lifecycle[k]]]]

-----------------------------------------------------------------------------
(* ValidateDescriptor *)

NamesOf(items) == {items[k].name : k \in DOMAIN items}
NamesDistinct(items) == \A j, k \in DOMAIN items : items[j].name = items[k].name => j = k
NamesFilled(items) == NoName \notin NamesOf(items)

\* Only lifecycles and buildpacks are checked for empty names; nothing is said of the
\* stack and the store a builder names, nor of an entry that is itself named "default".
ValidateDescriptor(d) ==
  /\ NamesFilled(d.lifecycles) /\ NamesDistinct(d.lifecycles)
  /\ NamesFilled(d.buildpacks) /\ NamesDistinct(d.buildpacks)
  /\ NamesDistinct(d.stores)
  /\ NamesDistinct(d.stacks)
  /\ d.defaultLifecycle \in NamesOf(d.lifecycles) \cup {NoName}
  /\ d.defaultStack \in NamesOf(d.stacks) \cup {NoName}
  /\ NamesDistinct(d.builders)
  /\ d.defaultBuilder \in NamesOf(d.builders) \cup {NoName}

-----------------------------------------------------------------------------
(* What a descriptor asks for *)

\* The default of a kind is imported a second time, under another name.
WithDefault(items, default, as) ==
  IF default \in NamesOf(items)
  THEN LET k == CHOOSE j \in DOMAIN items : items[j].name = default
       IN  Append(items, [items[k] EXCEPT !.name = as])
  ELSE items

GetClusterLifecycles(d) == WithDefault(d.lifecycles, d.defaultLifecycle, LifecycleName)
GetClusterStacks(d) == WithDefault(d.stacks, d.defaultStack, "default")
GetClusterBuilders(d) == WithDefault(d.builders, d.defaultBuilder, "default")

\* A resource to import: its images, and for a builder the names it refers to.
Item(kind, name, images, stack, store) ==
  [kind |-> kind, name |-> name, images |-> images, stack |-> stack, store |-> store]

\* The order of both loops of ImportDescriptor: what a builder refers to goes first.
Plan(d) ==
  LET ImageItems(kind, items) ==
        [k \in DOMAIN items |-> Item(kind, items[k].name, <<items[k].image>>, NoName, NoName)]
      stacks == GetClusterStacks(d)
      builders == GetClusterBuilders(d)
  IN  ImageItems("lifecycle", GetClusterLifecycles(d))
      \o ImageItems("buildpack", d.buildpacks)
      \o [k \in DOMAIN d.stores |->
            Item("store", d.stores[k].name, d.stores[k].images, NoName, NoName)]
      \o [k \in DOMAIN stacks |->
            Item("stack", stacks[k].name, <<stacks[k].build, stacks[k].run>>, NoName, NoName)]
      \o [k \in DOMAIN builders |->
            Item("builder", builders[k].name, <<>>, builders[k].stack, builders[k].store)]
=============================================================================
