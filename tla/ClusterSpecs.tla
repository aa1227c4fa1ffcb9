---------------------------- MODULE ClusterSpecs ----------------------------
(***************************************************************************)
(* What the flags of the stack, lifecycle, buildpack and builder commands  *)
(* make of the spec of their resource: the factories and the create, patch *)
(* and save functions of pkg/commands, without the requests they make.     *)
(*                                                                         *)
(* As in ImageSpec a function returns a set, which is empty if it fails.   *)
(* A relocated image is a pair of a repository and the image.              *)
(***************************************************************************)
EXTENDS Naturals, FiniteSets, KpConfig

CONSTANTS
  StackIdOf,        \* [stack images -> stack ids]
  LifecycleImages,  \* images with the labels of a lifecycle
  OrderFiles,       \* [paths -> orders], the order files that can be read
  OrderLabels       \* [images -> orders], the builder images with an order label

-----------------------------------------------------------------------------
(* Stacks and lifecycles: relocated images, an account from kp-config *)

\* Factory.validate and DefaultRepository: where to relocate to, if anywhere.
StackDestination(flags, config) ==
  {repo \in DefaultRepository(config) : StackIdOf[flags.build] = StackIdOf[flags.run]}

\* MakeStack
MakeStack(flags, config) ==
  {[build |-> <<repo, flags.build>>, run |-> <<repo, flags.run>>, id |-> StackIdOf[flags.build],
    account |-> ServiceAccount(config)] : repo \in StackDestination(flags, config)}

\* Bug: the id stays what it was.
UpdateStackKeepsId(flags, stack, config) ==
  {[stack EXCEPT !.build = <<repo, flags.build>>, !.run = <<repo, flags.run>>] :
     repo \in StackDestination(flags, config)}

\* UpdateStack: the account stays what it was.
UpdateStack(flags, stack, config) ==
  {[stack EXCEPT !.build = <<repo, flags.build>>, !.run = <<repo, flags.run>>, !.id = StackIdOf[flags.build]] :
     repo \in StackDestination(flags, config)}

\* ValidateLifecycleImage and DefaultRepository
LifecycleDestination(flags, config) ==
  {repo \in DefaultRepository(config) : flags.image \in LifecycleImages}

\* MakeLifecycle
MakeLifecycle(flags, config) ==
  {[image |-> <<repo, flags.image>>, account |-> ServiceAccount(config)] :
     repo \in LifecycleDestination(flags, config)}

\* UpdateLifecycle
UpdateLifecycle(flags, lifecycle, config) ==
  {[lifecycle EXCEPT !.image = <<repo, flags.image>>] : repo \in LifecycleDestination(flags, config)}

-----------------------------------------------------------------------------
(* Buildpacks: the image is used where it is *)

\* What create assumes for flags that are not given, and save when there is nothing yet.
BuildpackDefaults == [account |-> "default"]

\* create of a ClusterBuildpack.  `save` does not insist on an image.
MakeClusterBuildpack(flags, config) ==
  {[image |-> Flag(flags, "image", NoValue), account |-> ServiceAccount(config)]}

\* patch of a ClusterBuildpack
PatchClusterBuildpack(flags, buildpack) ==
  {[buildpack EXCEPT !.image = Flag(flags, "image", buildpack.image)]}

\* create of a Buildpack
MakeBuildpack(flags) ==
  {[image |-> Flag(flags, "image", NoValue), account |-> flags.account]}

\* patch of a Buildpack
PatchBuildpack(flags, buildpack) ==
  {[buildpack EXCEPT !.image = Flag(flags, "image", buildpack.image),
                     !.account = Flag(flags, "account", buildpack.account)]}

-----------------------------------------------------------------------------
(* Builders *)

ClusterBuilderFlags == {"tag", "stack", "store", "order", "buildpacks", "orderFrom"}
BuilderFlags == ClusterBuilderFlags \cup {"account"}

BuilderDefaults == [stack |-> "default", account |-> "default"]
ClusterBuilderDefaults == [stack |-> "default"]

OrderSources(flags) == {"buildpacks", "order", "orderFrom"} \cap DOMAIN flags

\* CreateOrder: all the buildpacks in one group.
CreateOrder(buildpacks) == <<buildpacks>>

\* ReadOrder
ReadOrder(path) == {OrderFiles[f] : f \in {path} \cap DOMAIN OrderFiles}

\* ReadOrderFromImage
ReadOrderFromImage(image) == {OrderLabels[i] : i \in {image} \cap DOMAIN OrderLabels}

\* The order a command line asks for, from at most one source, or else the one it was.
OrderOf(flags, default) ==
  CASE Cardinality(OrderSources(flags)) > 1 -> {}
    [] OrderSources(flags) = {"buildpacks"} -> {CreateOrder(flags.buildpacks)}
    [] OrderSources(flags) = {"order"}      -> ReadOrder(flags.order)
    [] OrderSources(flags) = {"orderFrom"}  -> ReadOrderFromImage(flags.orderFrom)
    [] OTHER                                -> {default}

\* The references of a new builder: only a store that is named gets a kind.
NewBuilder(flags, tag, account, order) ==
  [tag |-> tag, stack |-> flags.stack, account |-> account, order |-> order,
   store |-> Flag(flags, "store", NoValue),
   storeKind |-> IF Given(flags, "store") THEN "ClusterStore" ELSE NoValue]

\* Bug: the stack falls back to the default of create.
PatchedBuilderDefaults(flags, builder, order) ==
  [builder EXCEPT !.tag = Flag(flags, "tag", builder.tag),
                  !.stack = Flag(flags, "stack", "default"),
                  !.store = Flag(flags, "store", builder.store),
                  !.order = order]

\* The fields of an existing builder that both kinds change in the same way.
PatchedBuilder(flags, builder, order) ==
  [builder EXCEPT !.tag = Flag(flags, "tag", builder.tag),
                  !.stack = Flag(flags, "stack", builder.stack),
                  !.store = Flag(flags, "store", builder.store),
                  !.order = order]

\* create of a Builder
MakeBuilder(flags) ==
  {NewBuilder(flags, flags.tag, flags.account, order) :
     order \in {o \in OrderOf(flags, NoValue) : Given(flags, "tag")}}

\* patch of a Builder
PatchBuilder(flags, builder) ==
  {[PatchedBuilder(flags, builder, order) EXCEPT !.account = Flag(flags, "account", builder.account)] :
     order \in OrderOf(flags, builder.order)}

\* The tag of a ClusterBuilder that is created without one: "<repository>:clusterbuilder-<name>".
ClusterBuilderTag(flags, config) ==
  IF Given(flags, "tag") THEN {flags.tag} ELSE {<<repo, "clusterbuilder">> : repo \in DefaultRepository(config)}

\* create of a ClusterBuilder
MakeClusterBuilder(flags, config) ==
  {NewBuilder(flags, tag, ServiceAccount(config), order) :
     tag \in ClusterBuilderTag(flags, config), order \in OrderOf(flags, NoValue)}

\* patch of a ClusterBuilder
PatchClusterBuilder(flags, builder) ==
  {PatchedBuilder(flags, builder, order) : order \in OrderOf(flags, builder.order)}
=============================================================================
