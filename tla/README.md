# kp, specified

TLA+ modules, TLC runs and TLAPS proofs for `kp`, the command line of kpack
(`src/`, Go). `kp` keeps no state of its own. A run of it reads API objects,
copies images into the user's registry, writes API objects, and waits for the
kpack controllers to report on what it wrote. Everything hard about it lies
between those requests: another `kp`, a controller or a crash may come between
any two of them, and its updates, JSON merge patches without a resource version (all
but one), are applied to whatever the object has become.

## 1. The system

| component (source) | state it works on | operations |
|---|---|---|
| store commands (`pkg/commands/clusterstore`, `pkg/clusterstore`) | a ClusterStore: list of images, generation, status | create, add, save, remove, delete; list and status only read |
| patches (`pkg/k8s/patch.go`) | - | difference of two versions of an object |
| waiter (`pkg/commands/waiter.go`, `pkg/import/builder_has_resolved.go`) | one watch of one object | wait until the write was observed, judge the Ready condition |
| secrets (`pkg/commands/secret`, `pkg/secret`) | a Secret and a ServiceAccount (`secrets`, `imagePullSecrets`, an annotation) | create, delete; list only reads |
| import (`pkg/import`, `pkg/commands/import`) | lifecycles, buildpacks, stores, stacks, builders | read and validate a descriptor, summarise changes and ask, relocate, save, wait |
| kp-config (`pkg/config`, `pkg/commands/config`) | the ConfigMap `kp-config` | read, set the repository, set the service account |
| stack, lifecycle, buildpack commands and factories (`pkg/commands/clusterstack`, `pkg/clusterstack`, ...) | one object each | create, patch, save, delete |
| builder commands (`pkg/commands/builder`, `clusterbuilder`, `pkg/builder`) | Builder, ClusterBuilder | create, patch, save, delete |
| image commands (`pkg/image`, `pkg/commands/image`) | Image, and its Builds | create, patch, save, trigger, delete, status, list with filters |
| lifecycle config map (`pkg/lifecycle`, `pkg/commands/lifecycle`) | the ConfigMap `lifecycle-image` | patch |
| build commands (`pkg/commands/build`, `pkg/build`) | the Builds of an Image | list, status, logs: only read |
| compatibility clients (`pkg/kpackcompat`, `pkg/k8s/clientset.go`) | - | the requests of kpack's v1alpha2 interface, made of a v1alpha1 server |
| registry (`pkg/registry`, `pkg/buildpackage`, `pkg/stackimage`, `pkg/lifecycleimage`) | images in a registry | relocate, or only name, an image; a progress spinner in a goroutine |
| other lists and statuses, printers, archives, credentials | - | read-only, format or I/O |

**How they interact.** Every command that uploads reads the default repository
from kp-config, passes each image to a relocator (one that pushes, or one that
discards and returns the same reference), writes the object through `CreatePatch`
or Create, and hands the returned object to the waiter. `import` uses the store,
stack, lifecycle and buildpack factories; it records the generation each store
and stack had when it was saved and makes the wait for a builder depend on them.
kpack's controllers read specs and write statuses, which `remove` and the waiter
read.

**What is hard, and what makes each component right.**

* *Store commands*: the list in a patch is the one that was read, the status
  `remove` relies on may be old, and the repository may change between commands.
  Right is: a store lists only what was pushed, lists it once, and each command
  changes it once, by what its own line names; a dry run changes nothing.
* *Waiter*: the verdict in the status may be older than the write; conditions are
  met by different events; events are skipped. Right is: the exit code is about
  this write, built from these dependencies, and is not missed.
* *Secrets*: two objects, no transaction. Right is: no reference to a secret that
  is not there, and three lists that agree.
* *Kinds with one object* (stacks, lifecycles, buildpacks, builders, images,
  kp-config): a patch is computed from an object that may have changed, fields that
  belong together are written by one command and read by another, and a dozen flags
  each touch a few of them. Right is: an object names pushed images only, the two
  keys of a kp-config setting never differ, a command does what its flags say and
  nothing else, and what it reports is about its own write.
* *Lifecycle config map*: the map is read on both sides of an upload that takes
  minutes, and a goroutine draws on the terminal meanwhile. Right is: the map names
  what was pushed, nothing others wrote is undone, the relocator returns, and
  leaves the line clear.
* *Builds*: kpack creates, ends and prunes builds while a command reads the image and
  its builds, or annotates the last of them. Right is: a trigger is answered by a
  build that was not there before, and the parts of a table agree.
* *Compatibility clients*: ten files with the same nine methods. Right is: through them
  a v1alpha1 server answers, and ends up, as a v1alpha2 one would.
* *Import*: dozens of requests, any of which may be the last; five kinds of
  resource that depend on each other. Right is: upload before save, dependencies
  before builders, builders rebuilt with what was imported, the result is what the
  descriptor says, a repeated import repairs a broken one, and the summary the user
  agreed to hides nothing.

`PROJECT.json` lists every such hazard at its line with the properties that
cover it.

## 2. The modules

| module | models | checked by |
|---|---|---|
| `MergePatch` | `CreatePatch` and the server's merge. An object is a function from fields to values and a list is one field | through its users |
| `StoreContents` | abstract: a store is a set of buildpackages, and each run of kp changes it at most once, in one step, by what its own line names; a remove may take out a part of that | `ImplementsStoreContents`: a run and a theorem |
| `ClusterStore` | the five store commands, kp-config's repository, registry, controller | three runs of `MCClusterStore` |
| `Waiter` | `Wait`, its conditions, the informer and the controller | run `Waiter` |
| `SecretFlags` | `validate` and `getSecretKind`: two operators and, as assumptions that TLC evaluates over all 4096 sets of flags, what they promise | with `SecretsOneAccount` |
| `ServiceAccountSecrets` | `secret create` and `secret delete` | run `SecretsOneAccount` of `MCServiceAccountSecrets` |
| `Descriptor` | formats, validation, defaults, and the order of what is imported | through `Import` |
| `ImportDiff` | what the change summary compares of each kind, and with what | through `Import` |
| `Import` | `kp import` | three runs of `MCImport` |
| `Fields` | flags and specs as functions: a flag that was given, a field that was changed, a default | through its users |
| `KpConfig` | the six keys of kp-config, their fallbacks, both setters | through `Resource` |
| `ClusterSpecs` | what create and patch make of a stack, a lifecycle, a buildpack, a builder, of both scopes | through `Resource` |
| `ImageSpec` | the factory and the update factory of images: sources, builders, tags, variables, bindings, cache, history limits | through `Resource` |
| `Resource` | create, patch, save, delete of one object of one of eight kinds, kp-config, registry, controller | two runs of `MCResource` |
| `LifecycleConfig` | `lifecycle patch`, the relocator and its spinner, others who write the map | run `LifecycleConfig` of `MCLifecycleConfig` |
| `Builds` | `image trigger`, `image status`, `build status`, `build logs`, and the controller that makes the builds | run `Builds` of `MCBuilds` |
| `ImageList` | the filters of `image list`: operators and, as assumptions that TLC evaluates, what they promise | with `Builds` |
| `KpackCompat` | which client kp gets, and every operation of the wrapper around a v1alpha1 client | with `Builds`; `BuildsProofs` |
| `*Proofs` | theorems, section 5 | tlapm |

`Import` extends `ImportDiff` and through it `Descriptor`; `MCBuilds` extends `Builds`,
`ImageList` and `KpackCompat`. `Resource` extends `ClusterSpecs`, `ImageSpec` and `MergePatch`, and through them
`KpConfig` and `Fields`. The commands of all kinds are the same protocol (read,
compute, upload, write, wait), so there is one module for the protocol and one
operator for each kind and verb, which gives the set of specs that the command may
write: empty if it refuses, more than one if the outcome is open. `BuildsProofs` extends
`Builds` and `KpackCompat`, each other proof module the module it is named after; those about
patches also `MergePatchProofs`.

Definitions named after a bug ("Bug: ...") are what the mutants of
`PROJECT.json` substitute for the definition below them, to show that each
property can fail; nothing else uses them.

**Reading a module.** A process is one run of `kp`. `pc` says which request it is
about to make, and the other per-process variables are the local variables of the
Go function that live across requests (`base` the object that was read, `next` or
`built` the object to be written, `want` the generation returned by the write).
One action is one request with the code up to the next one. `Crash` is any
failed request or the end of the process, at any point. `Finish` forgets the
locals, so nothing survives a run but the cluster and the registry.

*ClusterStore.* `Start` chooses a command line. `GetForUpdate` is the Get of add
and save (save becomes create on NotFound), `GetForRemove` the Get of remove with
`RemoveFromStore`. `ReadConfig`, `UploadBuildpackage` and `Loop` are MakeStore and
AddToStore, one image at a time. `CreateStore`, `UpdateStore` and `PatchRemoved`
write, `WaitResolved` and `WaitTimeout` are the wait as its caller sees it. A
digest stands for an image, a pair of repository and digest for a reference, and
the sources are a count for each reference: no command looks at their order. The
refinement maps each process to the line it was given (`LineOf`) and to how far it is
(`Phase`: idle, running, done once it has written or has nothing to write, stopped).

*Waiter.* The history of the object is a sequence of versions. `Deliver` hands
any later version to the conditions, so that events may lag or be skipped but do
not go back. `NextCond` is client-go's UntilWithoutRetry (external): one event may
meet several conditions, and a condition once met is not asked again.

*ServiceAccountSecrets.* Create is Get account, Create secret, Patch account;
delete is Get account, Patch account, Delete secret. The lists are counts of
names, the annotation a target for each name, known by the type of the secret.

*Import.* `Plan(descriptor)` is the sequence of resources in the order of both
loops of ImportDescriptor. `Construct` is one turn of relocateDescriptor,
`Relocation` the end of it; `GetExisting`, `Create` or `Patch`, and `WaitResolved`
are one save function. A store's sources are the set of references it lists. The
annotation with the time of the import only matters in that a patch is never
empty. A builder's status says which generation of its stack and store it was
built with; the model also keeps their names and specs there, which kpack does not
report, so that `BuildersAreRebuilt` can compare the two. The controller's cache may lag, but
not on whom a builder depends: `Reconcile` takes what is there now or what was seen of the
same name before (`LastSeen`). With --show-changes, `Summarize`
reads one resource after the other and compares it as `ImportDiff` says, and `Confirm`
is the answer of the user; `shown` keeps which resources the summary named.

*Resource.* `kind` is chosen once, at the start. `Get` is the Get of patch and save;
`Make` is `create()` up to its request (reading kp-config, the factory's validation,
the uploads, the end of a dry run) and `Update` is `patch()` up to its request, with
the test for an empty patch; `Create`, `Patch` and `Delete` are the requests, `Wait`
the waiter for the object it was given (the details are in `Waiter`). kp-config is a
map that somebody else may set at any time, and every read of it may fail, which
`GetKpConfig` turns into an empty map. When `kind` is "kpconfig" the object is that
map itself. `DeclaredFlags` and `RequiredFlags` are what the command line parser lets through
(`LinesAssumption`), kind by kind. An empty flag counts as one not given, as in the code,
but for `--sub-path` of an image, which clears the field (`Plain`). An image is a pair of the repository it was pushed to and its digest,
`Relocated` says which fields of a spec hold such pairs.

*LifecycleConfig.* `Start` has the first read of the map and `Read` the second;
between them `Fetch` finds out the reference, `Upload` is the push with the deferred
Stop of the spinner, and `Edit` writes to the copy from the first read. `Relocated`
holds where `Relocate` may return. `Patch` sends the difference between the second
read and the edited first one, resource version included. The four actions of `Write`
are the goroutine: a process in `Terminals` has a terminal to draw on, the others end
their goroutine at once. Everything in the map but the image is one other key.

*Builds.* A build has the second it was created in and an outcome. `LastOf` is the end
of the sorted list and may be any of several builds with the same time. `TriggerList`
and `TriggerPatch` are the two requests of trigger, `ImageStatusGet` and
`ImageStatusList` the two of image status, `BuildStatus` the one of build status and
logs. The rest is kpack's controller (external): a new build once the newest is over
and is annotated or its inputs changed; the image's status from the builds there are,
some time later; and the history limit, which deletes the oldest.

*KpackCompat.* No state of its own, so no actions: an operation takes what a server
stores for a kind and gives what it stores afterwards and the answer. `Serve...` is the
server (external), `Create` to `Watch` the wrapper's methods, one definition for the ten
files that repeat them. A conversion renames fields one to one.

## 3. The runs

Bounds that apply throughout: one object of each name, one or two processes, one
or two repositories, two or three images, and `MaxGeneration` (no command starts
once the object was changed that often; `MaxRefs` and `MaxVersions` likewise).
Two processes are enough for every pairwise interleaving. Two repositories are
enough for one image to have two references. Two images tell "all" from "some"
and from "the other one". Generation 2, 3 or 4 is enough for a change, a change of
that, and a status that is behind. Every process may run any number of commands,
one after the other, as long as the generation bound lets it.

| run | shows |
|---|---|
| `ClusterStoreSequential` | All kinds and modes of command, one at a time, with crashes, a repository that changes and a status that lags. `AddTakesEffect`, `ImplementsStoreContents` (refinement of `StoreContents`: what each command and each dry run may change, by its own line), `RemovalIsExact` (what a remove takes out under a status of the last generation). Four generations, so that a status can list images that were removed and added again under another name |
| `ClusterStoreConcurrent` | Two overlapping processes: `SourcesUploaded`, `DigestsUnique`. Symmetric in processes and repositories |
| `ClusterStoreLostUpdate` | *Violation.* Two overlapping adds both succeed, and one buildpackage is gone |
| `Waiter` | Wait for a builder at generation 2 of store and stack, all three values of Ready, up to four versions before the controller's last word: `VerdictIsCurrent`, `VerdictSawDependencies`, `SuccessIsReady`, `WaitNoticesVerdict`; `TypeOK` also says that nothing is judged, nor reported, before an event has brought a version |
| `SecretsOneAccount` | Two names, one account, crashes anywhere: `NoDanglingReference`, `AccountIsConsistent`, `CommandsTakeEffect`. Also evaluates the assumptions of `SecretFlags` |
| `ImportSequential` | Two releases of a store, a stack and a builder with a summary before each, a stack with mismatched ids, an empty store, any number of imports with crashes and a lagging controller: `DependenciesObserved`, `BuildersAreRebuilt`, `OneReferenceEach`, `StackIdsAgree`, `StoresOnlyGrow`, `SummaryIsComplete` |
| `ImportConcurrent` | Two overlapping imports, two dry runs among the command lines, and somebody who deletes the store: `ImagesUploaded`, `RelocatedBeforeSaved` |
| `ImportFull` | Every kind of resource and every default, v1alpha3, an invalid descriptor, all modes, one repository: `ImportedAsDescribed`, `DryRunHasNoEffect`, `ImportEnds` |
| `Resource` | Two overlapping runs of kp on one object of each of the eight kinds, three to nine command lines a kind, crashes, two kp-configs and one that cannot be read: `ImagesUploaded`, `KeysAgree`, `SuccessIsOfThisWriteElsewhere`, `NoDefaultsForPatches`, `TakesEffect`, `StaysWhole`. Symmetric in processes. Among the lines are a patch and a save of an image with another `--tag`, which `NoDefaultsForPatches` holds to the docs (ignored for a patch). Also evaluates `LinesAssumption`: the command lines are ones the parser lets through |
| `ResourceStaleWait` | *Violation.* A patch of a stack waits for the object as it was read, whose generation and status are those of before the patch |
| `Builds` | Three builds, a history of one success and one failure, one kp that triggers, asks for the image's status and for builds by number: `TriggerIsAnswered`, `StatusIsCoherent`, `ShownAsAsked`. Also evaluates the assumptions of `ImageList` and `KpackCompat` |
| `LifecycleConfig` | Two overlapping patches, one on a terminal and one not, in all three modes, an image that is no lifecycle, uploads that fail, and others who write, delete and re-create the map, up to its third version: `NamesUploaded`, `LineIsClear`, `UndoesNothing`, `PatchEnds` |

The two violations are behaviours of the code that contradict what its docs or
tests say; `PROJECT.json` quotes them under "findings".

`Resource` stops at generation 2 for the cluster-scoped kinds, which have kp-config
and the registry besides the object, and at 3 for the others: enough for a patch
that was computed from an object that has changed twice since. The command lines of
a kind are chosen so that two of them name different fields, undo each other, or ask
for what is there already.

In `Builds` one process is enough, because the commands write only annotations: what
they must get along with is the controller. Three builds let two come and go between
the requests of a command, with a history limit of one. Builds are a second apart: with
two in the same second trigger may annotate the older one, a hazard with a note.

Deadlock is not checked in `Waiter` (the wait is over and the object may not change
any more) and in the two runs of `Resource` (no command starts once the generation
bound is reached, and some kinds have neither a controller nor a kp-config that
changes); it is everywhere else.

**Why some properties are checked without overlap.** A merge patch replaces a
list whole, so everything about *contents* (AddTakesEffect, the lists of an
account, ImportedAsDescribed, StackIdsAgree, StoresOnlyGrow) is only true of
commands that do not overlap, and says so. `TakesEffect` and `StaysWhole` are
checked in a run with overlap, and speak of the writes for which the object is
still as it was read. What is true under overlap (SourcesUploaded, DigestsUnique,
ImagesUploaded, RelocatedBeforeSaved, KeysAgree, NoDefaultsForPatches, and all of
`LifecycleConfig`) is checked
under overlap. `ClusterStoreLostUpdate` shows the difference.

**Fairness.** `FairSpec` adds weak fairness of the steps of a started process
(a program that runs keeps running, and a request returns or fails); never of
`Start`, of `Crash`, or of other users. In `Waiter` and `Import`
the timer may never fire, but the controller catches up in the end, as a Kubernetes
controller with a work queue and resyncs does, and `WaitNoticesVerdict` and `ImportEnds`
say that this alone ends the wait. In `Builds` the controller goes on creating builds when there
is a reason, and a build that runs ends; `TriggerIsAnswered` needs nothing of kp. In
`LifecycleConfig` the goroutine of the spinner begins to run, and does not overlook a
channel that stays closed for ever (`Tick` and the closed channel are both ready, and
`select` takes either); it may draw any number of frames. `ClusterStore` and `Resource` have no liveness
property: their commands are a bounded number of requests, and their wait is `Waiter`.

## 4. Assumptions about what is not in `src/`

* The API server applies a merge patch to the latest version, increments the
  generation if and only if the spec changed, refuses to create a name that is
  taken or an object with a resource version.
* Controllers report the generation they saw, may lag, and do not go back.
* An informer delivers versions in order and may skip some.
* A push is atomic per item. In `Import`, what was pushed of an item before the
  import failed is not kept: it could only make the registry larger.
* A digest identifies an image.
* kpack starts a build only when the newest one is over, numbers it one more, and
  deletes only the oldest of each outcome beyond the history limits.
* kpack's conversions between v1alpha1 and v1alpha2 lose nothing: each field has its
  own in the other version, under the same name or another.
* A second read of a ConfigMap that gives the same resource version gives the same map.
* A buildpack's order, a builder image's order label and the labels of a stack or
  lifecycle image are what the constants say, and do not change.

These definitions are marked external in the map of `PROJECT.json`.

## 5. What is proved

The theorems hold for every value of the constants, under the assumptions the modules
name and TLC evaluates (`ConstantsAssumption`, `CommandsAssumption`, `WaiterAssumption`,
`NamesAssumption`, `ImportAssumption`, `SecretsAssumption`, `ResourceAssumption`,
`LinesAssumption`, `LifecycleAssumption`, `BuildsAssumption`, `CompatAssumption`), and
under the hypotheses their statements name. Every property that is not about liveness and
that a passing run checks is stated by a theorem, but for `TakesEffect`, of which
`TakesEffectButLists` is the part within reach. The invariants below were first checked
by TLC, as invariants of the runs.

*The hypotheses, and why they are needed.*

| hypothesis | of | why |
|---|---|---|
| `Procs = {p}` | the sequential properties of stores, secrets and imports | a merge patch replaces a list whole: with overlap they are false (section 3) |
| `CreatesDistinct` | `DigestsUniqueCorrect`, `RemovesWhatIsNamed` | MakeStore does not look for duplicates: `create -b x -b x` lists x twice |
| `ProvidesApart`: no two buildpackages hold the same buildpack | `RemovesWhatIsNamed` | of two images that hold a buildpack, a remove takes out one |
| `PlansDistinct`: no accepted descriptor asks for one object twice | `ImportedAsDescribedCorrect`, `BuildersAreRebuiltCorrect` | the second write replaces the first. The lemma `DistinctByNames` derives it from the names of entries: they differ, and none is the "default" that the descriptor has besides |
| `Deletable = {}`, or `NoDependencyDeleted` (of stacks and stores only) | `ImportedAsDescribedCorrect`, `SummaryIsCompleteCorrect`; `BuildersAreRebuiltCorrect` | somebody who deletes an object after it was saved takes it out of the result; one who deletes it after the summary makes the import create what the summary did not show |
| `0 \notin Gaps`: no two builds in the same second | `StatusIsCoherentCorrect`, `ShownAsAskedCorrect` | builds are sorted by a time in seconds, with a sort that is not stable |
| `NoneIsNoSource`: the model value for "absent" is no revision and no pair | `StaysWholeCorrect` | says of the constant what TLC has by construction |

Each of them holds of the constants of the run that checks the property.

* `MergePatchProofs`. `PatchCompletes`: a patch applied to the object it was
  computed from gives the wanted object. `PatchFrame`: fields the edit did not
  touch stay as they are, whatever they have become. `NoPatchNoChange`.
* `ClusterStoreProofs`, for any number of overlapping processes but where it says one.
  * `TypeCorrect`. TypeOK is not inductive: a process that is about to upload must
    have a repository and something to upload (`UploadReady`).
  * `UploadedCorrect`: `[]SourcesUploaded`. The invariant adds that what a live
    process may write was uploaded (`NextUploaded`), that idle processes hold
    nothing, and that no dry run reaches a patch. The registry only grows, so
    interleaving cannot break it; `PatchIsAllOrNothing` covers the stale patch.
  * `DigestsUniqueCorrect`: `[]DigestsUnique`. The invariant adds that every
    list a process holds is unique, and that what create has yet to append is not
    in its list (`CreateFresh`).
  * `AddTakesEffectCorrect` and `ImplementsStoreContentsCorrect`, for one process: the
    property and the refinement have one inductive invariant. `SoleInv` adds what the process
    has collected so far of what it was asked for, at each request, that what it has read is
    what is there, and that a status never lists a buildpack that its images do not hold. One
    lemma for each action shows that it is a step of `StoreContents`, by the line of the
    process that takes it, or changes nothing that `StoreContents` sees. The attempt found that `StoreContents` promised too much: a
    remove with an out of date status may report success and take out less than it
    names, so its `Remove` takes out a subset, and the run now has the four
    generations it takes to see that.
  * `RemovesWhatIsNamed`: `RemovalIsExact`, with a status that is up to date a remove takes
    out exactly what it names, and this under any overlap. `StatusIsFresh` says what "up to date" means: whoever
    observed the last generation lists what the store lists.
* `ImportProofs`. The first three hold for any number of overlapping imports of any descriptors.
  * `TypeCorrect`. TypeOK is not inductive: `Progress` adds that an import has constructed
    one object for each item before the one it is at, of that item's kind, and for all of
    them once it saves, which no dry run does. `MergedSpec` says that a patch computed from
    a stale read and merged into what is there now still leaves a spec of its kind.
  * `ImagesUploadedCorrect`: `[]ImagesUploaded`. `UploadInv` adds that what an uploading
    import has constructed, and what any import has read before a write, names pushed
    images only. A written spec names nothing but what was constructed, read, or there
    already, and the registry only grows, so no overlap can break it.
    `RelocatedBeforeSavedCorrect` follows from the same invariant.
  * `DryRunHasNoEffectCorrect`: the action property, since no dry run reaches the saves.
  * `StackIdsAgreeCorrect` and `StoresOnlyGrowCorrect`, for one import at a time and whatever
    stops it or deletes its objects. `SequentialInv` adds that what is about to be patched
    is what was read, unless it is gone (`Fresh`), so that the patch completes the edit
    (`PatchCompletes`). Overlapping imports break `Fresh`, and both properties with it. The
    theorems that follow rest on it too.
  * `DependenciesObservedCorrect`. `WaitInv` says that the import waits for the generation it
    wrote, and that what it has waited for stays observed unless the import writes it again
    (a descriptor may name one object twice). Builders come last in every plan (`BuildersLast`).
  * `OneReferenceEachCorrect`. `StoreInv` says that a constructed store has one reference
    for a digest and holds everything the cluster's has, so that the union of the two adds nothing.
  * `ImportedAsDescribedCorrect`. `MadeInv` says that every constructed object is what its item
    asks for, `DescribedInv` that every written one still is.
  * `BuildersAreRebuiltCorrect`. `SeenInv` says that what a builder reports to have seen was
    there in the generation it names, `RebuiltInv` that the import knows the generations of all
    it saved, and that a builder it has waited for was made of the stack and store its item
    names, as they are now. The attempt found that the controller of the model was too free:
    it could report to have seen a stack under the name of another.
  * `SummaryIsCompleteCorrect`: the action property. `Announced` says of each item the summary
    has passed without showing it that the cluster's object needs no change, and keeps
    saying so while the import relocates and saves.
* `WaiterProofs`, for any generations and any number of versions. The invariant
  says the observed generation never decreases along the history (`Monotone`), it
  is what keeps the first condition true when the second is met by a later event;
  `Passed` says what the conditions met so far mean for the last version seen.
  From it follow `TypeCorrect`, `VerdictIsCurrentCorrect`,
  `VerdictSawDependenciesCorrect` and `SuccessIsReadyCorrect`. The last one has an
  exception the code really has: the condition that minds an Unknown is not asked
  again, so a builder whose verdict is taken back before it has caught up with its
  store and stack passes for ready (`TakenBack`). A wait without the second
  condition has no such exception.
* `ResourceProofs`, for any number of overlapping runs of kp, any command lines that the
  parser lets through, and all eight kinds.
  * `KeysAgreeCorrect`: `[]KeysAgree`, of kp-config. A patch is computed from a map
    that may be out of date, so `KeysAgree` alone is not inductive; the invariant
    (`KeysInv`) adds that the map a process has read and the map it wants have equal
    keys too. Then the two keys of a setting differ together between those maps, the
    patch has both or none (`PatchGood`), and merging it into any good map gives a
    good map. This would fail for a setter that writes one of the keys.
  * `ImagesUploadedCorrect`: `[]ImagesUploaded`. `UploadInv` adds that what a process is
    about to write was pushed, and that a stored object has the fields that name images:
    without them, what a merge leaves of two specs would not be bounded by the two.
  * `SuccessIsOfThisWriteElsewhereCorrect`: `JudgedInv` adds that nothing counts as written
    before the request, and that a process waits for the generation its request produced.
  * The action properties. `DueInv` says that what a process is about to write is what
    `create()` or `patch()` makes of its flags and of what it has read. For each kind there
    is a lemma on what create makes of the flags (`StackMade` to `ImageMade`) and one on what
    patch does (`StackUpdated` to `ImageUpdated`): each flag shows, and a field that differs
    is one a flag names. `NoDefaultsForPatchesCorrect` follows whatever overlaps.
    `TakesEffectButLists` follows for the writes that meet what was read, and `StaysWholeCorrect` with the lemmas on sources and ids.
  * `TakesEffectButLists` needs no hypothesis. It says of every command that its flags take
    effect, all but those that edit the tags, variables or bindings of an image that exists.
    A destination counts only with the local path without which the code ignores it. An edit
    of a list is a fold over what the flag lists: what it leaves for every input is an
    induction over data, so `TakesEffect` itself is left to TLC. The edits are not right for
    every input either: of a tag, variable or binding that a list has twice, a delete takes
    out the first.
* `LifecycleConfigProofs`, for any number of overlapping commands and of others who
  write the map.
  * `TypeCorrect`: TypeOK needs `Prepared` (which locals are set at which request).
  * `LineIsClearCorrect`: `[]LineIsClear`. The invariant (`SpinnerInv`) says that the
    goroutine runs only between `Fetch` and the return, has not closed its channel
    while it runs, and that only a spinning one leaves a frame behind.
  * `NamesUploadedCorrect`: `[]NamesUploaded`. `UploadInv` carries "was pushed" from the
    relocator's result, over the edited map, to the patch: whatever the patch leaves
    out, the image in the map is the old one or a pushed one.
  * `UndoesNothingCorrect`: the action property. Resource versions are handed out once,
    so two maps with the same version are the same map (`SameRead`), of the two reads,
    and of each with the map as it is; `VersionInv` says so for every pair, and that no
    version is ahead of the server's. A patch whose two reads differ carries the older
    version, and the server no longer has that.
* `ServiceAccountSecretsProofs`. `TypeCorrect` for any processes, accounts and names.
  `AccountIsConsistentCorrect`, `NoDanglingReferenceCorrect` and
  `CommandsTakeEffectCorrect` for one process, one account and any number of names,
  crashes anywhere: with two processes or two accounts they do not hold. None of the
  three is inductive; `SecretsInv` adds, for each request, what the command has read and
  is about to write (`InProgress`) and what a finished one has left (`TookEffect`).
* `BuildsProofs`, first for any number of overlapping commands and any number of builds.
  * `StatusIsCoherentCorrect` and `ShownAsAskedCorrect`. `BuildsInv` says that builds are
    numbered and created in the same order, that only the last may be running and is never
    pruned (`IsHistory`), and that what an image says of a success is borne out by a build
    that is still there (`Backed`), also of an image read before the builds were: pruning
    keeps the newest success, because the history limit is at least one. `ShowsInv`
    keeps what was printed.
  * About one request to any set of stored objects, for all fields and any renaming of
    them: `RequestsAgreeCorrect`, create, update, get, delete, delete collection and list
    leave and answer what a v1alpha2 server would. `PatchesAgreeCorrect`: so does a patch,
    of fields that both versions call the same. `OtherPatchesAreLostCorrect`: a patch of
    fields that only v1alpha2 knows is accepted and changes nothing, because the wrapper
    converts objects but not patches.

*Only model-checked.* Liveness (`WaitNoticesVerdict`, `ImportEnds`, `PatchEnds`,
`TriggerIsAnswered`) is out of the prover's reach. So is what a recursive
definition computes for every input: the edits of an image's lists, for which `TakesEffect`
is left to the run `Resource`. The assumptions on `SecretFlags` and `ImageList` are
evaluated by TLC.


## 6. What is not modelled

* Printing, tables, log streaming and with it `image --wait`, archives, TLS and
  credentials: formatting and I/O, no decisions about shared state.
* The lists and statuses that print the answer to one request.
* The contents of a secret, and the prompts for a password.
* A command given both dry-run flags at once.
* The tag an upload leaves behind: the relocator names it after the second, so that two
  uploads in the same second share one. Nothing of kp reads it; everything names digests.
* What a namespace flag and the kubeconfig select: a client has one namespace.

Runs are kept few. Violations that repeat the lesson of another (a stack or an
account torn by overlap, a second service account, a repeated `-b`, a descriptor with
a stack called "default", a destination of "-source", a binding given twice, a builder's
stale status after its stack was deleted and re-created, two builds in the same second)
stay hazards with a note in `PROJECT.json`. So does a disagreement that `TakesEffect` leaves
out: `docs/kp_builder_save.md:13` and the help text in `commands/builder/save.go` say that
`--tag` is ignored for a patch, while `builder/patch.go:86` sets the tag, for save as for
patch, and `patch_test.go` expects it of patch.

What a continuation would add: what the edits of an image's lists do for lists without
duplicates, entry by entry; a theorem on `SecretFlags` and `ImageList` in place of the
assumptions TLC evaluates; and more of what `import` owes overlapping users, where only the
registry and the order of relocating and saving are settled.
