------------------------------- MODULE Import -------------------------------
(***************************************************************************)
(* `kp import`: relocate every image of a descriptor, then create or       *)
(* update its lifecycles, buildpacks, stores, stacks and builders one      *)
(* after the other, waiting for each before the next.  Other runs of kp,   *)
(* the kpack controller or a crash may come between any two requests.      *)
(***************************************************************************)
EXTENDS ImportDiff, FiniteSets, MergePatch

CONSTANTS
  Procs,         \* runs of `kp import` that may overlap
  Repos,         \* values of default.repository
  StackId,       \* [Images -> id], the io.buildpacks.stack.id label
  Commands,      \* the command lines a process may be started with
  Deletable,     \* objects that other runs of kp may delete
  Unready,       \* objects that may come up unready
  NoCommand,     \* what an idle process runs
  NoSpec,        \* the spec of an object that does not exist
  MaxGeneration  \* bound: no import starts while an object was changed this often

Kinds == {"lifecycle", "buildpack", "store", "stack", "builder"}
Keys == Kinds \X Names
Refs == Repos \X Images
Modes == {"live", "dry", "upload"}

Key(item) == <<item.kind, item.name>>
StackKey(item) == <<"stack", item.stack>>
StoreKey(item) == <<"store", item.store>>

\* Names are all the names there are, those of the copies of the defaults included.
ASSUME ImportAssumption ==
  /\ NoRepo \notin Repos
  /\ Commands \subseteq [descriptor: Descriptors, mode: Modes, show: BOOLEAN]
  /\ \A c \in Commands : \A k \in DOMAIN Plan(c.descriptor) : Key(Plan(c.descriptor)[k]) \in Keys
  /\ Deletable \subseteq Keys
  /\ Unready \subseteq Keys
  /\ MaxGeneration \in Nat

VARIABLES
  repo,      \* default.repository in kp-config
  registry,  \* images pushed so far
  objects,   \* the API objects: do they exist, spec, generation, status
  pc,        \* where each process is
  cmd,       \* the command line it runs: a descriptor, the dry run, --show-changes
  dest,      \* the repository it read from kp-config
  pos,       \* the item of its plan it is at
  shown,     \* the objects its summary says it will change
  built,     \* the objects it has constructed, one for each item
  base,      \* the object it read before it writes
  want,      \* the generation it waits for
  gens       \* storeToGeneration and stackToGeneration

vars == <<repo, registry, objects, pc, cmd, dest, pos, shown, built, base, want, gens>>
locals == <<cmd, dest, pos, shown, built, base, want, gens>>

\* What a builder's image was made of: each dependency's name and spec, and its
\* generation, which is all that kpack reports of it.
Unseen == [name |-> NoName, gen |-> 0, spec |-> NoSpec]
NoStatus == [observed |-> 0, ready |-> FALSE, stack |-> Unseen, store |-> Unseen]
NoObject == [exists |-> FALSE, spec |-> NoSpec, gen |-> 0, status |-> NoStatus]

\* The sources of a store are the references it lists, however often it lists them.
SpecsOf(kind) ==
  CASE kind \in {"lifecycle", "buildpack"} -> [image: Refs]
    [] kind = "stack" -> [id: {StackId[i] : i \in Images}, build: Refs, run: Refs]
    [] kind = "store" -> [sources: SUBSET Refs]
    [] kind = "builder" -> [tag: Repos, stack: Names, store: Names \cup {NoName}]

SeenBy(kind) == {Unseen} \cup [name: Names, gen: Nat \ {0}, spec: SpecsOf(kind)]
Status == [observed: Nat, ready: BOOLEAN, stack: SeenBy("stack"), store: SeenBy("store")]
ObjectsOf(kind) ==
  {NoObject} \cup [exists: {TRUE}, spec: SpecsOf(kind), gen: Nat \ {0}, status: Status]

TypeOK ==
  /\ repo \in Repos \cup {NoRepo}
  /\ registry \subseteq Refs
  /\ DOMAIN objects = Keys
  /\ \A o \in Keys : objects[o] \in ObjectsOf(o[1])
  /\ pc \in [Procs -> {"idle", "summary", "confirm", "relocate", "get", "write", "wait",
                        "ok", "skipped", "failed"}]
  /\ cmd \in [Procs -> Commands \cup {NoCommand}]
  /\ dest \in [Procs -> Repos \cup {NoRepo}]
  /\ pos \in [Procs -> Nat \ {0}]
  /\ shown \in [Procs -> SUBSET Keys]
  /\ DOMAIN built = Procs /\ DOMAIN base = Procs
  /\ \A p \in Procs : \A n \in DOMAIN built[p] :
       \E k \in Kinds : built[p][n] \in [spec: SpecsOf(k), existed: BOOLEAN]
  /\ \A p \in Procs : \E k \in Kinds : base[p] \in ObjectsOf(k)
  /\ want \in [Procs -> Nat]
  /\ gens \in [Procs -> [Keys -> Nat]]

Init ==
  /\ repo \in Repos \cup {NoRepo}
  /\ registry = {}
  /\ objects = [o \in Keys |-> NoObject]
  /\ pc = [p \in Procs |-> "idle"]
  /\ cmd = [p \in Procs |-> NoCommand]
  /\ dest = [p \in Procs |-> NoRepo]
  /\ pos = [p \in Procs |-> 1]
  /\ shown = [p \in Procs |-> {}]
  /\ built = [p \in Procs |-> <<>>]
  /\ base = [p \in Procs |-> NoObject]
  /\ want = [p \in Procs |-> 0]
  /\ gens = [p \in Procs |-> [o \in Keys |-> 0]]

-----------------------------------------------------------------------------

ItemsOf(p) == Plan(cmd[p].descriptor)
Current(p) == ItemsOf(p)[pos[p]]
IsDryRun(p) == cmd[p].mode # "live"

\* Bug: the relocator that discards serves the live imports.
IsUploadingOnlyDry(p) == cmd[p].mode = "upload"

IsUploading(p) == cmd[p].mode # "dry"
ImagesOf(items) == UNION {{item.images[k] : k \in DOMAIN item.images} : item \in items}
PlanItems(p) == {ItemsOf(p)[k] : k \in DOMAIN ItemsOf(p)}

DigestsOf(refs) == {r[2] : r \in refs}

\* Bug: references are compared, repository and all.
AddToStoreByReference(sources, refs) == sources \cup refs

\* AddToStore: an image whose digest is already listed is not listed again.
AddToStore(sources, refs) ==
  sources \cup {r \in refs : r[2] \notin DigestsOf(sources)}

\* The spec each factory makes.  A store starts from the sources that are there.
MakeSpec(item, dst, existing) ==
  CASE item.kind \in {"lifecycle", "buildpack"} ->
         [image |-> <<dst, item.images[1]>>]
    [] item.kind = "stack" ->
         [id |-> StackId[item.images[1]],
          build |-> <<dst, item.images[1]>>, run |-> <<dst, item.images[2]>>]
    [] item.kind = "store" ->
         [sources |-> AddToStore(IF existing.exists THEN existing.spec.sources ELSE {},
                                 Relocated(dst, ImagesOf({item})))]
    [] item.kind = "builder" ->
         [tag |-> dst, stack |-> item.stack, store |-> item.store]

\* Bug: the superset starts empty instead of from the first store.
SupersetFromNothing(first, second) == [sources |-> second.sources \ first.sources]

\* createBuildpackageSuperset compares whole references.
CreateBuildpackageSuperset(first, second) == [sources |-> first.sources \cup second.sources]

\* Bug: only a store is ever updated.
UpdateSpecOfStoresOnly(item, existing, new) ==
  IF item.kind = "store" THEN CreateBuildpackageSuperset(existing, new) ELSE existing

\* The spec a save wants: the constructed one, but a store keeps what it has.
UpdateSpec(item, existing, new) ==
  IF item.kind = "store" THEN CreateBuildpackageSuperset(existing, new) ELSE new

Goto(p, label) == pc' = [pc EXCEPT ![p] = label]
Stop(p, label) == Goto(p, label) /\ UNCHANGED <<repo, registry, objects, locals>>

-----------------------------------------------------------------------------
(* A run of kp import *)

\* The kp-config map is read once, before the descriptor.
Start(p) ==
  /\ pc[p] = "idle"
  /\ \A o \in Keys : objects[o].gen < MaxGeneration
  /\ \E c \in Commands :
       /\ cmd' = [cmd EXCEPT ![p] = c]
       /\ Goto(p, IF ~ValidateDescriptor(c.descriptor) THEN "failed"
                  ELSE IF c.show THEN "summary" ELSE "relocate")
  /\ dest' = [dest EXCEPT ![p] = repo]
  /\ UNCHANGED <<repo, registry, objects, pos, shown, built, base, want, gens>>

\* SummarizeChange: one Get for each resource, in the order of the plan.
Summarize(p) ==
  /\ pc[p] = "summary"
  /\ pos[p] \in DOMAIN ItemsOf(p)
  /\ LET item == Current(p)
         object == objects[Key(item)]
         diff == IF item.kind = "store" THEN DiffClusterStore(item, object, dest[p])
                 ELSE DiffOther(item, object, MakeSpec(item, dest[p], object))
     IN  \/ ~CanSummarize(item, dest[p]) /\ Stop(p, "failed")
         \/ /\ CanSummarize(item, dest[p])
            /\ shown' = [shown EXCEPT ![p] = IF diff THEN @ \cup {Key(item)} ELSE @]
            /\ pos' = [pos EXCEPT ![p] = @ + 1]
            /\ UNCHANGED <<repo, registry, objects, pc, cmd, dest, built, base, want, gens>>

Summarized(p) ==
  /\ pc[p] = "summary"
  /\ pos[p] \notin DOMAIN ItemsOf(p)
  /\ Goto(p, "confirm")
  /\ pos' = [pos EXCEPT ![p] = 1]
  /\ UNCHANGED <<repo, registry, objects, cmd, dest, shown, built, base, want, gens>>

\* Only after a summary, and without --force, somebody is asked; "Skipping import" is exit 0.
Confirm(p) ==
  /\ pc[p] = "confirm"
  /\ Stop(p, "relocate") \/ Stop(p, "skipped")

\* DefaultRepository's error.
HasDefaultRepository(p) == dest[p] # NoRepo

\* Bug: the stack takes the id of its build image.
StackIdsNotCompared(item) == TRUE

\* ValidateStackIDs
StackIdsMatch(item) ==
  item.kind = "stack" => StackId[item.images[1]] = StackId[item.images[2]]

\* One resource of relocateDescriptor: the Get of a store, the upload of the item's
\* images, and the object.  The discarding relocator of a dry run names the same
\* references without pushing them.
Construct(p) ==
  /\ pc[p] = "relocate"
  /\ pos[p] \in DOMAIN ItemsOf(p)
  /\ LET item == Current(p)
         refs == Relocated(dest[p], ImagesOf({item}))
         existing == IF item.kind = "store" THEN objects[Key(item)] ELSE NoObject
         newStore == item.kind = "store" /\ ~existing.exists
         valid == /\ HasDefaultRepository(p)
                  /\ StackIdsMatch(item)
                  /\ newStore => item.images # <<>>  \* MakeStore's validate
     IN  \/ ~valid /\ Stop(p, "failed")
         \/ /\ valid
            /\ registry' = IF IsUploading(p) THEN registry \cup refs ELSE registry
            /\ built' = [built EXCEPT ![p] = Append(@,
                 [spec |-> MakeSpec(item, dest[p], existing), existed |-> existing.exists])]
            /\ pos' = [pos EXCEPT ![p] = @ + 1]
            /\ UNCHANGED <<repo, objects, pc, cmd, dest, shown, base, want, gens>>

\* Bug: the loop ends before the last item.
RelocationOffByOne(p) ==
  /\ pc[p] = "relocate"
  /\ pos[p] >= Len(ItemsOf(p))
  /\ Goto(p, IF IsDryRun(p) THEN "ok" ELSE "get")
  /\ pos' = [pos EXCEPT ![p] = 1]
  /\ UNCHANGED <<repo, registry, objects, cmd, dest, shown, built, base, want, gens>>

\* Bug: a dry run saves what it has relocated.
RelocationOfDryRun(p) ==
  /\ pc[p] = "relocate"
  /\ pos[p] \notin DOMAIN ItemsOf(p)
  /\ Goto(p, "get")
  /\ pos' = [pos EXCEPT ![p] = 1]
  /\ UNCHANGED <<repo, registry, objects, cmd, dest, shown, built, base, want, gens>>

\* Only now ImportDescriptor starts to save; ImportDescriptorDryRun is done.
Relocation(p) ==
  /\ pc[p] = "relocate"
  /\ pos[p] \notin DOMAIN ItemsOf(p)
  /\ Goto(p, IF IsDryRun(p) THEN "ok" ELSE "get")
  /\ pos' = [pos EXCEPT ![p] = 1]
  /\ UNCHANGED <<repo, registry, objects, cmd, dest, shown, built, base, want, gens>>

\* The Get of each save function, and the end of the last loop.
GetExisting(p) ==
  /\ pc[p] = "get"
  /\ \/ pos[p] \notin DOMAIN ItemsOf(p) /\ Stop(p, "ok")
     \/ /\ pos[p] \in DOMAIN ItemsOf(p)
        /\ base' = [base EXCEPT ![p] = objects[Key(Current(p))]]
        /\ Goto(p, "write")
        /\ UNCHANGED <<repo, registry, objects, cmd, dest, pos, shown, built, want, gens>>

\* The server's part of a write, and the object it returns to be waited for.
Store(p, object) ==
  /\ objects' = [objects EXCEPT ![Key(Current(p))] = object]
  /\ want' = [want EXCEPT ![p] = object.gen]
  /\ Goto(p, "wait")
  /\ UNCHANGED <<repo, registry, cmd, dest, pos, shown, built, base, gens>>

\* NotFound: Create what was constructed.  The server refuses a name that is taken, and
\* an object with a resource version, which a store made by AddToStore has.
Create(p) ==
  /\ pc[p] = "write"
  /\ ~base[p].exists
  /\ LET new == built[p][pos[p]]
         refused == objects[Key(Current(p))].exists \/ new.existed
     IN  \/ refused /\ Stop(p, "failed")
         \/ ~refused /\ Store(p, [exists |-> TRUE, spec |-> new.spec, gen |-> 1, status |-> NoStatus])

\* Patch with the difference to what was read.  The new timestamp makes sure that there
\* is a patch, but only a change of the spec makes a new generation.
Patch(p) ==
  /\ pc[p] = "write"
  /\ base[p].exists
  /\ LET o == objects[Key(Current(p))]
         updated == UpdateSpec(Current(p), base[p].spec, built[p][pos[p]].spec)
         spec == ApplyMergePatch(o.spec, CreatePatch(base[p].spec, updated))
         gen == IF spec = o.spec THEN o.gen ELSE o.gen + 1
     IN  \/ ~o.exists /\ Stop(p, "failed")
         \/ o.exists /\ Store(p, [exists |-> TRUE, spec |-> spec, gen |-> gen, status |-> o.status])

\* The lookup of a name the import did not save gives 0.
ExpectedGeneration(p, o) == IF o \in Keys THEN gens[p][o] ELSE 0

\* Bug: the generation of the object is not asked for.
HasResolvedIgnoresGeneration(p) == objects[Key(Current(p))].exists

\* Bug: the builder is asked about its store alone.
HasResolvedIgnoresStack(p) ==
  LET item == Current(p)
      o == objects[Key(item)]
  IN  /\ o.exists
      /\ o.status.observed >= want[p]
      /\ item.kind = "builder" /\ o.status.store.gen # 0 =>
           o.status.store.gen >= ExpectedGeneration(p, StoreKey(item))

\* Bug: the observed generation has to be a later one.
HasResolvedLater(p) ==
  LET o == objects[Key(Current(p))] IN o.exists /\ o.status.observed > want[p]

\* hasResolved and, for a builder, builderHasResolved; 0 is a kpack that reports nothing.
HasResolved(p) ==
  LET item == Current(p)
      o == objects[Key(item)]
      upToDate(seen, dependency) == seen.gen # 0 => seen.gen >= ExpectedGeneration(p, dependency)
  IN  /\ o.exists
      /\ o.status.observed >= want[p]
      /\ item.kind = "builder" => /\ upToDate(o.status.store, StoreKey(item))
                                  /\ upToDate(o.status.stack, StackKey(item))

WaitResolved(p) ==
  /\ pc[p] = "wait"
  /\ HasResolved(p)
  /\ LET o == Key(Current(p)) IN
       \/ ~objects[o].status.ready /\ Stop(p, "failed")
       \/ /\ objects[o].status.ready
          /\ gens' = IF o[1] \in {"store", "stack"}
                     THEN [gens EXCEPT ![p][o] = want[p]] ELSE gens
          /\ pos' = [pos EXCEPT ![p] = @ + 1]
          /\ Goto(p, "get")
          /\ UNCHANGED <<repo, registry, objects, cmd, dest, shown, built, base, want>>

\* A failed request, a wait that times out, or the end of the process, before any step.
\* What was pushed of the item it was at is not kept: it could only make registry larger.
Crash(p) ==
  /\ pc[p] \notin {"idle", "ok", "skipped", "failed"}
  /\ Stop(p, "failed")

Finish(p) ==
  /\ pc[p] \in {"ok", "skipped", "failed"}
  /\ Goto(p, "idle")
  /\ cmd' = [cmd EXCEPT ![p] = NoCommand]
  /\ dest' = [dest EXCEPT ![p] = NoRepo]
  /\ pos' = [pos EXCEPT ![p] = 1]
  /\ shown' = [shown EXCEPT ![p] = {}]
  /\ built' = [built EXCEPT ![p] = <<>>]
  /\ base' = [base EXCEPT ![p] = NoObject]
  /\ want' = [want EXCEPT ![p] = 0]
  /\ gens' = [gens EXCEPT ![p] = [o \in Keys |-> 0]]
  /\ UNCHANGED <<repo, registry, objects>>

-----------------------------------------------------------------------------
(* Everything else that changes the cluster *)

Seen(o) ==
  IF o \in Keys /\ objects[o].exists
  THEN [name |-> o[2], gen |-> objects[o].gen, spec |-> objects[o].spec] ELSE Unseen

CurrentSeen(o, dependency) ==
  IF o[1] # "builder" \/ ~objects[o].exists THEN Unseen ELSE Seen(<<dependency, objects[o].spec[dependency]>>)

\* What was seen of the dependency last time, unless the builder has named another since.
LastSeen(o, dependency) ==
  IF o[1] = "builder" /\ objects[o].exists
     /\ objects[o].status[dependency].name = objects[o].spec[dependency]
  THEN objects[o].status[dependency] ELSE Unseen

\* The kpack controller brings a status up to date.  A builder is made of its stack and
\* its store, and is ready only if it has seen those it names.
Report(o, ready, stack, store) ==
  /\ objects[o].exists
  /\ (ready /\ o[1] = "builder") =>
       stack # Unseen /\ (store # Unseen \/ objects[o].spec.store = NoName)
  /\ objects' = [objects EXCEPT ![o].status =
       [observed |-> objects[o].gen, ready |-> ready, stack |-> stack, store |-> store]]
  /\ UNCHANGED <<repo, registry, pc, locals>>

\* A cache that lags behind shows a builder its dependencies as they were last time.
Reconcile(o) ==
  \E stack \in {CurrentSeen(o, "stack"), LastSeen(o, "stack")},
     store \in {CurrentSeen(o, "store"), LastSeen(o, "store")},
     ready \in {TRUE} \cup {o \notin Unready} :
    Report(o, ready, stack, store)

CatchUp(o) == Report(o, TRUE, CurrentSeen(o, "stack"), CurrentSeen(o, "store"))

\* `kp clusterstore delete`, `kp clusterstack delete`, ...
Delete(o) ==
  /\ objects[o].exists
  /\ objects' = [objects EXCEPT ![o] = NoObject]
  /\ UNCHANGED <<repo, registry, pc, locals>>

\* `kp config default-repository <url>`
SetDefaultRepository ==
  /\ \E r \in Repos : repo' = r
  /\ UNCHANGED <<registry, objects, pc, locals>>

Step(p) ==
  \/ Summarize(p) \/ Summarized(p) \/ Confirm(p) \/ Construct(p) \/ Relocation(p) \/ GetExisting(p)
  \/ Create(p) \/ Patch(p) \/ WaitResolved(p)

Next ==
  \/ \E p \in Procs : Start(p) \/ Step(p) \/ Crash(p) \/ Finish(p)
  \/ \E o \in Keys : Reconcile(o)
  \/ \E o \in Deletable : Delete(o)
  \/ SetDefaultRepository

Spec == Init /\ [][Next]_vars

\* A started program keeps running, and the controller sees every change in the end.
FairSpec ==
  /\ Spec
  /\ \A p \in Procs : WF_vars(Step(p))
  /\ \A o \in Keys : WF_vars(CatchUp(o))
-----------------------------------------------------------------------------
(* What an import owes its user *)

Succeeded(p) == pc[p] = "ok" /\ ~IsDryRun(p)
InPlan(p, o) == \E item \in PlanItems(p) : Key(item) = o

RefsOf(o) ==
  LET spec == objects[o].spec IN
  CASE ~objects[o].exists -> {}
    [] objects[o].exists /\ o[1] \in {"lifecycle", "buildpack"} -> {spec.image}
    [] objects[o].exists /\ o[1] = "stack" -> {spec.build, spec.run}
    [] objects[o].exists /\ o[1] = "store" -> spec.sources
    [] objects[o].exists /\ o[1] = "builder" -> {}

\* No object ever names an image that is not in the registry, however imports overlap
\* or crash and whatever dry runs they mix with (relocateDescriptor comes first).
ImagesUploaded == \A o \in Keys : RefsOf(o) \subseteq registry

\* An import that saves anything has relocated everything: "does not create any
\* resources if any relocation fails" (importer_test.go).
RelocatedBeforeSaved ==
  \A p \in Procs :
    pc[p] \in {"get", "write", "wait"} =>
      Relocated(dest[p], ImagesOf(PlanItems(p))) \subseteq registry

\* After a successful import every resource of the plan is what the descriptor says; a
\* store has at least the buildpackages it lists.
ImportedAsDescribed ==
  \A p \in Procs : Succeeded(p) =>
    \A item \in PlanItems(p) :
      LET o == objects[Key(item)] IN
      /\ o.exists
      /\ IF item.kind = "store" THEN ImagesOf({item}) \subseteq DigestsOf(o.spec.sources)
         ELSE o.spec = MakeSpec(item, dest[p], NoObject)

\* A builder is not saved before the controller has observed what the same import made
\* of its stack and its store (the order of the loops, and a Wait in each).
DependenciesObserved ==
  \A p \in Procs :
    pc[p] = "wait" /\ Current(p).kind = "builder" =>
      \A o \in {StackKey(Current(p)), StoreKey(Current(p))} :
        InPlan(p, o) => objects[o].status.observed = objects[o].gen

\* When an import succeeds, its builders were made of the stacks and stores it has
\* imported and not of earlier ones (builderHasResolved).
BuildersAreRebuilt ==
  \A p \in Procs : Succeeded(p) =>
    \A item \in {i \in PlanItems(p) : i.kind = "builder"} :
      LET status == objects[Key(item)].status
          isSeen(o, seen) == InPlan(p, o) /\ objects[o].exists => seen.spec = objects[o].spec
      IN  objects[Key(item)].exists =>
            isSeen(StackKey(item), status.stack) /\ isSeen(StoreKey(item), status.store)

\* Both images of a stack have the stack's id ("build stack '%s' does not match run
\* stack '%s'", stackimage/uploader.go), though a patch may carry only one of them.
StackIdsAgree ==
  \A o \in Keys : o[1] = "stack" /\ objects[o].exists =>
    LET spec == objects[o].spec IN
    StackId[spec.build[2]] = spec.id /\ StackId[spec.run[2]] = spec.id

\* A store knows a buildpackage under one reference, though imports into different
\* repositories give it different ones and the superset compares references.
OneReferenceEach ==
  \A o \in Keys : o[1] = "store" /\ objects[o].exists =>
    \A r, s \in objects[o].spec.sources : r[2] = s[2] => r = s

\* An import never takes a buildpackage out of a store.
StoresOnlyGrow ==
  [][\A o \in Keys : o[1] = "store" /\ objects[o].exists /\ objects'[o].exists =>
       objects[o].spec.sources \subseteq objects'[o].spec.sources]_vars

\* A dry run changes no object, and pushes no image unless it is asked to.
DryRunHasNoEffect ==
  [][\A p \in Procs :
       (pc'[p] # pc[p] \/ pos'[p] # pos[p]) /\ pc[p] # "idle" /\ IsDryRun(p)
       => /\ objects' = objects
          /\ IsUploading(p) \/ registry' = registry]_vars

\* Of a builder the summary compares the stack and the store only.
Announceable(kind, spec) == IF kind = "builder" THEN <<spec.stack, spec.store>> ELSE spec

\* What this step creates or changes was shown.
IsShown ==
  \A p \in Procs : pc[p] = "write" /\ pc'[p] = "wait" /\ cmd[p].show =>
    LET o == Key(Current(p)) IN
    ~objects[o].exists \/ Announceable(o[1], objects'[o].spec) # Announceable(o[1], objects[o].spec)
    => o \in shown[p]

\* The summary hides nothing: what an import creates or changes while nobody else writes
\* to the cluster was announced before its user confirmed, whatever repository the last
\* import went into (import_differ.go).
SummaryIsComplete == [][IsShown]_vars

\* Nobody waits for ever, even if no request fails and no timer runs out: every
\* generation an import waits for is reported in the end.
ImportEnds ==
  \A p \in Procs : pc[p] # "idle" ~> pc[p] \in {"ok", "skipped", "failed"}
=============================================================================
