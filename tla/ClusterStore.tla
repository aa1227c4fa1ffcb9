---------------------------- MODULE ClusterStore ----------------------------
(***************************************************************************)
(* One ClusterStore object and the kp processes that work on it:           *)
(* `kp clusterstore create | add | save | remove | delete`, the kp-config  *)
(* map they read the default repository from, the registry they upload     *)
(* buildpackages to, and the kpack controller that fills in the status.    *)
(*                                                                         *)
(* A process is one run of kp.  It reads the store, reads the config,      *)
(* uploads its buildpackages one by one, writes, and waits; any other      *)
(* process, the controller or a crash may come between two of these steps. *)
(***************************************************************************)
EXTENDS Naturals, FiniteSets, Sequences, MergePatch

CONSTANTS
  Procs,         \* runs of kp that may overlap
  Repos,         \* values of default.repository
  Packages,      \* buildpackages, by digest
  Buildpacks,    \* buildpack id@version
  Provides,      \* [Packages -> SUBSET Buildpacks], what a buildpackage holds
  Commands,      \* the command lines a process may be started with
  NoRepo,        \* default.repository is not set
  MaxGeneration  \* bound: no command starts on a store changed this often

Kinds == {"create", "add", "save", "remove", "delete"}

\* "upload" is --dry-run-with-image-upload.
Modes == {"live", "dry", "upload"}

CommandType == [kind: Kinds, mode: Modes,
                packages: Seq(Packages), buildpacks: Seq(Buildpacks)]

ASSUME ConstantsAssumption ==
  /\ NoRepo \notin Repos
  /\ MaxGeneration \in Nat
  /\ Provides \in [Packages -> SUBSET Buildpacks]

\* --dry-run-with-image-upload is not a flag of remove, and delete has no dry run.
ASSUME CommandsAssumption ==
  /\ Commands \subseteq CommandType
  /\ \A c \in Commands : /\ c.kind = "remove" => c.mode # "upload"
                         /\ c.kind = "delete" => c.mode = "live"

\* An image reference <repository>@<digest>.
Images == Repos \X Packages
Digest(image) == image[2]

\* spec.sources as the number of times each image is listed: no command
\* depends on the order of the list.
Sources == [Images -> Nat]
NoSources == [i \in Images |-> 0]
Spec1(sources) == [sources |-> sources]

Status == [buildpacks: SUBSET (Buildpacks \X Images), observed: Nat, ready: BOOLEAN]
NoStatus == [buildpacks |-> {}, observed |-> 0, ready |-> FALSE]

VARIABLES
  repo,      \* default.repository in kp-config
  registry,  \* images pushed so far
  store,     \* the API object: does it exist, spec, generation, status
  pc,        \* where each process is
  cmd,       \* the command it runs
  todo,      \* buildpackages it has still to upload
  dest,      \* the repository it read from kp-config
  base,      \* the spec it read from the API
  next,      \* the spec it is about to write
  want       \* the generation it waits for

vars == <<repo, registry, store, pc, cmd, todo, dest, base, next, want>>
locals == <<cmd, todo, dest, base, next, want>>

PCs == {"idle", "get", "config", "upload", "create", "update", "patch",
        "delete", "wait", "ok", "failed"}

NoCommand == [kind |-> "delete", mode |-> "live", packages |-> <<>>, buildpacks |-> <<>>]
NoStore == [exists |-> FALSE, spec |-> Spec1(NoSources), gen |-> 0, status |-> NoStatus]

TypeOK ==
  /\ repo \in Repos \cup {NoRepo}
  /\ registry \subseteq Images
  /\ store \in [exists: BOOLEAN, spec: [sources: Sources], gen: Nat, status: Status]
  /\ pc \in [Procs -> PCs]
  /\ cmd \in [Procs -> CommandType]
  /\ todo \in [Procs -> Seq(Packages)]
  /\ dest \in [Procs -> Repos \cup {NoRepo}]
  /\ base \in [Procs -> [sources: Sources]]
  /\ next \in [Procs -> [sources: Sources]]
  /\ want \in [Procs -> Nat]

Init ==
  /\ repo \in Repos \cup {NoRepo}
  /\ registry = {}
  /\ store = NoStore
  /\ pc = [p \in Procs |-> "idle"]
  /\ cmd = [p \in Procs |-> NoCommand]
  /\ todo = [p \in Procs |-> <<>>]
  /\ dest = [p \in Procs |-> NoRepo]
  /\ base = [p \in Procs |-> Spec1(NoSources)]
  /\ next = [p \in Procs |-> Spec1(NoSources)]
  /\ want = [p \in Procs |-> 0]

-----------------------------------------------------------------------------
(* Factory helpers *)

\* Bug: references are compared, repository and all.
StoreContainsReference(sources, image) == sources[image] > 0

\* storeContains: an image with that digest is listed, in whatever repository.
StoreContains(sources, image) ==
  \E i \in Images : Digest(i) = Digest(image) /\ sources[i] > 0

AppendSource(sources, image) == [sources EXCEPT ![image] = @ + 1]

\* Bug: the condition is the wrong way round.
AddSourceIfListed(sources, image) ==
  IF StoreContains(sources, image) THEN AppendSource(sources, image) ELSE sources

\* AddToStore's loop body: skip the image if its digest is already listed.
AddSource(sources, image) ==
  IF StoreContains(sources, image) THEN sources ELSE AppendSource(sources, image)

\* getStoreImage for every buildpack of the command line: the image the status
\* lists it under.  The status may list it under several.
StoreImages(status, bps) ==
  {f \in [{bps[k] : k \in DOMAIN bps} -> Images] :
     \A b \in DOMAIN f : <<b, f[b]>> \in status.buildpacks}

\* Bug: an image that is no longer listed is counted off all the same.
RemoveSourcesUnlisted(sources, bps, imageOf) ==
  [i \in Images |-> sources[i] - Cardinality({k \in DOMAIN bps : imageOf[bps[k]] = i})]

\* Bug: the loop is left once a source has been cut out.
RemoveSourcesOfFirst(sources, bps, imageOf) ==
  [i \in Images |-> IF bps # <<>> /\ imageOf[bps[1]] = i /\ sources[i] > 0 THEN sources[i] - 1 ELSE sources[i]]

\* RemoveFromStore's second loop: one listing goes for each argument.
RemoveSources(sources, bps, imageOf) ==
  [i \in Images |->
     LET n == Cardinality({k \in DOMAIN bps : imageOf[bps[k]] = i})
     IN  IF n <= sources[i] THEN sources[i] - n ELSE 0]

\* Bug: the flag that also uploads is not looked at.
IsDryRunWithoutUpload(p) == cmd[p].mode = "dry"

IsDryRun(p) == cmd[p].mode # "live"

\* Bug: the relocator that discards serves the live commands.
IsUploadingOnlyDry(p) == cmd[p].mode = "upload"

IsUploading(p) == cmd[p].mode # "dry"

Goto(p, label) == pc' = [pc EXCEPT ![p] = label]
Fail(p) == Goto(p, "failed") /\ UNCHANGED <<repo, registry, store, locals>>

-----------------------------------------------------------------------------
(* A run of kp *)

\* `create` goes straight to MakeStore, the others look at the cluster first.
Start(p) ==
  /\ pc[p] = "idle"
  /\ \E c \in Commands :
       /\ c.kind = "delete" \/ store.gen < MaxGeneration
       /\ cmd' = [cmd EXCEPT ![p] = c]
       /\ todo' = [todo EXCEPT ![p] = c.packages]
       /\ Goto(p, IF c.kind = "create" THEN "config" ELSE IF c.kind = "delete" THEN "delete" ELSE "get")
  /\ UNCHANGED <<repo, registry, store, dest, base, next, want>>

\* add and save: Get, then update(); save falls back to create() on NotFound.
GetForUpdate(p) ==
  /\ pc[p] = "get"
  /\ cmd[p].kind \in {"add", "save"}
  /\ \/ /\ store.exists
        /\ base' = [base EXCEPT ![p] = store.spec]
        /\ next' = [next EXCEPT ![p] = store.spec]
        /\ cmd' = [cmd EXCEPT ![p].kind = "add"]
        /\ Goto(p, "config")
        /\ UNCHANGED <<repo, registry, store, todo, dest, want>>
     \/ /\ ~store.exists /\ cmd[p].kind = "save"
        /\ cmd' = [cmd EXCEPT ![p].kind = "create"]
        /\ Goto(p, "config")
        /\ UNCHANGED <<repo, registry, store, todo, dest, base, next, want>>
     \/ ~store.exists /\ cmd[p].kind = "add" /\ Fail(p)

\* remove: Get and RemoveFromStore, which trusts status.buildpacks.
GetForRemove(p) ==
  /\ pc[p] = "get"
  /\ cmd[p].kind = "remove"
  /\ \/ /\ store.exists
        /\ \E imageOf \in StoreImages(store.status, cmd[p].buildpacks) :
             next' = [next EXCEPT ![p] =
               Spec1(RemoveSources(store.spec.sources, cmd[p].buildpacks, imageOf))]
        /\ base' = [base EXCEPT ![p] = store.spec]
        /\ Goto(p, IF IsDryRun(p) THEN "ok" ELSE "patch")
        /\ UNCHANGED <<repo, registry, store, cmd, todo, dest, want>>
     \/ /\ ~store.exists \/ StoreImages(store.status, cmd[p].buildpacks) = {}
        /\ Fail(p)

\* Where the loop over the buildpackages goes when rest is left of them.
Loop(p, rest) ==
  Goto(p, IF rest # <<>> THEN "upload" ELSE IF cmd[p].kind = "create" THEN "create" ELSE "update")

\* GetKpConfig, then MakeStore's validate and DefaultRepository's error.
ReadConfig(p) ==
  /\ pc[p] = "config"
  /\ \/ /\ repo # NoRepo /\ (cmd[p].kind = "create" => todo[p] # <<>>)
        /\ dest' = [dest EXCEPT ![p] = repo]
        /\ Loop(p, todo[p])
        /\ UNCHANGED <<repo, registry, store, cmd, todo, base, next, want>>
     \/ (repo = NoRepo \/ (cmd[p].kind = "create" /\ todo[p] = <<>>)) /\ Fail(p)

\* One UploadBuildpackage and what the factory does with the reference.  The
\* discarding relocator returns the same reference without pushing anything.
UploadBuildpackage(p) ==
  /\ pc[p] = "upload"
  /\ LET image == <<dest[p], Head(todo[p])>>
         listed == next[p].sources
     IN  /\ registry' = IF IsUploading(p) THEN registry \cup {image} ELSE registry
         /\ next' = [next EXCEPT ![p] = Spec1(IF cmd[p].kind = "create"
                                               THEN AppendSource(listed, image)
                                               ELSE AddSource(listed, image))]
  /\ todo' = [todo EXCEPT ![p] = Tail(todo[p])]
  /\ Loop(p, Tail(todo[p]))
  /\ UNCHANGED <<repo, store, cmd, dest, base, want>>

Succeed(p) == Goto(p, "ok") /\ UNCHANGED <<repo, registry, store, locals>>

\* create(): the API refuses a name that is taken.
CreateStore(p) ==
  /\ pc[p] = "create"
  /\ \/ IsDryRun(p) /\ Succeed(p)
     \/ ~IsDryRun(p) /\ store.exists /\ Fail(p)
     \/ /\ ~IsDryRun(p) /\ ~store.exists
        /\ store' = [exists |-> TRUE, spec |-> next[p], gen |-> 1, status |-> NoStatus]
        /\ want' = [want EXCEPT ![p] = 1]
        /\ Goto(p, "wait")
        /\ UNCHANGED <<repo, registry, cmd, todo, dest, base, next>>

\* The server applies a merge patch; the generation counts spec changes.
PatchStore(p) ==
  \/ ~store.exists /\ Fail(p)
  \/ LET spec == ApplyMergePatch(store.spec, CreatePatch(base[p], next[p]))
         gen  == IF spec = store.spec THEN store.gen ELSE store.gen + 1
     IN  /\ store.exists
         /\ store' = [exists |-> TRUE, spec |-> spec, gen |-> gen, status |-> store.status]
         /\ want' = [want EXCEPT ![p] = gen]
         /\ Goto(p, "wait")
         /\ UNCHANGED <<repo, registry, cmd, todo, dest, base, next>>

\* update(): no request at all when nothing changed.
UpdateStore(p) ==
  /\ pc[p] = "update"
  /\ LET hasPatch == HasPatch(CreatePatch(base[p], next[p]))
     IN  \/ hasPatch /\ ~IsDryRun(p) /\ PatchStore(p)
         \/ ~(hasPatch /\ ~IsDryRun(p)) /\ Succeed(p)

\* remove sends its patch even when it is nil, which the server may refuse.
PatchRemoved(p) ==
  /\ pc[p] = "patch"
  /\ \/ PatchStore(p)
     \/ ~HasPatch(CreatePatch(base[p], next[p])) /\ Fail(p)

\* delete: skipped with exit code 0 unless it is confirmed or forced.
DeleteStore(p) ==
  /\ pc[p] = "delete"
  /\ \/ Succeed(p)
     \/ store.exists /\ store' = NoStore /\ Goto(p, "ok") /\ UNCHANGED <<repo, registry, locals>>
     \/ ~store.exists /\ Fail(p)

\* Waiter.Wait as its caller sees it: the generation was observed, and Ready decides.
WaitResolved(p) ==
  /\ pc[p] = "wait"
  /\ store.exists
  /\ store.status.observed >= want[p]
  /\ IF store.status.ready THEN Succeed(p) ELSE Fail(p)

WaitTimeout(p) == pc[p] = "wait" /\ Fail(p)

\* An API, registry or I/O error, or the end of the process, before any step.
Crash(p) == pc[p] \notin {"idle", "ok", "failed"} /\ Fail(p)

\* The process is gone and with it all it had read; the next command is a new one.
Finish(p) ==
  /\ pc[p] \in {"ok", "failed"}
  /\ Goto(p, "idle")
  /\ cmd' = [cmd EXCEPT ![p] = NoCommand]
  /\ todo' = [todo EXCEPT ![p] = <<>>]
  /\ dest' = [dest EXCEPT ![p] = NoRepo]
  /\ base' = [base EXCEPT ![p] = Spec1(NoSources)]
  /\ next' = [next EXCEPT ![p] = Spec1(NoSources)]
  /\ want' = [want EXCEPT ![p] = 0]
  /\ UNCHANGED <<repo, registry, store>>

-----------------------------------------------------------------------------
(* Everything else that changes the cluster *)

\* status.buildpacks of a list of sources.
Provided(sources) ==
  {bi \in Buildpacks \X Images : sources[bi[2]] > 0 /\ bi[1] \in Provides[Digest(bi[2])]}

\* The kpack controller reports the buildpacks of the sources it sees.
Reconcile ==
  /\ store.exists
  /\ \E ready \in BOOLEAN :
       store' = [exists |-> TRUE, spec |-> store.spec, gen |-> store.gen,
                 status |-> [buildpacks |-> Provided(store.spec.sources),
                             observed |-> store.gen, ready |-> ready]]
  /\ UNCHANGED <<repo, registry, pc, locals>>

\* `kp config default-repository <url>`
SetDefaultRepository ==
  /\ \E r \in Repos : repo' = r
  /\ UNCHANGED <<registry, store, pc, locals>>

Command(p) ==
  \/ GetForUpdate(p) \/ GetForRemove(p) \/ ReadConfig(p) \/ UploadBuildpackage(p)
  \/ CreateStore(p) \/ UpdateStore(p) \/ PatchRemoved(p) \/ DeleteStore(p)
  \/ WaitResolved(p) \/ WaitTimeout(p)

Next ==
  \/ \E p \in Procs : Start(p) \/ Command(p) \/ Crash(p) \/ Finish(p)
  \/ Reconcile
  \/ SetDefaultRepository

Spec == Init /\ [][Next]_vars
-----------------------------------------------------------------------------
(* What these commands owe their user *)

Elements(s) == {s[k] : k \in DOMAIN s}
Unique(sources) ==
  \A i \in Images :
    /\ sources[i] <= 1
    /\ \A j \in Images : sources[i] > 0 /\ sources[j] > 0 /\ Digest(i) = Digest(j) => i = j
Digests(sources) == {Digest(i) : i \in {j \in Images : sources[j] > 0}}
Listed == Digests(store.spec.sources)
Providers(bps) == {d \in Packages : Provides[d] \cap Elements(bps) # {}}
Succeeded(p) == pc[p] = "ok" /\ cmd[p].mode = "live"

\* A store never names an image that is not in the registry, whatever the modes of
\* the commands, wherever they crash and whichever repository they read
\* (UploadBuildpackage comes before Create and Patch in every path).
SourcesUploaded ==
  \A i \in Images : store.spec.sources[i] > 0 => i \in registry

\* A buildpackage is listed at most once, though the default repository may change
\* between two commands that upload it and two commands may overlap
\* (storeContains compares digests, not references).
DigestsUnique == Unique(store.spec.sources)

\* A live create, add or save that reports success has its buildpackages in the store.
AddTakesEffect ==
  \A p \in Procs :
    Succeeded(p) /\ cmd[p].kind \in {"create", "add"} => Elements(cmd[p].packages) \subseteq Listed

\* What a command line asks for, and how far a process is with it.
LineOf(c) ==
  [kind |-> c.kind, live |-> c.mode = "live",
   names |-> IF c.kind = "remove" THEN Providers(c.buildpacks) ELSE Elements(c.packages)]
Phase(p) ==
  CASE pc[p] = "idle" -> "idle"
    [] pc[p] \in {"wait", "ok"} -> "done"
    [] pc[p] = "failed" -> "stopped"
    [] OTHER -> "running"
Phases == [p \in Procs |-> Phase(p)]
Lines == [p \in Procs |-> LineOf(cmd[p])]

\* Commands that do not overlap change the set of buildpackages in single steps, and each
\* by what its own command line names: an add by neither less nor more, a remove never by
\* more, though it finds the images to take out through a status that may be out of date.  A
\* dry run changes nothing, nor does a command that fails before it writes, and none that
\* reports success or waits for the controller has skipped its write.
Contents ==
  INSTANCE StoreContents WITH
    exists <- store.exists, contents <- Listed, phase <- Phases, line <- Lines,
    CommandLines <- {LineOf(c) : c \in Commands},
    NoLine <- LineOf(NoCommand)
ImplementsStoreContents == Contents!Spec

ExactRemoval ==
  \A p \in Procs :
    GetForRemove(p) /\ pc'[p] # "failed" /\ store.status.observed = store.gen
    => Digests(next'[p].sources) = Listed \ Providers(cmd[p].buildpacks)

\* A remove that reads a status of the last generation is about to take out each buildpackage
\* that holds one of the buildpacks it was given, and no other, in whatever order they were
\* given and however often (RemoveFromStore cuts the list it walks): so long as no two
\* buildpackages hold the same buildpack and none is listed twice.
RemovalIsExact == [][ExactRemoval]_vars
=============================================================================
