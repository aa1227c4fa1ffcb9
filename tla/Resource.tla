------------------------------ MODULE Resource ------------------------------
(***************************************************************************)
(* `kp <resource> create | patch | save | delete` for one object of one    *)
(* kind: a stack, a lifecycle, a buildpack, a builder, an image, or the    *)
(* ConfigMap kp-config itself, which `kp config` changes in the same way:  *)
(* read it, create it if it is not there, or else send a patch.            *)
(*                                                                         *)
(* A process is one run of kp.  Another process, the controller, a change  *)
(* of kp-config or a crash may come between any two of its requests.       *)
(***************************************************************************)
EXTENDS ClusterSpecs, ImageSpec, MergePatch

CONSTANTS
  Procs,          \* runs of kp that may overlap
  Kinds,          \* the kinds of resource to look at
  Lines,          \* [Kinds -> the command lines of that kind]
  Configs,        \* what kp-config may hold
  MaxGeneration   \* [Kinds -> Nat], a bound: no command starts on an object changed this often

\* The cluster-scoped kinds look into kp-config.
ClusterKinds == {"stack", "lifecycle", "clusterbuildpack", "clusterbuilder"}
AllKinds == ClusterKinds \cup {"buildpack", "builder", "image", "kpconfig"}
Verbs == {"create", "patch", "save", "delete"}
Modes == {"live", "dry", "upload"}  \* "upload" is --dry-run-with-image-upload
Readiness == {"True", "False", "Unknown"}

ASSUME ResourceAssumption ==
  /\ Kinds \subseteq AllKinds
  /\ MaxGeneration \in [Kinds -> Nat]
  /\ \A k \in Kinds : \A l \in Lines[k] : l.verb \in Verbs /\ l.mode \in Modes

\* The flags that the commands of a kind declare, and those that no create, patch or save
\* goes without.
DeclaredFlags(k) ==
  CASE k = "stack"                            -> {"build", "run"}
    [] k \in {"lifecycle", "clusterbuildpack"} -> {"image"}
    [] k = "buildpack"                        -> {"image", "account"}
    [] k = "builder"                          -> BuilderFlags
    [] k = "clusterbuilder"                   -> ClusterBuilderFlags
    [] k = "image"                            -> ImageFlags
    [] k = "kpconfig"                         -> Settings

RequiredFlags(k) == IF k \in {"stack", "lifecycle"} THEN DeclaredFlags(k) ELSE {}

\* The command line parser sees to the flags.  An empty flag counts as one not given,
\* but for an image's --sub-path.
ASSUME LinesAssumption ==
  \A k \in Kinds : \A l \in Lines[k] :
    /\ DOMAIN l.flags \subseteq DeclaredFlags(k)
    /\ l.verb # "delete" => RequiredFlags(k) \subseteq DOMAIN l.flags
    /\ \A flag \in DOMAIN l.flags : l.flags[flag] # NoValue

VARIABLES
  kind,      \* which kind of resource it is: never changes
  config,    \* kp-config, for the kinds that look into it
  registry,  \* the images that were pushed
  object,    \* the object, NoValue if it does not exist
  pc,        \* where each process is
  line,      \* its command line
  base,      \* the object it read
  next,      \* the spec it wants
  waited,    \* the object it gave to the waiter
  written,   \* the generation its write produced, 0 before that
  seen       \* the generation that the status it judged was about

vars == <<kind, config, registry, object, pc, line, base, next, waited, written, seen>>
locals == <<line, base, next, waited, written, seen>>

PCs == {"idle", "get", "make", "update", "create", "patch", "delete", "wait", "ok", "failed"}

TypeOK ==
  /\ kind \in Kinds
  /\ config \in Configs \cup {NoValue}
  /\ pc \in [Procs -> PCs]
  /\ object # NoValue => /\ object.gen \in Nat /\ object.observed \in 0..object.gen
                         /\ object.ready \in Readiness
  /\ \A p \in Procs :
       /\ line[p] = NoValue <=> pc[p] = "idle"
       /\ base[p] = NoValue <=> pc[p] \notin {"update", "patch"}
       /\ next[p] = NoValue <=> pc[p] \notin {"create", "patch"}
       /\ waited[p] = NoValue <=> pc[p] # "wait"
  /\ written \in [Procs -> Nat]
  /\ seen \in [Procs -> Nat]

Init ==
  /\ kind \in Kinds
  /\ config \in IF kind \in ClusterKinds THEN Configs ELSE {NoValue}
  /\ registry = {}
  /\ object = NoValue
  /\ pc = [p \in Procs |-> "idle"]
  /\ line = [p \in Procs |-> NoValue]
  /\ base = [p \in Procs |-> NoValue]
  /\ next = [p \in Procs |-> NoValue]
  /\ waited = [p \in Procs |-> NoValue]
  /\ written = [p \in Procs |-> 0]
  /\ seen = [p \in Procs |-> 0]

-----------------------------------------------------------------------------
(* What each kind does *)

\* The defaults of create's flags, which save fills in when it turns out to be a create.
Defaults ==
  CASE kind = "buildpack"      -> BuildpackDefaults
    [] kind = "builder"        -> BuilderDefaults
    [] kind = "clusterbuilder" -> ClusterBuilderDefaults
    [] OTHER                   -> <<>>

\* The specs that create may write.
MakeSpec(given, map) ==
  LET flags == WithDefaults(given, Defaults) IN
  CASE kind = "stack"            -> MakeStack(flags, map)
    [] kind = "lifecycle"        -> MakeLifecycle(flags, map)
    [] kind = "clusterbuildpack" -> MakeClusterBuildpack(flags, map)
    [] kind = "buildpack"        -> MakeBuildpack(flags)
    [] kind = "builder"          -> MakeBuilder(flags)
    [] kind = "clusterbuilder"   -> MakeClusterBuilder(flags, map)
    [] kind = "image"            -> MakeImage(flags)
    [] kind = "kpconfig"         -> {NewConfigMap(flags)}

\* The specs that patch may want.
UpdateSpec(flags, spec, map) ==
  CASE kind = "stack"            -> UpdateStack(flags, spec, map)
    [] kind = "lifecycle"        -> UpdateLifecycle(flags, spec, map)
    [] kind = "clusterbuildpack" -> PatchClusterBuildpack(flags, spec)
    [] kind = "buildpack"        -> PatchBuildpack(flags, spec)
    [] kind = "builder"          -> PatchBuilder(flags, spec)
    [] kind = "clusterbuilder"   -> PatchClusterBuilder(flags, spec)
    [] kind = "image"            -> UpdateImage(flags, spec)
    [] kind = "kpconfig"         -> UpdateConfigMap(spec, flags)

\* The images of a spec that kp uploads.
Relocated(spec) ==
  CASE kind = "stack"     -> {spec.build, spec.run}
    [] kind = "lifecycle" -> {spec.image}
    [] kind = "image"     -> {spec.registry} \ {NoValue}
    [] OTHER              -> {}

\* Images are only waited for with --wait, and then by following the logs of the build.
Waits == kind \notin {"image", "kpconfig"}

IsDryRun(p) == line[p].mode # "live"

\* Bug: the relocator that discards serves the live commands.
IsUploadingOnlyDry(p) == line[p].mode = "upload"

IsUploading(p) == line[p].mode # "dry"

Upload(p, spec) ==
  registry' = IF IsUploading(p) THEN registry \cup Relocated(spec) ELSE registry

-----------------------------------------------------------------------------
(* A run of kp *)

Goto(p, label) == pc' = [pc EXCEPT ![p] = label]

\* The command is over.  What it wrote and judged is remembered until the next one.
Stop(p, label) ==
  /\ Goto(p, label)
  /\ base' = [base EXCEPT ![p] = NoValue]
  /\ next' = [next EXCEPT ![p] = NoValue]
  /\ waited' = [waited EXCEPT ![p] = NoValue]
  /\ UNCHANGED <<kind, config, line>>

Fail(p) == Stop(p, "failed") /\ UNCHANGED <<registry, object, written, seen>>

Start(p) ==
  /\ pc[p] = "idle"
  /\ object # NoValue => object.gen < MaxGeneration[kind]
  /\ \E l \in Lines[kind] :
       /\ line' = [line EXCEPT ![p] = l]
       /\ Goto(p, CASE l.verb = "create" -> "make" [] l.verb = "delete" -> "delete" [] OTHER -> "get")
  /\ UNCHANGED <<kind, config, registry, object, base, next, waited, written, seen>>

\* The Get of patch and save.  A patch needs the object, a save creates it.
Get(p) ==
  /\ pc[p] = "get"
  /\ \/ /\ object # NoValue
        /\ base' = [base EXCEPT ![p] = object]
        /\ Goto(p, "update")
        /\ UNCHANGED <<kind, config, registry, object, line, next, waited, written, seen>>
     \/ /\ object = NoValue /\ line[p].verb = "save"
        /\ Goto(p, "make")
        /\ UNCHANGED <<kind, config, registry, object, locals>>
     \/ object = NoValue /\ line[p].verb = "patch" /\ Fail(p)

\* create() up to its request.  kp-config is read here, and an error reads as no map.  A
\* command that fails may have pushed images, which no object names.
Make(p) ==
  /\ pc[p] = "make"
  /\ \E map \in {config, NoValue} :
       \/ \E spec \in MakeSpec(line[p].flags, map) :
            /\ Upload(p, spec)
            /\ \/ IsDryRun(p) /\ Stop(p, "ok")
               \/ /\ ~IsDryRun(p)
                  /\ next' = [next EXCEPT ![p] = spec]
                  /\ Goto(p, "create")
                  /\ UNCHANGED <<kind, config, line, base, waited>>
            /\ UNCHANGED <<object, written, seen>>
       \/ MakeSpec(line[p].flags, map) = {} /\ Fail(p)

\* Is there a request to make?  Not when nothing changes, but by the setters of kp-config.
Sends(p, spec) == ~IsDryRun(p) /\ (kind = "kpconfig" \/ HasPatch(CreatePatch(base[p].spec, spec)))

\* patch() up to its request.
Update(p) ==
  /\ pc[p] = "update"
  /\ \E map \in {config, NoValue} :
       \/ \E spec \in UpdateSpec(line[p].flags, base[p].spec, map) :
            /\ Upload(p, spec)
            /\ \/ ~Sends(p, spec) /\ Stop(p, "ok")
               \/ /\ Sends(p, spec)
                  /\ next' = [next EXCEPT ![p] = spec]
                  /\ Goto(p, "patch")
                  /\ UNCHANGED <<kind, config, line, base, waited>>
            /\ UNCHANGED <<object, written, seen>>
       \/ UpdateSpec(line[p].flags, base[p].spec, map) = {} /\ Fail(p)

\* After a write: wait, or be done.
Written(p, given) ==
  /\ written' = [written EXCEPT ![p] = object'.gen]
  /\ \/ ~Waits /\ Stop(p, "ok")
     \/ /\ Waits
        /\ Goto(p, "wait")
        /\ base' = [base EXCEPT ![p] = NoValue]
        /\ next' = [next EXCEPT ![p] = NoValue]
        /\ waited' = [waited EXCEPT ![p] = given]
        /\ UNCHANGED <<kind, config, line>>
  /\ UNCHANGED <<registry, seen>>

\* The API refuses a name that is taken.
Create(p) ==
  /\ pc[p] = "create"
  /\ \/ object # NoValue /\ Fail(p)
     \/ /\ object = NoValue
        /\ object' = [spec |-> next[p], gen |-> 1, observed |-> 0, ready |-> "Unknown"]
        /\ Written(p, object')

\* Bug: every patch waits for the object it has read, as those of stacks and lifecycles do.
GivenToWaiterOld(p) == base[p]

\* Which object patch() gives to the waiter: the server's answer, but the one of stacks
\* and lifecycles is assigned to a variable that is not used again.
GivenToWaiter(p) == IF kind \in {"stack", "lifecycle"} THEN base[p] ELSE object'

\* The server applies a merge patch; the generation counts spec changes.
Patch(p) ==
  /\ pc[p] = "patch"
  /\ \/ object = NoValue /\ Fail(p)
     \/ /\ object # NoValue
        /\ LET spec == ApplyMergePatch(object.spec, CreatePatch(base[p].spec, next[p])) IN
           object' = [object EXCEPT !.spec = spec, !.gen = IF spec = object.spec THEN @ ELSE @ + 1]
        /\ Written(p, GivenToWaiter(p))

Delete(p) ==
  /\ pc[p] = "delete"
  /\ \/ object = NoValue /\ Fail(p)
     \/ object # NoValue /\ object' = NoValue /\ Stop(p, "ok") /\ UNCHANGED <<registry, written, seen>>

\* hasResolved for the generation of the object the waiter was given.
HasResolved(p, status) == status.observed >= waited[p].gen /\ status.ready # "Unknown"

\* Waiter.Wait: the object it was given decides if it has resolved, or else the watch.
Wait(p) ==
  /\ pc[p] = "wait"
  /\ \E status \in IF HasResolved(p, waited[p]) THEN {waited[p]} ELSE {object} \ {NoValue} :
       /\ HasResolved(p, status)
       /\ seen' = [seen EXCEPT ![p] = status.observed]
       /\ Stop(p, IF status.ready = "False" THEN "failed" ELSE "ok")
  /\ UNCHANGED <<registry, object, written>>

\* An API, registry or I/O error, the timer, or the end of the process, before any step.
Crash(p) == pc[p] \notin {"idle", "ok", "failed"} /\ Fail(p)

Finish(p) ==
  /\ pc[p] \in {"ok", "failed"}
  /\ Goto(p, "idle")
  /\ line' = [line EXCEPT ![p] = NoValue]
  /\ written' = [written EXCEPT ![p] = 0]
  /\ seen' = [seen EXCEPT ![p] = 0]
  /\ UNCHANGED <<kind, config, registry, object, base, next, waited>>

-----------------------------------------------------------------------------
(* Everything else *)

\* `kp config` is run while another resource is looked at.
SetConfig ==
  /\ kind \in ClusterKinds
  /\ \E map \in Configs : config' = map
  /\ UNCHANGED <<kind, registry, object, pc, locals>>

\* The controller reports on the spec it sees.
Reconcile ==
  /\ object # NoValue /\ Waits
  /\ \E ready \in Readiness : object' = [object EXCEPT !.observed = object.gen, !.ready = ready]
  /\ UNCHANGED <<kind, config, registry, pc, locals>>

Command(p) == Get(p) \/ Make(p) \/ Update(p) \/ Create(p) \/ Patch(p) \/ Delete(p) \/ Wait(p)

Next ==
  \/ \E p \in Procs : Start(p) \/ Command(p) \/ Crash(p) \/ Finish(p)
  \/ SetConfig
  \/ Reconcile

Spec == Init /\ [][Next]_vars

-----------------------------------------------------------------------------
(* Properties *)

\* Whatever dry runs, crashes and overlapping commands there are, an object only names
\* images in the registry of the user that were pushed there.
ImagesUploaded == object # NoValue => Relocated(object.spec) \subseteq registry

\* kp-config never has two answers: the current and the historical key of a setting are
\* always the same, so that kpack and other versions of kp agree with this one.  (A map
\* that only has the historical keys was not made by this kp.)
KeysAgree == kind = "kpconfig" /\ object # NoValue => KeysMatch(object.spec)

\* A command that wrote and reports success has seen the status of what it wrote, or of
\* something later, and not one that was there before (waiter_test.go: "waits for the
\* correct generation").
SuccessIsOfThisWrite == \A p \in Procs : pc[p] = "ok" /\ Waits => seen[p] >= written[p]

\* The same, without the patches that wait for the object as it was before the patch.
SuccessIsOfThisWriteElsewhere == kind \notin {"stack", "lifecycle"} => SuccessIsOfThisWrite

\* The fields of a spec that a flag is about.
FieldsOf(flag) ==
  CASE flag \in {"build", "run"}                           -> {flag, "id"}
    [] flag \in {"git", "gitRevision", "blob", "localPath"} -> {"gitUrl", "gitRevision", "blob", "registry"}
    [] flag \in {"buildpacks", "order", "orderFrom"}        -> {"order"}
    [] flag \in {"builder", "clusterBuilder"}               -> {"builder"}
    [] flag \in {"tags", "deleteTags", "replaceTags"}       -> {"tags"}
    [] flag = "tag" /\ kind = "image"                       -> {}
    [] flag = "deleteEnv"                                   -> {"env"}
    [] flag = "deleteServices"                              -> {"services"}
    [] kind = "kpconfig"                                    -> {flag} \X {"default", "canonical"}
    [] OTHER                                                -> {flag}

Patches(p) == pc[p] = "patch" /\ object # NoValue /\ object' # NoValue /\ pc'[p] \in {"wait", "ok"}

\* The fields that a patch changes are named on its command line.
AssumesNoDefaults ==
  \A p \in Procs : Patches(p) =>
    \A f \in DOMAIN object.spec :
      object'.spec[f] # object.spec[f] =>
        \E flag \in DOMAIN line[p].flags : f \in FieldsOf(flag)

\* "No defaults will be assumed for patches" (docs/kp_builder_save.md): whoever else
\* works on the object, a patch changes nothing that its command line does not name, and
\* never the tag of an image, which "is immutable" (docs/kp_image_save.md).
NoDefaultsForPatches == [][AssumesNoDefaults]_vars

\* What a flag asks of the spec.
Shown(flag, value, spec) ==
  CASE flag \in {"build", "run"}               -> spec[flag][2] = value
    [] flag = "image" /\ kind = "lifecycle"    -> spec.image[2] = value
    [] flag \in {"buildpacks"}                 -> spec.order = <<value>>
    [] flag = "order"                          -> spec.order = OrderFiles[value]
    [] flag = "orderFrom"                      -> spec.order = OrderLabels[value]
    [] flag = "git"                            -> spec.gitUrl = value
    [] flag = "localPath"                      -> spec.registry[2] = value
    [] flag \in {"builder", "clusterBuilder"}  -> spec.builder[2] = value
    [] flag = "replaceTags"                    -> ToSet(spec.tags) = ToSet(value)
    [] flag = "tags"                           -> ToSet(value) \subseteq ToSet(spec.tags)
    [] flag = "deleteTags"                     -> ToSet(value) \cap ToSet(spec.tags) = {}
    [] flag = "env"                            -> ToSet(value) \subseteq ToSet(spec.env)
    [] flag = "deleteEnv"                      -> ToSet(value) \cap Names(spec.env) = {}
    [] flag = "services"                       -> \A s \in ToSet(value) : s[Len(s)] \in {t[3] : t \in ToSet(spec.services)}
    [] flag = "deleteServices"                 -> \A s \in ToSet(value) : s[Len(s)] \notin {t[3] : t \in ToSet(spec.services)}
    [] flag = "subPath"                        -> spec.subPath = IF value = "" THEN NoValue ELSE value
    [] kind = "kpconfig"                       -> Setting(spec, flag) = value
    [] flag = "destination"                    -> spec.registry[1] = <<value>>
    [] OTHER                                   -> spec[flag] = value

\* The flags that a command promises to heed.  The create of an image ignores those that
\* only change one.  The tag of an image or a builder "is immutable and will be ignored for a
\* patch" by save (docs/kp_image_save.md, docs/kp_builder_save.md); a builder's is changed all
\* the same (builder/patch.go:86), which no property asks for or forbids.
Counts(p, flag) ==
  IF pc[p] = "create" THEN kind = "image" => flag \notin {"deleteEnv", "deleteTags", "deleteServices", "replaceTags"}
  ELSE flag = "tag" => kind # "image" /\ (kind = "builder" => line[p].verb # "save")

\* The command lines of the commands that end well show in the object.
DoesAsAsked ==
  \A p \in Procs :
    (/\ pc[p] \in {"create", "update", "patch"} /\ pc'[p] \in {"wait", "ok"}
     /\ ~IsDryRun(p)
     /\ pc[p] # "create" => object # NoValue /\ object.spec = base[p].spec)
    => \A flag \in DOMAIN line[p].flags :
         Counts(p, flag) => Shown(flag, line[p].flags[flag], object'.spec)

\* A command writes, or finds, what its command line asks for, if nobody else changed
\* the object since it was read.
TakesEffect == [][DoesAsAsked]_vars

\* The fields of a spec that belong together: a stack's id is the one of both its images,
\* an image has one source, and a revision if and only if that is git.
Whole(spec) ==
  CASE kind = "stack" -> spec.id = StackIdOf[spec.build[2]] /\ spec.id = StackIdOf[spec.run[2]]
    [] kind = "image" -> /\ Cardinality({f \in {"gitUrl", "blob", "registry"} : spec[f] # NoValue}) = 1
                         /\ spec.gitUrl = NoValue <=> spec.gitRevision = NoValue
    [] OTHER -> TRUE

\* What is written is whole, if what was there is and is still what was read.
KeepsWhole ==
  \A p \in Procs :
    (/\ pc[p] \in {"create", "patch"} /\ pc'[p] \in {"wait", "ok"}
     /\ pc[p] = "patch" => object # NoValue /\ object.spec = base[p].spec /\ Whole(object.spec))
    => Whole(object'.spec)

\* No sequence of commands that do not overlap takes apart what belongs together.
StaysWhole == [][KeepsWhole]_vars
=============================================================================
