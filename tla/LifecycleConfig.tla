--------------------------- MODULE LifecycleConfig ---------------------------
(***************************************************************************)
(* `kp lifecycle patch`: upload a lifecycle image to the default           *)
(* repository and name it in the ConfigMap lifecycle-image, as kpack       *)
(* before ClusterLifecycles wants it (pkg/lifecycle), with the relocator   *)
(* and its spinner (pkg/registry).                                         *)
(*                                                                         *)
(* The map is read, an image is uploaded, which takes minutes, and the map *)
(* is read again; the patch is the difference between the two reads, the   *)
(* first one edited.  So unlike any other patch of kp it may hold a        *)
(* resource version.  Other programs may write to the map in between.      *)
(***************************************************************************)
EXTENDS Naturals, Fields, MergePatch

CONSTANTS
  Procs,         \* runs of kp
  Terminals,     \* the ones among them whose output is a terminal
  Repos,         \* values of default.repository
  Sources,       \* values of --image: records with a digest, and whether it is a lifecycle
  Settings,      \* values of the other key of the map
  Elsewhere,     \* an image that others name
  MaxVersion     \* bound: nobody starts to write to a map that was changed this often

ASSUME LifecycleAssumption ==
  /\ NoValue \notin Repos \cup Settings \cup {Elsewhere}
  /\ Terminals \subseteq Procs
  /\ Sources \subseteq [digest : {s.digest : s \in Sources}, isLifecycle : BOOLEAN]
  /\ Elsewhere \notin Repos \X {s.digest : s \in Sources}
  /\ MaxVersion \in Nat

Modes == {"live", "dry", "upload"}
Refs == Repos \X {s.digest : s \in Sources}
Working == {"fetch", "upload", "return", "read", "patch"}

\* A map holds the key "image" and another key.  Without either it has no data at all.
ConfigMaps ==
  [version : Nat \ {0}, image : Refs \cup {Elsewhere, NoValue}, other : Settings \cup {NoValue}]
HasData(map) == map.image # NoValue \/ map.other # NoValue

VARIABLES
  cm,        \* the map, or NoValue
  version,   \* the last resource version the server gave out
  repo,      \* default.repository in kp-config
  registry,  \* images pushed so far
  pc, mode, source,
  ref,       \* the reference the relocator returns
  result,    \* whether the upload has failed
  old,       \* the map as it was read first, and edited after the upload
  existing,  \* the map as it was read before the patch
  stopChan, doneChan,  \* the spinner's channels: are they closed
  spinner,   \* where the goroutine is
  line       \* what the spinner left on the last line of the terminal

vars == <<cm, version, repo, registry, pc, mode, source, ref, result, old, existing,
          stopChan, doneChan, spinner, line>>
cluster == <<cm, version, repo>>
command == <<mode, source, ref, result, old, existing>>
terminal == <<stopChan, doneChan, spinner, line>>

TypeOK ==
  /\ cm \in ConfigMaps \cup {NoValue}
  /\ version \in Nat
  /\ repo \in Repos \cup {NoValue}
  /\ registry \subseteq Refs
  /\ pc \in [Procs -> Working \cup {"idle", "ok", "failed"}]
  /\ mode \in [Procs -> Modes]
  /\ source \in [Procs -> Sources \cup {NoValue}]
  /\ ref \in [Procs -> Refs \cup {NoValue}]
  /\ result \in [Procs -> {"ok", "error"}]
  /\ old \in [Procs -> ConfigMaps \cup {NoValue}]
  /\ existing \in [Procs -> ConfigMaps \cup {NoValue}]
  /\ stopChan \in [Procs -> BOOLEAN]
  /\ doneChan \in [Procs -> BOOLEAN]
  /\ spinner \in [Procs -> {"none", "started", "spinning", "ended"}]
  /\ line \in [Procs -> {"clear", "frame"}]

Init ==
  /\ cm \in {NoValue} \cup [version : {1}, image : {NoValue, Elsewhere}, other : Settings \cup {NoValue}]
  /\ version = 1
  /\ repo \in Repos \cup {NoValue}
  /\ registry = {}
  /\ pc = [p \in Procs |-> "idle"]
  /\ mode = [p \in Procs |-> "live"]
  /\ source = [p \in Procs |-> NoValue]
  /\ ref = [p \in Procs |-> NoValue]
  /\ result = [p \in Procs |-> "ok"]
  /\ old = [p \in Procs |-> NoValue]
  /\ existing = [p \in Procs |-> NoValue]
  /\ stopChan = [p \in Procs |-> FALSE]
  /\ doneChan = [p \in Procs |-> FALSE]
  /\ spinner = [p \in Procs |-> "none"]
  /\ line = [p \in Procs |-> "clear"]

Goto(p, label) == pc' = [pc EXCEPT ![p] = label]
Stop(p, label) == Goto(p, label) /\ UNCHANGED <<cluster, registry, command, terminal>>
-----------------------------------------------------------------------------
(* The command.                                                            *)

\* The first thing UpdateImage does is to read the map.
Start(p) ==
  /\ pc[p] = "idle"
  /\ version < MaxVersion
  /\ mode' \in {[mode EXCEPT ![p] = m] : m \in Modes}
  /\ source' \in {[source EXCEPT ![p] = s] : s \in Sources}
  /\ old' = [old EXCEPT ![p] = cm]
  /\ Goto(p, IF cm = NoValue THEN "failed" ELSE "fetch")
  /\ UNCHANGED <<cluster, registry, ref, result, existing, terminal>>

\* Bug: the relocator that uploads serves --dry-run-with-image-upload only.
CanChangeStateOnlyDry(p) == mode[p] = "upload"

\* CanChangeState, which chooses between the two relocators.
CanChangeState(p) == mode[p] # "dry"

\* getDstImageInfo: the digest, in the repository "lifecycle" below the default one.
Destination(p) == <<repo, source[p].digest>>

\* Bug: that there is no default repository goes unnoticed.
CanFetchIntoNothing(p) == source[p].isLifecycle

\* What is fetched is a lifecycle, and there is a repository to upload it to.
CanFetch(p) == source[p].isLifecycle /\ repo # NoValue

\* The image and the default repository are read.  The discarding relocator returns the
\* reference; the other one starts the spinner.
Fetch(p) ==
  /\ pc[p] = "fetch"
  /\ CanFetch(p)
  /\ ref' = [ref EXCEPT ![p] = Destination(p)]
  /\ \/ /\ CanChangeState(p)
        /\ spinner' = [spinner EXCEPT ![p] = "started"]
        /\ Goto(p, "upload")
        /\ UNCHANGED <<cluster, registry, mode, source, result, old, existing, stopChan, doneChan, line>>
     \/ /\ ~CanChangeState(p)
        /\ Goto(p, "return")
        /\ UNCHANGED <<cluster, registry, mode, source, result, old, existing, terminal>>

FetchFails(p) ==
  /\ pc[p] = "fetch"
  /\ ~CanFetch(p)
  /\ Stop(p, "failed")

\* remote.Write and remote.Tag, then the deferred Stop closes its channel.  An image that
\* could not be tagged is there all the same.
Upload(p) ==
  /\ pc[p] = "upload"
  /\ \E outcome \in {"ok", "error"} :
       /\ result' = [result EXCEPT ![p] = outcome]
       /\ registry' \in {registry \cup {ref[p]}} \cup {r \in {registry} : outcome = "error"}
  /\ stopChan' = [stopChan EXCEPT ![p] = TRUE]
  /\ Goto(p, "return")
  /\ UNCHANGED <<cluster, mode, source, ref, old, existing, doneChan, spinner, line>>

\* Bug: Stop does not wait for the goroutine.
RelocatedWithoutWaiting(p) == CanChangeState(p) => stopChan[p]

\* Relocate returns once Stop does.
Relocated(p) == CanChangeState(p) => doneChan[p]

\* Writing to the data of a map that has none ends the process (assignment to a nil map).
Edit(p) ==
  /\ pc[p] = "return" /\ Relocated(p)
  /\ result[p] = "ok" /\ HasData(old[p])
  /\ old' = [old EXCEPT ![p].image = ref[p]]
  /\ Goto(p, IF mode[p] = "live" THEN "read" ELSE "ok")
  /\ UNCHANGED <<cluster, registry, mode, source, ref, result, existing, terminal>>

EditFails(p) ==
  /\ pc[p] = "return" /\ Relocated(p)
  /\ result[p] # "ok" \/ ~HasData(old[p])
  /\ Stop(p, "failed")

\* patchConfigMap reads the map again.
Read(p) ==
  /\ pc[p] = "read"
  /\ existing' = [existing EXCEPT ![p] = cm]
  /\ Goto(p, IF cm = NoValue THEN "failed" ELSE "patch")
  /\ UNCHANGED <<cluster, registry, mode, source, ref, result, old, terminal>>

\* Bug: the metadata is taken from the second read.
PatchOfData(p) ==
  CreatePatch(existing[p], [old[p] EXCEPT !.version = existing[p].version])

PatchOf(p) == CreatePatch(existing[p], old[p])

\* The server refuses a resource version that is not the current one.
Accepted(patch) ==
  /\ cm # NoValue
  /\ "version" \in DOMAIN patch => patch.version = cm.version

\* An empty patch is sent as no bytes at all, which the server may also refuse.
Patch(p) ==
  /\ pc[p] = "patch"
  /\ Accepted(PatchOf(p))
  /\ LET merged == ApplyMergePatch(cm, PatchOf(p)) IN
       \/ /\ merged # cm
          /\ version' = version + 1
          /\ cm' = [merged EXCEPT !.version = version + 1]
       \/ merged = cm /\ UNCHANGED <<cm, version>>
  /\ Goto(p, "ok")
  /\ UNCHANGED <<repo, registry, command, terminal>>

PatchFails(p) ==
  /\ pc[p] = "patch"
  /\ ~Accepted(PatchOf(p)) \/ ~HasPatch(PatchOf(p))
  /\ Stop(p, "failed")

\* A request fails.  (Upload has its own failure.)
RequestFails(p) ==
  /\ pc[p] \in {"fetch", "read", "patch"}
  /\ Stop(p, "failed")

Finish(p) ==
  /\ pc[p] \in {"ok", "failed"}
  /\ Goto(p, "idle")
  /\ mode' = [mode EXCEPT ![p] = "live"]
  /\ source' = [source EXCEPT ![p] = NoValue]
  /\ ref' = [ref EXCEPT ![p] = NoValue]
  /\ result' = [result EXCEPT ![p] = "ok"]
  /\ old' = [old EXCEPT ![p] = NoValue]
  /\ existing' = [existing EXCEPT ![p] = NoValue]
  /\ stopChan' = [stopChan EXCEPT ![p] = FALSE]
  /\ doneChan' = [doneChan EXCEPT ![p] = FALSE]
  /\ spinner' = [spinner EXCEPT ![p] = "none"]
  /\ line' = [line EXCEPT ![p] = "clear"]
  /\ UNCHANGED <<cluster, registry>>
-----------------------------------------------------------------------------
(* The goroutine of the spinner.                                           *)

\* Bug: without a terminal the goroutine ends before it defers the close.
NotTtyWithoutDone(p) ==
  /\ spinner[p] = "started" /\ p \notin Terminals
  /\ spinner' = [spinner EXCEPT ![p] = "ended"]
  /\ UNCHANGED <<cluster, registry, pc, command, stopChan, doneChan, line>>

NotTty(p) ==
  /\ spinner[p] = "started" /\ p \notin Terminals
  /\ spinner' = [spinner EXCEPT ![p] = "ended"]
  /\ doneChan' = [doneChan EXCEPT ![p] = TRUE]
  /\ UNCHANGED <<cluster, registry, pc, command, stopChan, line>>

BeginSpinning(p) ==
  /\ spinner[p] = "started" /\ p \in Terminals
  /\ spinner' = [spinner EXCEPT ![p] = "spinning"]
  /\ UNCHANGED <<cluster, registry, pc, command, stopChan, doneChan, line>>

\* Of two channels that are ready select takes either.
Tick(p) ==
  /\ spinner[p] = "spinning"
  /\ line' = [line EXCEPT ![p] = "frame"]
  /\ UNCHANGED <<cluster, registry, pc, command, stopChan, doneChan, spinner>>

StopSpinning(p) ==
  /\ spinner[p] = "spinning" /\ stopChan[p]
  /\ line' = [line EXCEPT ![p] = "clear"]
  /\ spinner' = [spinner EXCEPT ![p] = "ended"]
  /\ doneChan' = [doneChan EXCEPT ![p] = TRUE]
  /\ UNCHANGED <<cluster, registry, pc, command, stopChan>>
-----------------------------------------------------------------------------
(* Everything else that changes the cluster.                               *)

\* kubectl, or a new release of kpack that is applied.
EditElsewhere ==
  /\ version < MaxVersion
  /\ version' = version + 1
  /\ \/ \E s \in Settings : cm # NoValue /\ cm' = [cm EXCEPT !.version = version + 1, !.other = s]
     \/ cm # NoValue /\ cm' = [cm EXCEPT !.version = version + 1, !.image = Elsewhere]
     \/ \E s \in Settings \cup {NoValue} :
          /\ cm = NoValue
          /\ cm' = [version |-> version + 1, image |-> NoValue, other |-> s]
     \/ cm # NoValue /\ cm' = NoValue
  /\ UNCHANGED <<repo, registry, pc, command, terminal>>

\* kp config default-repository
SetDefaultRepository ==
  /\ repo' \in Repos
  /\ UNCHANGED <<cm, version, registry, pc, command, terminal>>
-----------------------------------------------------------------------------
Step(p) ==
  \/ Fetch(p) \/ FetchFails(p) \/ Upload(p) \/ Edit(p) \/ EditFails(p)
  \/ Read(p) \/ Patch(p) \/ PatchFails(p) \/ RequestFails(p)

Write(p) == NotTty(p) \/ BeginSpinning(p) \/ Tick(p) \/ StopSpinning(p)

Next ==
  \/ \E p \in Procs : Start(p) \/ Step(p) \/ Finish(p) \/ Write(p)
  \/ EditElsewhere \/ SetDefaultRepository

Spec == Init /\ [][Next]_vars

\* The command goes on, and so does its goroutine; a channel that stays closed is not
\* overlooked for ever, as time.After needs 150 milliseconds for each frame.
FairSpec ==
  /\ Spec
  /\ \A p \in Procs :
       WF_vars(Step(p)) /\ WF_vars(NotTty(p) \/ BeginSpinning(p)) /\ WF_vars(StopSpinning(p))
-----------------------------------------------------------------------------
(* What the command promises.                                              *)

\* The image that kp names in the map is one that it has uploaded, although which relocator
\* is used and whether the map is patched are decided in two places (image_updater.go).
NamesUploaded == cm # NoValue => cm.image \in registry \cup {Elsewhere, NoValue}

\* Once the relocator has returned its goroutine writes nothing more, and leaves nothing
\* behind for the lines the command prints next to be mixed with (spinner.go).
LineIsClear ==
  \A p \in Procs : pc[p] \notin {"upload", "return"} =>
    spinner[p] \in {"none", "ended"} /\ line[p] = "clear"

\* A patch undoes nothing that others wrote while the image was uploaded: it is accepted
\* only if the map was not touched between the two reads, though nobody compares them,
\* and changes no key but the image's even if it was since (config_helper.go).
UndoesNothing ==
  [][\A p \in Procs : pc[p] = "patch" /\ pc'[p] = "ok" /\ cm' # cm =>
       /\ old[p].version = existing[p].version
       /\ cm'.other = cm.other /\ cm'.image = ref[p]]_vars

\* Every command ends, whatever its upload does and with a terminal or without: Stop is
\* answered (spinner.go).
PatchEnds == \A p \in Procs : pc[p] \in Working ~> pc[p] \in {"ok", "failed"}
=============================================================================
