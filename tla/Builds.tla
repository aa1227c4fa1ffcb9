------------------------------- MODULE Builds -------------------------------
(***************************************************************************)
(* The builds of one image resource, and the commands that read or ask for *)
(* one: kp image trigger and status, kp build status and logs.             *)
(*                                                                         *)
(* kp has no request that starts a build.  It lists the builds, sorts them *)
(* by creation time and annotates the last one; kpack's controller, which  *)
(* goes on creating, finishing and pruning builds meanwhile, answers with  *)
(* another build once it sees the annotation on the newest one.  A build   *)
(* is numbered one more than the build before it.                          *)
(***************************************************************************)
EXTENDS Naturals, FiniteSets, FiniteSetsExt

CONSTANTS Procs,      \* runs of kp
          Asked,      \* the values of --build: "latest", "not a number", or a number as a record
          Gaps,       \* seconds from the creation of a build to the creation of the next
          HistoryLimit, \* successful, and failed, builds that kpack keeps
          MaxBuilds,  \* bound: builds there ever are
          NoShown      \* no status command has printed anything

ASSUME BuildsAssumption ==
  /\ Gaps \subseteq Nat
  /\ HistoryLimit \in Nat \ {0}
  /\ MaxBuilds \in Nat

VARIABLES builds,   \* the builds in the cluster
          counter,  \* the number of the last build that was created
          image,    \* the image resource's status, and whether its inputs changed since the last build
          pc, command,
          since,    \* trigger: the counter when the builds were listed
          target,   \* trigger: the build to annotate
          got,      \* image status: the image that was read
          shown,    \* what the last status command of a process printed
          triggered \* what the trigger commands announced: a number, and the counter they knew

vars == <<builds, counter, image, pc, command, since, target, got, shown, triggered>>

Outcomes == {"running", "success", "failure"}
Build(number, created) == [number |-> number, created |-> created, outcome |-> "running", needed |-> FALSE]
BuildType == [number : 1..MaxBuilds, created : 0..(MaxBuilds * Max(Gaps \cup {1})),
              outcome : Outcomes, needed : BOOLEAN]
ImageType == [latest : 0..MaxBuilds, ready : {"none", "True", "False", "Unknown"},
              builderReady : BOOLEAN, changed : BOOLEAN]

Newest == CHOOSE b \in builds : \A other \in builds : other.number <= b.number
Numbers(outcome) == {b.number : b \in {b \in builds : b.outcome = outcome}}

TypeOK ==
  /\ builds \subseteq BuildType
  /\ \A a, b \in builds : a.number = b.number => a = b
  /\ counter \in 0..MaxBuilds
  /\ image \in ImageType
  /\ pc \in [Procs -> {"idle", "list", "patch"}]
  /\ command \in [Procs -> {"none", "trigger", "image status"}]
  /\ since \in [Procs -> 0..MaxBuilds]
  /\ target \in [Procs -> 0..MaxBuilds]
  /\ got \in [Procs -> ImageType]
  /\ triggered \subseteq [number : 1..(MaxBuilds + 1), since : 0..MaxBuilds]

NewImage == [latest |-> 0, ready |-> "none", builderReady |-> TRUE, changed |-> TRUE]

Init ==
  /\ builds = {} /\ counter = 0
  /\ image = NewImage
  /\ pc = [p \in Procs |-> "idle"]
  /\ command = [p \in Procs |-> "none"]
  /\ since = [p \in Procs |-> 0]
  /\ target = [p \in Procs |-> 0]
  /\ got = [p \in Procs |-> NewImage]
  /\ shown = [p \in Procs |-> NoShown]
  /\ triggered = {}

cluster == <<builds, counter, image>>
-----------------------------------------------------------------------------
(* What the commands make of a list of builds.                             *)

\* build.Sort, for the builds of one image.
BeforeDescending(a, b) == a.created > b.created \* Bug: the other way round.
Before(a, b) == a.created < b.created

\* The last of the builds once they are sorted: any of several with the same time.
LastOf(list) == {b \in list : \A other \in list : ~Before(b, other)}

\* Bug: the list is searched from its beginning.
LastWithFromFront(list, outcome) ==
  LET found == {b \in list : b.outcome = outcome}
  IN  IF found = {} THEN {0} ELSE {b.number : b \in {b \in found : \A other \in found : ~Before(other, b)}}

\* getLastSuccessfulBuild and getLastFailedBuild: the number, or 0.
LastWith(list, outcome) ==
  LET found == LastOf({b \in list : b.outcome = outcome})
  IN  IF found = {} THEN {0} ELSE {b.number : b \in found}

\* Bug: the number is taken for a position in the list.
FindBuildByPosition(list, asked) ==
  IF asked.build = "number"
  THEN {b \in list : Cardinality({other \in list : Before(other, b)}) + 1 = asked.number}
  ELSE LastOf(list)

\* findBuild: the builds it may return, none of them for an error.
FindBuild(list, asked) ==
  CASE asked.build = "latest" -> LastOf(list)
    [] asked.build = "number" -> {b \in list : b.number = asked.number}
    [] OTHER                  -> {}

\* getImageDetails: a builder that is not ready hides everything else.
ImageDetails(i) ==
  IF ~i.builderReady THEN [status |-> "Not Ready", latest |-> 0]
  ELSE [status |-> CASE i.ready = "True"    -> "Ready"
                     [] i.ready = "False"   -> "Not Ready"
                     [] i.ready = "Unknown" -> "Building"
                     [] OTHER               -> "Unknown",
        latest |-> i.latest]
-----------------------------------------------------------------------------
(* The commands.                                                           *)

Idle(p) ==
  /\ pc' = [pc EXCEPT ![p] = "idle"]
  /\ command' = [command EXCEPT ![p] = "none"]
  /\ since' = [since EXCEPT ![p] = 0]
  /\ target' = [target EXCEPT ![p] = 0]
  /\ got' = [got EXCEPT ![p] = NewImage]

\* kp image trigger.
StartTrigger(p) ==
  /\ pc[p] = "idle"
  /\ pc' = [pc EXCEPT ![p] = "list"]
  /\ command' = [command EXCEPT ![p] = "trigger"]
  /\ shown' = [shown EXCEPT ![p] = NoShown]
  /\ UNCHANGED <<cluster, since, target, got, triggered>>

\* Bounds: a trigger that reads the last build there may ever be could have no answer.
TriggerList(p) ==
  /\ pc[p] = "list" /\ command[p] = "trigger"
  /\ counter < MaxBuilds
  /\ IF builds = {}
     THEN Idle(p)
     ELSE \E last \in LastOf(builds) :
            /\ target' = [target EXCEPT ![p] = last.number]
            /\ since' = [since EXCEPT ![p] = counter]
            /\ pc' = [pc EXCEPT ![p] = "patch"]
            /\ UNCHANGED <<command, got>>
  /\ UNCHANGED <<cluster, shown, triggered>>

\* The patch has the annotation and nothing else; a build that is gone is an error.
TriggerPatch(p) ==
  /\ pc[p] = "patch"
  /\ LET annotated == {b \in builds : b.number = target[p]}
     IN  /\ builds' = (builds \ annotated) \cup {[b EXCEPT !.needed = TRUE] : b \in annotated}
         /\ triggered' = triggered \cup {[number |-> b.number + 1, since |-> since[p]] : b \in annotated}
  /\ Idle(p)
  /\ UNCHANGED <<counter, image, shown>>

\* kp image status reads the image, then the builds.
ImageStatusGet(p) ==
  /\ pc[p] = "idle"
  /\ pc' = [pc EXCEPT ![p] = "list"]
  /\ command' = [command EXCEPT ![p] = "image status"]
  /\ got' = [got EXCEPT ![p] = image]
  /\ shown' = [shown EXCEPT ![p] = NoShown]
  /\ UNCHANGED <<cluster, since, target, triggered>>

ImageStatusList(p) ==
  /\ pc[p] = "list" /\ command[p] = "image status"
  /\ \E success \in LastWith(builds, "success"), failure \in LastWith(builds, "failure") :
       shown' = [shown EXCEPT ![p] =
                   [details |-> ImageDetails(got[p]), success |-> success, failure |-> failure]]
  /\ Idle(p)
  /\ UNCHANGED <<cluster, triggered>>

\* kp build status and kp build logs: one request.
BuildStatus(p, asked) ==
  /\ pc[p] = "idle"
  /\ LET found == FindBuild(builds, asked)
     IN  \/ \E b \in found :
              shown' = [shown EXCEPT ![p] = [asked |-> asked, build |-> b, of |-> counter]]
         \/ found = {} /\ shown' = [shown EXCEPT ![p] = NoShown]
  /\ UNCHANGED <<cluster, pc, command, since, target, got, triggered>>

\* A request fails, or the process is killed.
Crash(p) ==
  /\ pc[p] # "idle"
  /\ Idle(p)
  /\ UNCHANGED <<cluster, shown, triggered>>
-----------------------------------------------------------------------------
(* kpack and its users.                                                    *)

locals == <<pc, command, since, target, got, shown, triggered>>

\* The image controller: when the newest build is over and a reason is there.
CreateBuild ==
  /\ counter < MaxBuilds
  /\ builds # {} => Newest.outcome # "running" /\ (Newest.needed \/ image.changed)
  /\ counter' = counter + 1
  /\ \E gap \in Gaps :
       builds' = builds \cup {Build(counter + 1, IF builds = {} THEN 0 ELSE Newest.created + gap)}
  /\ image' = [image EXCEPT !.changed = FALSE, !.ready = "Unknown"]
  /\ UNCHANGED locals

FinishBuild ==
  /\ builds # {} /\ Newest.outcome = "running"
  /\ \E outcome \in {"success", "failure"} :
       builds' = (builds \ {Newest}) \cup {[Newest EXCEPT !.outcome = outcome]}
  /\ UNCHANGED <<counter, image, locals>>

\* The image controller: the image takes over the result.
Latest == IF Numbers("success") = {} THEN image.latest ELSE Max(Numbers("success"))
UpdateImage ==
  /\ builds # {} /\ Newest.outcome # "running"
  /\ image' = [image EXCEPT !.latest = Latest,
                            !.ready = IF Newest.outcome = "success" THEN "True" ELSE "False"]
  /\ UNCHANGED <<builds, counter, locals>>

\* The image controller: of the finished builds the oldest are deleted.
TooOld(b) ==
  /\ b.outcome # "running"
  /\ Cardinality({n \in Numbers(b.outcome) : n > b.number}) >= HistoryLimit
Prune ==
  /\ \E b \in builds : TooOld(b) /\ builds' = builds \ {b}
  /\ UNCHANGED <<counter, image, locals>>

\* A commit or a patch of the image; a builder that becomes ready or stops being so.
ChangeInputs ==
  /\ counter < MaxBuilds
  /\ \/ image' = [image EXCEPT !.changed = TRUE]
     \/ image' = [image EXCEPT !.builderReady = ~image.builderReady]
  /\ UNCHANGED <<builds, counter, locals>>
-----------------------------------------------------------------------------
Command(p) == TriggerList(p) \/ TriggerPatch(p) \/ ImageStatusList(p)

Next ==
  \/ \E p \in Procs :
       \/ StartTrigger(p) \/ ImageStatusGet(p)
       \/ \E asked \in Asked : BuildStatus(p, asked)
       \/ Command(p) \/ Crash(p)
  \/ CreateBuild \/ FinishBuild \/ UpdateImage \/ Prune \/ ChangeInputs

Spec == Init /\ [][Next]_vars

\* A build that runs ends, and the controller looks at the annotations again and again.
FairSpec == Spec /\ WF_vars(CreateBuild) /\ WF_vars(FinishBuild)
-----------------------------------------------------------------------------
(* What the commands promise.                                              *)

\* A trigger that succeeded is answered: the build it announced comes to be, and it is
\* one that was not there when the command looked, whatever else was built, finished or
\* pruned between its two requests (image/trigger.go).
TriggerIsAnswered ==
  \A n \in 1..MaxBuilds, k \in 0..MaxBuilds :
    [number |-> n, since |-> k] \in triggered ~> counter >= n /\ counter > k

\* kp image status reads the image and then its builds: the last successful build it
\* prints is never older than the latest image above it, and there is one if the image
\* is Ready (image/status.go).
StatusIsCoherent ==
  \A p \in Procs : shown[p] # NoShown /\ "details" \in DOMAIN shown[p] =>
    /\ shown[p].details.latest <= shown[p].success
    /\ shown[p].details.status = "Ready" => shown[p].success # 0
    /\ shown[p].success # 0 => shown[p].success # shown[p].failure

\* kp build status and logs show the build they were asked for, by default the newest
\* there was (build/status.go).
ShownAsAsked ==
  \A p \in Procs : shown[p] # NoShown /\ "asked" \in DOMAIN shown[p] =>
    /\ shown[p].asked.build = "latest" => shown[p].build.number = shown[p].of
    /\ shown[p].asked.build = "number" => shown[p].build.number = shown[p].asked.number
=============================================================================
