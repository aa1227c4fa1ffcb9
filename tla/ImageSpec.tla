----------------------------- MODULE ImageSpec -----------------------------
(***************************************************************************)
(* What the flags of `kp image create`, `patch` and `save` make of the     *)
(* spec of an Image (pkg/image/factory.go and update_factory.go).          *)
(*                                                                         *)
(* Every function that may fail returns the set of what it returns: a      *)
(* command line that is refused gives the empty set.                       *)
(***************************************************************************)
EXTENDS Integers, FiniteSets, SequencesExt, Fields

CONSTANTS
  RegistryOf,  \* [tags -> registries]
  RepoOf       \* [tags -> repositories]: the tag without its ":label"

\* The flags of save, which has those of create and of patch.
ImageFlags == {"tag", "tags", "replaceTags", "deleteTags", "git", "gitRevision", "blob", "localPath",
               "destination", "subPath", "builder", "clusterBuilder", "env", "deleteEnv", "services",
               "deleteServices", "cacheSize", "successLimit", "failedLimit", "account"}

\* Environment variables are pairs of a name and a value (one that is no pair has no
\* "="), service bindings are triples of a kind, an API version and a name.
Names(env) == {e[1] : e \in ToSet(env)}
Formatted(env) == \A e \in ToSet(env) : Len(e) = 2

-----------------------------------------------------------------------------
(* Validation *)

Sources(flags) == {"git", "blob", "localPath"} \cap DOMAIN flags

\* --git-revision is about git.
RevisionFits(flags) == Given(flags, "gitRevision") => Sources(flags) \subseteq {"git"}

\* validateBuilder
OneBuilder(flags) == ~(Given(flags, "builder") /\ Given(flags, "clusterBuilder"))

\* validateTagsSameRegistry, which only create does.
TagsSameRegistry(flags) ==
  \A t \in ToSet(Flag(flags, "tags", <<>>)) : RegistryOf[t] = RegistryOf[flags.tag]

\* validateCreate and validateSourceCreate
ValidCreate(flags) ==
  /\ TagsSameRegistry(flags)
  /\ Cardinality(Sources(flags)) = 1 /\ RevisionFits(flags)
  /\ OneBuilder(flags)

\* validateSourceUpdate
ValidSourceUpdate(flags, image) ==
  /\ Cardinality(Sources(flags)) <= 1 /\ RevisionFits(flags)
  /\ Given(flags, "gitRevision") /\ Sources(flags) = {} => image.gitUrl # NoValue

\* validateEnvVars: what is deleted must be there, and not be set by the same command.
ValidEnvVars(flags, image) ==
  \A n \in ToSet(Flag(flags, "deleteEnv", <<>>)) :
    n \in Names(image.env) \ Names(Flag(flags, "env", <<>>))

\* validateAdditionalTags
ValidAdditionalTags(flags, image) ==
  /\ Given(flags, "replaceTags") => ~Given(flags, "tags") /\ ~Given(flags, "deleteTags")
  /\ ToSet(Flag(flags, "deleteTags", <<>>)) \subseteq
       ToSet(image.tags) \ ToSet(Flag(flags, "tags", <<>>))

ValidUpdate(flags, image) ==
  /\ ValidSourceUpdate(flags, image)
  /\ OneBuilder(flags)
  /\ ValidEnvVars(flags, image)
  /\ ValidAdditionalTags(flags, image)

\* makeBuildHistoryLimit
ValidLimits(flags) == Flag(flags, "successLimit", 1) >= 1 /\ Flag(flags, "failedLimit", 1) >= 1

\* parseServiceBindings: a name alone is the name of a Secret.
ParseServiceBindings(services) ==
  Only([i \in DOMAIN services |->
         IF Len(services[i]) = 1 THEN <<"Secret", "", services[i][1]>> ELSE services[i]],
       \A s \in ToSet(services) : Len(s) \in {1, 3})

-----------------------------------------------------------------------------
(* The source *)

Git(url, revision) == [gitUrl |-> url, gitRevision |-> revision, blob |-> NoValue, registry |-> NoValue]
Blob(url) == [gitUrl |-> NoValue, gitRevision |-> NoValue, blob |-> url, registry |-> NoValue]
Registry(image) == [gitUrl |-> NoValue, gitRevision |-> NoValue, blob |-> NoValue, registry |-> image]

SourceOf(image) == [f \in {"gitUrl", "gitRevision", "blob", "registry"} |-> image[f]]

\* Where local source goes, as what is put together.  create appends "-source" to the tag,
\* and a label takes the suffix for itself; patch appends it to the repository.
Destination(flags, default) == IF Given(flags, "destination") THEN <<flags.destination>> ELSE default
CreateDestination(flags) ==
  Destination(flags, IF flags.tag = RepoOf[flags.tag] THEN <<flags.tag, "-source">> ELSE <<RepoOf[flags.tag]>>)
UpdateDestination(flags, image) == Destination(flags, <<RepoOf[image.tag], "-source">>)

\* makeSource
MakeSource(flags) ==
  CASE Given(flags, "git")  -> Git(flags.git, Flag(flags, "gitRevision", "main"))
    [] Given(flags, "blob") -> Blob(flags.blob)
    [] OTHER                -> Registry(<<CreateDestination(flags), flags.localPath>>)

\* setSource: another git repository starts at its main branch.
SetSource(flags, image) ==
  CASE Given(flags, "git")       -> Git(flags.git, Flag(flags, "gitRevision", "main"))
    [] Given(flags, "blob")      -> Blob(flags.blob)
    [] Given(flags, "localPath") -> Registry(<<UpdateDestination(flags, image), flags.localPath>>)
    [] OTHER                     -> [SourceOf(image) EXCEPT !.gitRevision = Flag(flags, "gitRevision", @)]

-----------------------------------------------------------------------------
(* The lists *)

\* setAdditionalTags
SetAdditionalTags(flags, image) ==
  IF Given(flags, "replaceTags") THEN flags.replaceTags
  ELSE FoldLeft(LAMBDA tags, t : IF t \in ToSet(tags) THEN tags ELSE Append(tags, t),
                FoldLeft(LAMBDA tags, t : RemoveFirst(tags, t), image.tags, Flag(flags, "deleteTags", <<>>)),
                Flag(flags, "tags", <<>>))

\* Bug: a variable that is there already is not looked for.
SetVariableAppends(env, e) == Append(env, e)

\* The first variable of that name gets the value.
SetVariable(env, e) ==
  LET first == SelectInSeq(env, LAMBDA x : x[1] = e[1])
  IN  IF first = 0 THEN Append(env, e) ELSE [env EXCEPT ![first] = e]

\* setBuild's first half
SetEnv(flags, image) ==
  FoldLeft(SetVariable,
           FoldLeft(LAMBDA env, n : RemoveFirstMatch(env, LAMBDA e : e[1] = n), image.env, Flag(flags, "deleteEnv", <<>>)),
           Flag(flags, "env", <<>>))

\* setBuild's second half: whenever one of the new bindings is missing, all are appended.
SetServices(services, deleted, added) ==
  FoldLeft(LAMBDA bound, s : IF s \in ToSet(bound) THEN bound ELSE bound \o added,
           FoldLeft(LAMBDA bound, s : RemoveFirst(bound, s), services, deleted),
           added)

-----------------------------------------------------------------------------
(* The image *)

\* makeBuilder and setBuilder
BuilderOf(flags, default) ==
  CASE Given(flags, "builder")        -> <<"Builder", flags.builder>>
    [] Given(flags, "clusterBuilder") -> <<"ClusterBuilder", flags.clusterBuilder>>
    [] OTHER                          -> default

\* getCacheSize and setCacheSize: a cache does not shrink.
ValidCache(flags, current) ==
  Given(flags, "cacheSize") => /\ flags.cacheSize > 0
                               /\ current # NoValue => flags.cacheSize >= current

ImageFields == {"tag", "tags", "builder", "account", "gitUrl", "gitRevision", "blob", "registry",
                "subPath", "env", "services", "cacheSize", "successLimit", "failedLimit"}

\* The fields that are what the flag of that name says, if there is one.
PlainFields == {"account", "subPath", "cacheSize", "successLimit", "failedLimit"}

\* Their values.  --sub-path alone may be given as the empty path, which clears its field.
Plain(flags, f, default) ==
  IF f = "subPath" /\ Given(flags, f) /\ flags[f] = "" THEN NoValue ELSE Flag(flags, f, default)

\* The fields that both MakeImage and UpdateImage compute.
Assemble(tag, source, tags, env, services, builder, plain) ==
  [f \in ImageFields |->
     CASE f \in DOMAIN source -> source[f]
       [] f = "tag"      -> tag
       [] f = "tags"     -> tags
       [] f = "env"      -> env
       [] f = "services" -> services
       [] f = "builder"  -> builder
       [] OTHER          -> plain[f]]

\* MakeImage.  The flags that only change an image are not looked at.
MakeImage(flags) ==
  {Assemble(flags.tag, MakeSource(flags), Flag(flags, "tags", <<>>), Flag(flags, "env", <<>>), services,
            BuilderOf(flags, <<"ClusterBuilder", "default">>),
            [f \in PlainFields |-> Plain(flags, f, IF f = "account" THEN "default" ELSE NoValue)]) :
     services \in {s \in ParseServiceBindings(Flag(flags, "services", <<>>)) :
                     /\ Given(flags, "tag") /\ ValidCreate(flags)
                     /\ Formatted(Flag(flags, "env", <<>>))
                     /\ ValidCache(flags, NoValue) /\ ValidLimits(flags)}}

\* UpdateImage: the tag of an image stays.
UpdateImage(flags, image) ==
  {Assemble(image.tag, SetSource(flags, image), SetAdditionalTags(flags, image), SetEnv(flags, image),
            SetServices(image.services, deleted, added),
            BuilderOf(flags, image.builder),
            [f \in PlainFields |-> Plain(flags, f, image[f])]) :
     deleted \in ParseServiceBindings(Flag(flags, "deleteServices", <<>>)),
     added \in {s \in ParseServiceBindings(Flag(flags, "services", <<>>)) :
                  /\ ValidUpdate(flags, image)
                  /\ Formatted(Flag(flags, "env", <<>>))
                  /\ ValidCache(flags, image.cacheSize) /\ ValidLimits(flags)}}
=============================================================================
