----------------------------- MODULE MCResource -----------------------------
(***************************************************************************)
(* Command lines and kp-configs for Resource, small enough for TLC.  Two   *)
(* lines that name different things can overlap, undo each other, or ask   *)
(* for what is there already.                                              *)
(***************************************************************************)
EXTENDS Resource

CONSTANTS p1, p2

Symmetry == Permutations(Procs)

Live(verb, flags) == [verb |-> verb, mode |-> "live", flags |-> flags]
Dry(verb, flags) == [verb |-> verb, mode |-> "dry", flags |-> flags]
WithUpload(verb, flags) == [verb |-> verb, mode |-> "upload", flags |-> flags]

\* The kinds that upload have the most states for each generation.
MCMaxGeneration == [k \in Kinds |-> IF k \in ClusterKinds THEN 2 ELSE 3]

\* A map of an older kp, and one with an account.  A map that is missing is one that
\* cannot be read, which every command may find.
MCConfigs == {[NoData EXCEPT ![<<"repository", "canonical">>] = "repo"],
              WithSettings(NoData, [repository |-> "other", account |-> "sa"])}

MCStackIdOf == [build1 |-> "bionic", run1 |-> "bionic", build2 |-> "jammy", run2 |-> "jammy"]

StackLines == {
  Live("create", [build |-> "build1", run |-> "run1"]),
  Live("save", [build |-> "build2", run |-> "run2"]),
  Live("patch", [build |-> "build1", run |-> "run2"])}

LifecycleLines == {
  Live("create", [image |-> "lifecycle1"]),
  Live("save", [image |-> "lifecycle2"]),
  Dry("save", [image |-> "lifecycle1"]),
  Live("patch", [image |-> "unlabelled"])}

ClusterBuildpackLines == {
  Live("create", [image |-> "java"]),
  Live("save", <<>>),
  Live("patch", [image |-> "go"]),
  Dry("patch", [image |-> "java"])}

BuildpackLines == {
  Live("create", [image |-> "java"]),
  Live("save", [image |-> "go"]),
  Live("patch", [account |-> "sa"]),
  Live("delete", <<>>)}

MCOrderFiles == [yaml |-> <<<<"java">>, <<"go">>>>]
MCOrderLabels == [builder |-> <<<<"java", "go">>>>]

BuilderLines == {
  Live("create", [tag |-> "tag", order |-> "yaml"]),
  Live("save", [stack |-> "tiny", buildpacks |-> <<"java">>]),
  Live("save", [tag |-> "other", store |-> "store"]),
  Live("patch", [tag |-> "third", account |-> "sa", orderFrom |-> "builder"]),
  Live("patch", [buildpacks |-> <<"go">>, order |-> "yaml"])}

ClusterBuilderLines == {
  Live("create", [order |-> "missing"]),
  Live("save", [stack |-> "tiny", orderFrom |-> "builder"]),
  Live("patch", [tag |-> <<"other", "tag">>, store |-> "store"]),
  Dry("patch", [stack |-> "default"]),
  Live("delete", <<>>)}

MCRegistryOf == [t |-> "registry", u |-> "registry", v |-> "elsewhere"]
MCRepoOf == [t |-> "t", u |-> "t", v |-> "v"]

ImageLines == {
  Live("create", [tag |-> "t", git |-> "git1", gitRevision |-> "dev", env |-> <<<<"A", "1">>, <<"B", "1">>>>]),
  Live("create", [tag |-> "t", blob |-> "blob1", tags |-> <<"v">>]),
  Live("save", [tag |-> "u", localPath |-> "src", builder |-> "b", services |-> <<<<"s1">>>>, cacheSize |-> 2]),
  Live("save", [tag |-> "u", git |-> "git2", tags |-> <<"u">>, subPath |-> "app"]),
  Live("patch", [gitRevision |-> "next", deleteEnv |-> <<"A">>, env |-> <<<<"B", "2">>>>]),
  Live("patch", [blob |-> "blob1", deleteEnv |-> <<"B">>, deleteServices |-> <<<<"Secret", "", "s1">>>>, cacheSize |-> 1]),
  Live("patch", [replaceTags |-> <<"t">>, services |-> <<<<"s1">>>>, successLimit |-> 1]),
  WithUpload("patch", [localPath |-> "src"]),
  Live("patch", [deleteTags |-> <<"u">>, subPath |-> ""])}

ConfigLines == {
  Live("save", [repository |-> "repo"]),
  Live("save", [repository |-> "other"]),
  Live("save", [account |-> "sa", namespace |-> "kpack"]),
  Live("save", [account |-> "sa", namespace |-> "apps"])}

MCLines == [stack |-> StackLines, lifecycle |-> LifecycleLines,
            clusterbuildpack |-> ClusterBuildpackLines, buildpack |-> BuildpackLines,
            builder |-> BuilderLines, clusterbuilder |-> ClusterBuilderLines,
            image |-> ImageLines, kpconfig |-> ConfigLines]
=============================================================================
